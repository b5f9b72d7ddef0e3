------------------------------ MODULE LuaTable ------------------------------
(***************************************************************************)
(* ltable.c: a table with an array part and a hash part, whose nodes are   *)
(* chained by offsets to others of the same vector; how a new key finds a  *)
(* place, how the parts are sized when there is none, how a traversal goes *)
(* on from its last key and where the length operator ends up.             *)
(*                                                                         *)
(* Keys are <<"int", i>>, <<"str", hash, name>> and <<"ref", address>>,    *)
(* a float with an integral value has become an integer; values are 1 or   *)
(* NIL.  The nodes of t are numbered from 1, and there are none when the   *)
(* hash part is the dummy node.                                            *)
(***************************************************************************)
EXTENDS Integers, Sequences, FiniteSets, TLC, SequencesExt

CONSTANTS Keys,       \* the keys that are set
          MAX_INT,    \* where unbound_search gives up doubling
          SizesArray, \* sizes of the array part in a constructor
          SizesHash   \* and of the hash part

NIL == 0
NoKey == <<"nil">>

LuaTableAssumption == MAX_INT \in Nat \ {0}

VARIABLES t,       \* the table: array, node and lastfree
          store,   \* what the program has put into it (history)
          walk     \* a traversal: its key, what it has met and what it must meet yet

vars == <<t, store, walk>>

MaxBits == 5
CeilLog2(n) == CHOOSE k \in 0..MaxBits : 2^k >= n /\ (k = 0 \/ 2^(k - 1) < n)

FreeNode == [key |-> NoKey, val |-> NIL, next |-> 0]

\* setnodevector
NodeVector(size) == IF size = 0 THEN <<>> ELSE [k \in 1..2^CeilLog2(size) |-> FreeNode]

New(nasize, nhsize) ==
  [array |-> [k \in 1..nasize |-> NIL], node |-> NodeVector(nhsize),
   lastfree |-> Len(NodeVector(nhsize)) + 1]

\* Integers and strings have a mask for their hash, addresses a modulus that is odd.
MainPosition(node, key) ==
  LET size == Len(node) IN
  1 + IF key[1] \in {"int", "str"} THEN key[2] % size
      ELSE key[2] % (IF (size - 1) % 2 = 1 THEN size - 1 ELSE size)

InArray(tab, key) == key[1] = "int" /\ key[2] \in DOMAIN tab.array

\* The nodes of a chain in order; a chain that came back to a node would have no end, and is
\* followed no further than there are nodes.
ChainFrom(node, n) ==
  LET Step(chain, k) == IF Last(chain) = 0 \/ node[Last(chain)].next = 0 THEN chain
                        ELSE Append(chain, Last(chain) + node[Last(chain)].next)
  IN  FoldLeft(Step, <<n>>, [k \in DOMAIN node |-> k])

\* The node in which luaH_get finds a key in the hash part, or 0.
Find(tab, key) ==
  LET chain == ChainFrom(tab.node, MainPosition(tab.node, key))
      k     == SelectInSeq(chain, LAMBDA n : tab.node[n].key = key)
  IN  IF tab.node = <<>> \/ k = 0 THEN 0 ELSE chain[k]

Get(tab, key) ==
  IF InArray(tab, key) THEN tab.array[key[2]]
  ELSE IF Find(tab, key) = 0 THEN NIL ELSE tab.node[Find(tab, key)].val

GetInt(tab, i) == Get(tab, <<"int", i>>)

\* getfreepos: lastfree only ever goes down.
FreePos(tab) ==
  LET free == {n \in 1..tab.lastfree - 1 : tab.node[n].key = NoKey} IN
  IF free = {} THEN 0 ELSE CHOOSE n \in free : \A m \in free : m <= n

\* Faulty variant of MoveColliding: the offset to the next node is copied as it is.
MoveKeepsOffset(tab, key, mp, f) ==
  LET node  == tab.node
      other == MainPosition(node, node[mp].key)
      chain == ChainFrom(node, other)
      prev  == chain[SelectInSeq(chain, LAMBDA n : n + node[n].next = mp)]
  IN  [tab EXCEPT !.lastfree = f, !.node[prev].next = f - prev,
                  !.node[f] = node[mp], !.node[mp] = [FreeNode EXCEPT !.key = key]]

\* The free position is taken: for the node that is out of its place, with what follows it, or
\* else for the new key.
MoveColliding(tab, key, mp, f) ==
  LET node  == tab.node
      other == MainPosition(node, node[mp].key)
      chain == ChainFrom(node, other)
      prev  == chain[SelectInSeq(chain, LAMBDA n : n + node[n].next = mp)]
  IN  [tab EXCEPT !.lastfree = f,
                  !.node[prev].next = f - prev,
                  !.node[f] = [node[mp] EXCEPT !.next = IF @ = 0 THEN 0 ELSE @ + mp - f],
                  !.node[mp] = [FreeNode EXCEPT !.key = key]]

TakeFree(tab, key, mp, f) ==
  LET next == tab.node[mp].next IN
  [tab EXCEPT !.lastfree = f,
              !.node[f] = [FreeNode EXCEPT !.key = key, !.next = IF next = 0 THEN 0 ELSE mp + next - f],
              !.node[mp].next = f - mp]

\* luaH_newkey as far as the place: the table with the key, or full when there is none.
Place(tab, key) ==
  LET mp == MainPosition(tab.node, key)
      f  == FreePos(tab)
  IN  IF tab.node # <<>> /\ tab.node[mp].val = NIL
      THEN [full |-> FALSE, tab |-> [tab EXCEPT !.node[mp].key = key]]
      ELSE IF f = 0 THEN [full |-> TRUE, tab |-> [tab EXCEPT !.lastfree = IF @ > 1 THEN 1 ELSE @]]
      ELSE [full |-> FALSE,
            tab |-> IF MainPosition(tab.node, tab.node[mp].key) # mp
                    THEN MoveColliding(tab, key, mp, f) ELSE TakeFree(tab, key, mp, f)]

\* luaH_set of a key that has a place, in the array part or in a node.
Put(tab, key, val) ==
  IF InArray(tab, key) THEN [tab EXCEPT !.array[key[2]] = val]
  ELSE [tab EXCEPT !.node[Find(tab, key)].val = val]

\* luaH_set when the table has room, as it must have while it is resized.
PutNew(r, key, val) ==
  LET place == Place(r.tab, key) IN
  IF InArray(r.tab, key) \/ Find(r.tab, key) # 0 THEN [r EXCEPT !.tab = Put(@, key, val)]
  ELSE IF place.full THEN [r EXCEPT !.full = TRUE]
  ELSE [r EXCEPT !.tab = Put(place.tab, key, val)]

\* luaH_resize: the slice of the array that vanishes goes first, then the old nodes, the last
\* one first.
Resize(tab, nasize, nhsize) ==
  LET fresh  == [New(nasize, nhsize) EXCEPT
                   !.array = [k \in 1..nasize |-> IF k \in DOMAIN tab.array THEN tab.array[k] ELSE NIL]]
      slice  == SelectSeq([k \in DOMAIN tab.array |-> k],
                          LAMBDA k : k > nasize /\ tab.array[k] # NIL)
      nodes  == SelectSeq(Reverse(tab.node), LAMBDA n : n.val # NIL)
      first  == FoldLeft(LAMBDA r, k : PutNew(r, <<"int", k>>, tab.array[k]),
                         [full |-> FALSE, tab |-> fresh], slice)
  IN  FoldLeft(LAMBDA r, n : PutNew(r, n.key, n.val), first, nodes)

\* numusearray, numusehash and countint: the integer keys that are used, and how many keys are.
IntKeys(tab) ==
  {k \in DOMAIN tab.array : tab.array[k] # NIL}
  \cup {tab.node[n].key[2] : n \in {m \in DOMAIN tab.node :
                                      tab.node[m].val # NIL /\ tab.node[m].key[1] = "int"}}
TotalUse(tab) ==
  Cardinality({k \in DOMAIN tab.array : tab.array[k] # NIL})
  + Cardinality({n \in DOMAIN tab.node : tab.node[n].val # NIL})

\* computesizes: from slice to slice while what there is could fill more than half.
ComputeSizes(ints) ==
  LET Nums(i) == Cardinality({k \in ints : k >= 1 /\ k <= 2^i /\ (i = 0 \/ k > 2^(i - 1))})
      pna     == Cardinality({k \in ints : k >= 1})
      Step(r, i) ==
        LET a == r.a + Nums(i) IN
        IF pna <= 2^i \div 2 \/ Nums(i) = 0 THEN r
        ELSE IF a > 2^i \div 2 THEN [a |-> a, na |-> a, optimal |-> 2^i] ELSE [r EXCEPT !.a = a]
  IN  FoldLeft(Step, [a |-> 0, na |-> 0, optimal |-> 0], [i \in 1..MaxBits |-> i - 1])

\* rehash
Rehash(tab, key) ==
  LET sizes == ComputeSizes(IntKeys(tab) \cup (IF key[1] = "int" THEN {key[2]} ELSE {}))
  IN  Resize(tab, sizes.optimal, TotalUse(tab) + 1 - sizes.na)

\* A key gets a value that may be nil, and a key that is new a place even then.
SetKey(tab, key, val) ==
  LET place   == Place(tab, key)
      grown   == Rehash(tab, key)
  IN  IF InArray(tab, key) \/ Find(tab, key) # 0 THEN [full |-> FALSE, tab |-> Put(tab, key, val)]
      ELSE IF ~place.full THEN [full |-> FALSE, tab |-> Put(place.tab, key, val)]
      ELSE PutNew(grown, key, val)

\* findindex: a key that is dead since the last step still counts.
FindIndex(tab, key) ==
  LET chain == ChainFrom(tab.node, MainPosition(tab.node, key))
      k     == SelectInSeq(chain, LAMBDA n : tab.node[n].key \in
                 {key, IF key[1] = "ref" THEN <<"dead", key[2]>> ELSE key})
  IN  IF key = NoKey THEN 0
      ELSE IF InArray(tab, key) THEN key[2]
      ELSE IF tab.node = <<>> \/ k = 0 THEN -1
      ELSE Len(tab.array) + chain[k]

\* luaH_next: the next key with a value, NoKey at the end, Invalid when the key is not found.
Invalid == <<"invalid">>
NextKey(tab, key) ==
  LET i     == FindIndex(tab, key)
      cells == [k \in DOMAIN tab.array |-> [key |-> <<"int", k>>, val |-> tab.array[k]]] \o tab.node
      rest  == {k \in DOMAIN cells : k > i /\ cells[k].val # NIL}
  IN  IF i = -1 THEN Invalid
      ELSE IF rest = {} THEN NoKey
      ELSE cells[CHOOSE k \in rest : \A l \in rest : k <= l].key

\* Between a present index (or 0) and an absent one, half the distance at a time.
RECURSIVE BinarySearch(_, _, _)
BinarySearch(tab, i, j) ==
  LET m == (i + j) \div 2 IN
  IF j - i <= 1 THEN i
  ELSE IF GetInt(tab, m) = NIL THEN BinarySearch(tab, i, m) ELSE BinarySearch(tab, m, j)

RECURSIVE UnboundSearch(_, _, _)
UnboundSearch(tab, i, j) ==
  IF GetInt(tab, j) = NIL THEN BinarySearch(tab, i, j)
  ELSE IF j > MAX_INT \div 2
  THEN (CHOOSE n \in 1..MAX_INT + 1 : GetInt(tab, n) = NIL /\ \A m \in 1..n - 1 : GetInt(tab, m) # NIL) - 1
  ELSE UnboundSearch(tab, j, 2 * j)

\* luaH_getn
GetN(tab) ==
  LET j == Len(tab.array) IN
  IF j > 0 /\ tab.array[j] = NIL THEN BinarySearch(tab, 0, j)
  ELSE IF tab.node = <<>> THEN j
  ELSE UnboundSearch(tab, j, j + 1)

-----------------------------------------------------------------------------

NoWalk == [on |-> FALSE, key |-> NoKey, seen |-> {}, must |-> {}, twice |-> FALSE]

\* A constructor gives the sizes.
Init ==
  /\ \E na \in SizesArray, nh \in SizesHash : t = New(na, nh)
  /\ store = [k \in Keys |-> NIL]
  /\ walk = NoWalk

\* lua_settable or lua_rawset; a traversal forbids keys that are new.  room is whether the
\* table had room for the key, grown if it had to.
Set ==
  \E key \in Keys, val \in {NIL, 1} :
    /\ walk.on => store[key] # NIL
    /\ LET r == SetKey(t, key, val) IN t' = [array |-> r.tab.array, node |-> r.tab.node,
                                            lastfree |-> IF r.full THEN -1 ELSE r.tab.lastfree]
    /\ store' = [store EXCEPT ![key] = val]
    /\ walk' = [walk EXCEPT !.must = IF val = NIL THEN @ \ {key} ELSE @]

\* OP_SETLIST of a constructor makes the array part larger.
ResizeArray ==
  \E n \in SizesArray :
    /\ ~walk.on /\ n > Len(t.array)
    /\ t' = Resize(t, n, Len(t.node)).tab
    /\ UNCHANGED <<store, walk>>

\* A collection leaves the address of a key that died with its value, and another object can
\* get it.
Collect ==
  /\ \E n \in DOMAIN t.node : t.node[n].val = NIL /\ t.node[n].key[1] = "ref"
  /\ t' = [t EXCEPT !.node = [n \in DOMAIN @ |->
             IF @[n].val = NIL /\ @[n].key[1] = "ref"
             THEN [@[n] EXCEPT !.key = <<"dead", @[2]>>] ELSE @[n]]]
  /\ UNCHANGED <<store, walk>>

WalkStart ==
  /\ ~walk.on
  /\ walk' = [NoWalk EXCEPT !.on = TRUE, !.must = {k \in Keys : store[k] # NIL}]
  /\ UNCHANGED <<t, store>>

WalkNext ==
  LET key == NextKey(t, walk.key) IN
  /\ walk.on /\ ~walk.twice /\ walk.key # Invalid
  /\ walk' = IF key = NoKey THEN [walk EXCEPT !.on = FALSE, !.key = NoKey, !.seen = {}]
             ELSE [walk EXCEPT !.key = key, !.seen = @ \cup {key}, !.must = @ \ {key},
                               !.twice = key \in walk.seen]
  /\ UNCHANGED <<t, store>>

Next == Set \/ ResizeArray \/ Collect \/ WalkStart \/ WalkNext

Spec == Init /\ [][Next]_vars

-----------------------------------------------------------------------------
(* Properties *)

\* Whatever collides, moves or is reinserted, every key has the value that was stored last
\* (luaH_newkey, luaH_resize).
HoldsWhatWasStored == \A k \in Keys : Get(t, k) = store[k]

\* A table that has grown has room for all its keys: the reinsertion in luaH_resize and the
\* luaH_set behind rehash never call for another rehash, which might not end.
GrowsOnce == t.lastfree >= 0

\* The length is a border: the last index with a value before one without (luaH_getn).
LengthIsBorder ==
  LET n == GetN(t) IN (n = 0 \/ GetInt(t, n) # NIL) /\ GetInt(t, n + 1) = NIL

\* A traversal that finds fields cleared and overwritten as it goes, and keys dead under it,
\* meets every key that keeps a value, none twice, and always knows where it is (findindex).
WalkMeetsAll ==
  /\ ~walk.twice /\ walk.key # Invalid
  /\ ~walk.on => walk.must = {}

\* The array part that a rehash chooses is the largest power of two of which more than half
\* the indices are in use (the comment at the head of ltable.c), the new key's included.
MoreThanHalf(n, ints) == 2 * Cardinality({k \in ints : k \in 1..n}) > n
BestSize(keys) ==
  LET ints  == {k[2] : k \in {l \in keys : l[1] = "int"}}
      sizes == {n \in {2^i : i \in 0..MaxBits} : MoreThanHalf(n, ints)}
  IN  CHOOSE n \in sizes \cup {0} : \A m \in sizes : m <= n
WellUsed ==
  \/ Len(t'.array) = Len(t.array)
  \/ \E n \in SizesArray : t' = Resize(t, n, Len(t.node)).tab
  \/ \E key \in Keys : store[key] = NIL /\
       Len(t'.array) = BestSize({k \in Keys : store[k] # NIL} \cup {key})

ArraysWellUsed == [][WellUsed]_vars

\* A table keeps what was stored in it, grows when it has to, knows a border and can be
\* walked through (ltable.c).
TableKeeps ==
  /\ HoldsWhatWasStored
  /\ GrowsOnce
  /\ LengthIsBorder
  /\ WalkMeetsAll

=============================================================================
