--------------------------- MODULE HashTableProofs ---------------------------
(***************************************************************************)
(* Proofs about HashTable, for every set of keys, every hash function and  *)
(* every capacity but 0.                                                   *)
(***************************************************************************)
EXTENDS HashTable, FiniteSetTheorems, WellFoundedInduction, TLAPS

-----------------------------------------------------------------------------
(***************************************************************************)
(* The probing loop over an array of capacity c.                           *)
(***************************************************************************)

\* Every round of the loop looks at a slot of the array.
LEMMA ProbeInRange ==
  ASSUME NEW c \in 1..MaxCap, NEW k \in Keys, NEW d \in 0..(c - 1)
  PROVE  Probe(c, k, d) \in 0..(c - 1)
BY HashTableAssumption, HashIndexAssumption DEF HashTableAssumption, HashIndexAssumption, Probe

\* c rounds look at every slot.
LEMMA ProbeOnto ==
  ASSUME NEW c \in 1..MaxCap, NEW k \in Keys, NEW s \in 0..(c - 1)
  PROVE  \E d \in 0..(c - 1) : s = Probe(c, k, d)
<1> DEFINE h == HashIndex(k, c)
<1>1. c \in Nat /\ h \in 0..(c - 1)
  BY HashTableAssumption, HashIndexAssumption DEF HashTableAssumption, HashIndexAssumption
<1> HIDE DEF h
<1>2. CASE s >= h
  <2>1. s - h \in 0..(c - 1) /\ h + (s - h) = s /\ s < c
    BY <1>1, <1>2
  <2> QED
    BY <2>1 DEF Probe, h
<1>3. CASE s < h
  <2>1. (s + c) - h \in 0..(c - 1) /\ h + ((s + c) - h) = s + c /\ ~(s + c < c)
        /\ (s + c) - c = s
    BY <1>1, <1>3
  <2> QED
    BY <2>1 DEF Probe, h
<1> QED
  BY <1>1, <1>2, <1>3

\* No two of the c rounds look at the same slot.
LEMMA ProbeOnce ==
  ASSUME NEW c \in 1..MaxCap, NEW k \in Keys,
         NEW d \in 0..(c - 1), NEW j \in 0..(c - 1), Probe(c, k, d) = Probe(c, k, j)
  PROVE  d = j
BY HashTableAssumption, HashIndexAssumption DEF HashTableAssumption, HashIndexAssumption, Probe

\* The loop stops at one slot at most.
LEMMA LandsOnce ==
  ASSUME NEW c \in 1..MaxCap, NEW k \in Keys, NEW e, NEW s, NEW t,
         Lands(e, c, k, s), Lands(e, c, k, t)
  PROVE  s = t
<1>1. PICK d \in 0..(c - 1) :
         s = Probe(c, k, d) /\ \A j \in 0..(d - 1) : Passes(e, Probe(c, k, j), k)
  BY DEF Lands
<1>2. PICK b \in 0..(c - 1) :
         t = Probe(c, k, b) /\ \A j \in 0..(b - 1) : Passes(e, Probe(c, k, j), k)
  BY DEF Lands
<1>3. ~Passes(e, s, k) /\ ~Passes(e, t, k)
  BY DEF Lands
<1>4. c \in Nat
  BY HashTableAssumption DEF HashTableAssumption
<1>5. ~(d < b)
  <2> SUFFICES ASSUME d < b PROVE FALSE
    OBVIOUS
  <2>1. d \in 0..(b - 1)
    BY <1>4
  <2> QED
    BY <1>1, <1>2, <1>3, <2>1
<1>6. ~(b < d)
  <2> SUFFICES ASSUME b < d PROVE FALSE
    OBVIOUS
  <2>1. b \in 0..(d - 1)
    BY <1>4
  <2> QED
    BY <1>1, <1>2, <1>3, <2>1
<1>7. d = b
  BY <1>4, <1>5, <1>6
<1> QED
  BY <1>1, <1>2, <1>7

\* The loop stops at a slot of the array.
LEMMA LandsInArray ==
  ASSUME NEW c \in 1..MaxCap, NEW k \in Keys, NEW e, NEW s, Lands(e, c, k, s)
  PROVE  s \in 0..(c - 1)
BY ProbeInRange DEF Lands

\* With an empty slot anywhere in the array, the loop stops.
LEMMA LandsSomewhere ==
  ASSUME NEW c \in 1..MaxCap, NEW k \in Keys, NEW e,
         NEW f \in 0..(c - 1), e[f] = NoEntry
  PROVE  \E s \in 0..(c - 1) : Lands(e, c, k, s)
<1>1. c \in Nat
  BY HashTableAssumption DEF HashTableAssumption
<1> DEFINE Stops == {d \in 0..(c - 1) : ~Passes(e, Probe(c, k, d), k)}
<1>2. PICK d0 \in 0..(c - 1) : f = Probe(c, k, d0)
  BY ProbeOnto
<1>3. d0 \in Stops
  BY <1>2 DEF Passes
<1>4. Stops \subseteq Nat
  BY <1>1
<1>5. PICK d \in Stops : \A j \in Stops : ~(<<j, d>> \in OpToRel(<, Nat))
  BY <1>3, <1>4, NatLessThanWellFounded, WFMin
<1>6. \A j \in 0..(d - 1) : j \in Nat /\ d \in Nat /\ j < d /\ j \in 0..(c - 1)
  BY <1>1
<1>7. \A j \in 0..(d - 1) : <<j, d>> \in OpToRel(<, Nat)
  BY <1>6 DEF OpToRel
<1>8. \A j \in 0..(d - 1) : Passes(e, Probe(c, k, j), k)
  BY <1>5, <1>6, <1>7
<1>9. Lands(e, c, k, Probe(c, k, d))
  BY <1>8 DEF Lands
<1> QED
  BY <1>9, ProbeInRange
-----------------------------------------------------------------------------
(***************************************************************************)
(* Arrays of entries.                                                      *)
(***************************************************************************)

\* A key and a value are not an empty slot.
LEMMA EntryIsNotEmpty ==
  ASSUME NEW x \in Entry
  PROVE  x # NoEntry /\ x.key \in Keys /\ x.value \in Values
BY HashTableAssumption DEF HashTableAssumption, Entry, NoEntry

\* The slots in use are finitely many; unless they are all there are, one is empty.
LEMMA OccupiedSlots ==
  ASSUME NEW c \in Nat, NEW e \in Array(c)
  PROVE  /\ Occupied(e) \subseteq 0..(c - 1)
         /\ IsFiniteSet(Occupied(e))
         /\ Cardinality(Occupied(e)) \in Nat
         /\ \A s \in Occupied(e) : e[s] \in Entry
         /\ Cardinality(Occupied(e)) < c => \E f \in 0..(c - 1) : e[f] = NoEntry
<1>1. DOMAIN e = 0..(c - 1) /\ \A s \in 0..(c - 1) : e[s] \in Entry \union {NoEntry}
  BY DEF Array
<1>2. Occupied(e) \subseteq 0..(c - 1) /\ \A s \in Occupied(e) : e[s] \in Entry
  BY <1>1 DEF Occupied
<1>3. IsFiniteSet(0..(c - 1)) /\ Cardinality(0..(c - 1)) = c
  <2>1. 0 \in Int /\ c - 1 \in Int
    OBVIOUS
  <2> QED
    BY <2>1, FS_Interval
<1>4. IsFiniteSet(Occupied(e))
  BY <1>2, <1>3, FS_Subset
<1>5. Cardinality(Occupied(e)) \in Nat
  BY <1>4, FS_CardinalityType
<1>6. ASSUME Cardinality(Occupied(e)) < c
      PROVE  \E f \in 0..(c - 1) : e[f] = NoEntry
  <2>1. Occupied(e) # 0..(c - 1)
    BY <1>3, <1>5, <1>6
  <2>2. PICK f \in 0..(c - 1) : f \notin Occupied(e)
    BY <1>2, <2>1
  <2> QED
    BY <1>1, <2>2 DEF Occupied
<1> QED
  BY <1>2, <1>4, <1>5, <1>6

\* An empty array has no slot in use, and every entry of it is in place.
LEMMA EmptyArrayFacts ==
  ASSUME NEW c \in Nat
  PROVE  /\ EmptyArray(c) \in Array(c)
         /\ Occupied(EmptyArray(c)) = {}
         /\ Cardinality(Occupied(EmptyArray(c))) = 0
         /\ \A b : InPlace(EmptyArray(c), b)
<1>1. Occupied(EmptyArray(c)) = {}
  BY DEF Occupied, EmptyArray
<1> QED
  BY <1>1, FS_EmptySet DEF EmptyArray, Array, InPlace

\* Filling an empty slot puts one more in use.
LEMMA InsertCounts ==
  ASSUME NEW c \in Nat, NEW e \in Array(c), NEW s \in 0..(c - 1), e[s] = NoEntry,
         NEW x \in Entry
  PROVE  /\ [e EXCEPT ![s] = x] \in Array(c)
         /\ s \notin Occupied(e)
         /\ Occupied([e EXCEPT ![s] = x]) = Occupied(e) \union {s}
         /\ Cardinality(Occupied([e EXCEPT ![s] = x])) = Cardinality(Occupied(e)) + 1
<1>1. [e EXCEPT ![s] = x] \in Array(c)
  BY DEF Array
<1>2. s \notin Occupied(e)
  BY DEF Occupied
<1>3. Occupied([e EXCEPT ![s] = x]) = Occupied(e) \union {s}
  BY EntryIsNotEmpty DEF Occupied, Array
<1> QED
  BY <1>1, <1>2, <1>3, OccupiedSlots, FS_AddElement

\* Two entries that are in place have different keys.
LEMMA OneSlotPerKey ==
  ASSUME NEW c \in 1..MaxCap, NEW e \in Array(c), InPlace(e, c),
         NEW s \in Occupied(e), NEW t \in Occupied(e), e[s].key = e[t].key
  PROVE  s = t
<1>1. c \in Nat
  BY HashTableAssumption DEF HashTableAssumption
<1>2. e[s].key \in Keys
  BY <1>1, OccupiedSlots, EntryIsNotEmpty
<1>3. Lands(e, c, e[s].key, s) /\ Lands(e, c, e[s].key, t)
  BY DEF InPlace
<1> QED
  BY <1>2, <1>3, LandsOnce

\* An entry put where its probing loop stops, into an empty slot, is in place, and
\* the entries that were in place stay so: a slot in use stops no loop for them.
LEMMA InsertInPlace ==
  ASSUME NEW c \in 1..MaxCap, NEW e \in Array(c), InPlace(e, c), NEW x \in Entry,
         NEW s \in 0..(c - 1), e[s] = NoEntry, Lands(e, c, x.key, s)
  PROVE  InPlace([e EXCEPT ![s] = x], c)
<1> DEFINE f == [e EXCEPT ![s] = x]
<1>1. c \in Nat
  BY HashTableAssumption DEF HashTableAssumption
<1>2. Occupied(f) = Occupied(e) \union {s} /\ s \notin Occupied(e)
  BY <1>1, InsertCounts
<1>3. f[s] = x /\ \A r \in 0..(c - 1) : r # s => f[r] = e[r]
  BY DEF Array
<1> HIDE DEF f
<1>4. SUFFICES ASSUME NEW r \in Occupied(f)
               PROVE  Lands(f, c, f[r].key, r)
  BY DEF InPlace, f
<1>5. r \in 0..(c - 1) /\ f[r].key \in Keys /\ f[r] # NoEntry
  BY <1>1, <1>2, <1>3, OccupiedSlots, EntryIsNotEmpty
<1>6. Lands(e, c, f[r].key, r)
  <2>1. CASE r = s
    BY <1>3, <2>1
  <2>2. CASE r # s
    BY <1>2, <1>3, <1>5, <2>2 DEF InPlace
  <2> QED
    BY <2>1, <2>2
<1>7. PICK d \in 0..(c - 1) :
         r = Probe(c, f[r].key, d) /\
         \A j \in 0..(d - 1) : Passes(e, Probe(c, f[r].key, j), f[r].key)
  BY <1>6 DEF Lands
<1>8. \A j \in 0..(d - 1) : j \in 0..(c - 1)
  BY <1>1
<1>9. \A j \in 0..(d - 1) : Probe(c, f[r].key, j) \in 0..(c - 1)
                            /\ Probe(c, f[r].key, j) # s
  BY <1>5, <1>7, <1>8, ProbeInRange DEF Passes
<1>10. \A j \in 0..(d - 1) : Passes(f, Probe(c, f[r].key, j), f[r].key)
  BY <1>3, <1>7, <1>9 DEF Passes
<1> QED
  BY <1>7, <1>10 DEF Lands, Passes

\* A new value for an entry: the same slots are in use, for the same keys.
LEMMA UpdateInPlace ==
  ASSUME NEW c \in 1..MaxCap, NEW e \in Array(c), InPlace(e, c), NEW v \in Values,
         NEW s \in Occupied(e), NEW f,
         f = [r \in 0..(c - 1) |-> IF r = s THEN [key |-> e[s].key, value |-> v] ELSE e[r]]
  PROVE  /\ f \in Array(c)
         /\ Occupied(f) = Occupied(e)
         /\ InPlace(f, c)
<1>1. c \in Nat
  BY HashTableAssumption DEF HashTableAssumption
<1>2. s \in 0..(c - 1) /\ e[s] \in Entry /\ e[s] # NoEntry
  BY <1>1, OccupiedSlots DEF Occupied
<1>3. f[s] = [key |-> e[s].key, value |-> v]
  BY <1>2
<1>4. \A r \in 0..(c - 1) : r # s => f[r] = e[r]
  OBVIOUS
<1>5. f[s] \in Entry
  BY <1>2, <1>3 DEF Entry
<1>6. f \in Array(c)
  <2>1. \A r \in 0..(c - 1) : f[r] \in Entry \union {NoEntry}
    BY <1>4, <1>5 DEF Array
  <2>2. f = [r \in 0..(c - 1) |-> f[r]]
    OBVIOUS
  <2> QED
    BY <2>1, <2>2 DEF Array
<1>7. DOMAIN e = 0..(c - 1) /\ DOMAIN f = 0..(c - 1)
  BY <1>6 DEF Array
<1>8. Occupied(f) = Occupied(e)
  BY <1>2, <1>4, <1>5, <1>7, EntryIsNotEmpty DEF Occupied
<1>9. \A r \in 0..(c - 1), k \in Keys : Passes(f, r, k) <=> Passes(e, r, k)
  <2> SUFFICES ASSUME NEW r \in 0..(c - 1), NEW k \in Keys
               PROVE  Passes(f, r, k) <=> Passes(e, r, k)
    OBVIOUS
  <2>1. CASE r = s
    BY <1>2, <1>3, <1>5, <2>1, EntryIsNotEmpty DEF Passes
  <2>2. CASE r # s
    BY <1>4, <2>2 DEF Passes
  <2> QED
    BY <2>1, <2>2
<1>10. InPlace(f, c)
  <2> SUFFICES ASSUME NEW r \in Occupied(f)
               PROVE  Lands(f, c, f[r].key, r)
    BY DEF InPlace
  <2>1. r \in 0..(c - 1) /\ f[r].key = e[r].key /\ f[r].key \in Keys
    <3>1. r \in 0..(c - 1)
      BY <1>7 DEF Occupied
    <3>2. f[r].key = e[r].key
      BY <1>3, <1>4, <3>1
    <3>3. f[r].key \in Keys
      BY <1>1, <1>6, OccupiedSlots, EntryIsNotEmpty
    <3> QED
      BY <3>1, <3>2, <3>3
  <2>2. Lands(e, c, f[r].key, r)
    BY <1>8, <2>1 DEF InPlace
  <2>3. PICK d \in 0..(c - 1) :
           r = Probe(c, f[r].key, d) /\
           \A j \in 0..(d - 1) : Passes(e, Probe(c, f[r].key, j), f[r].key)
    BY <2>2 DEF Lands
  <2>4. \A j \in 0..(d - 1) : Probe(c, f[r].key, j) \in 0..(c - 1)
    <3>1. \A j \in 0..(d - 1) : j \in 0..(c - 1)
      BY <1>1
    <3> QED
      BY <2>1, <3>1, ProbeInRange
  <2>5. \A j \in 0..(d - 1) : Passes(f, Probe(c, f[r].key, j), f[r].key)
    BY <1>9, <2>1, <2>3, <2>4
  <2>6. ~Passes(f, r, f[r].key)
    BY DEF Passes
  <2> QED
    BY <2>3, <2>5, <2>6 DEF Lands
<1> QED
  BY <1>6, <1>8, <1>10
-----------------------------------------------------------------------------
(***************************************************************************)
(* The invariant.                                                          *)
(***************************************************************************)

LEMMA InitTable ==
  Init => TableInv
<1> SUFFICES ASSUME Init PROVE TableInv
  OBVIOUS
<1>1. entries = EmptyArray(0) /\ capacity = 0 /\ length = 0 /\ copies = 0 /\ pc = "none"
      /\ arg = NoEntry /\ index = 0 /\ seen = {}
      /\ ret = [op |-> "none", key |-> None, out |-> None]
  BY DEF Init
<1>2. TypeOK
  BY <1>1, EmptyArrayFacts, HashTableAssumption
     DEF TypeOK, NoEntry, PCs, Results, HashTableAssumption
<1>3. AtMostHalf
  BY <1>1 DEF AtMostHalf
<1>4. CountsAgree
  BY <1>1, EmptyArrayFacts DEF CountsAgree
<1>5. Reachable /\ MovedSoFar /\ SeenSoFar
  BY <1>1, EmptyArrayFacts DEF Reachable, MovedSoFar, SeenSoFar
<1> QED
  BY <1>2, <1>3, <1>4, <1>5 DEF TableInv

\* What the invariant says of the capacity, in the form the lemmas above ask for.
LEMMA CapacityFacts ==
  ASSUME TableInv
  PROVE  /\ capacity \in Nat /\ length \in Nat /\ MaxCap \in Nat
         /\ pc # "none" => capacity \in 1..MaxCap
         /\ pc = "move" => 2 * capacity \in 1..MaxCap
         /\ pc = "none" => length = 0
BY HashTableAssumption DEF TableInv, TypeOK, AtMostHalf, HashTableAssumption

\* An action that leaves the table and the array being filled alone, and does not end
\* in a loop, disturbs nothing but what its caller sees.
LEMMA TableUntouched ==
  ASSUME TableInv, TypeOK', AtMostHalf',
         UNCHANGED <<entries, capacity, length, copies>>, pc' \notin {"move", "walk"}
  PROVE  TableInv'
<1>1. CountsAgree'
  BY DEF TableInv, CountsAgree, Occupied
<1>2. Reachable'
  BY DEF TableInv, Reachable, InPlace, Occupied, Lands, Passes
<1>3. MovedSoFar' /\ SeenSoFar'
  BY DEF MovedSoFar, SeenSoFar
<1> QED
  BY <1>1, <1>2, <1>3 DEF TableInv

\* One round of the loop of ht_expand that has an entry to move: the slot where its
\* probing loop stops is empty, since no other entry has its key.
LEMMA MoveFindsEmptySlot ==
  ASSUME TableInv, pc = "move", index < capacity, entries[index] # NoEntry,
         NEW s \in 0..(2 * capacity - 1),
         Lands(new_entries, 2 * capacity, entries[index].key, s)
  PROVE  new_entries[s] = NoEntry
<1>1. capacity \in 1..MaxCap /\ 2 * capacity \in Nat
  BY CapacityFacts
<1>2. entries \in Array(capacity) /\ new_entries \in Array(2 * capacity) /\ index \in 0..capacity
  BY DEF TableInv, TypeOK
<1>3. SUFFICES ASSUME new_entries[s] # NoEntry PROVE FALSE
  OBVIOUS
<1>4. new_entries[s].key = entries[index].key
  BY <1>3 DEF Lands, Passes
<1>5. s \in Occupied(new_entries)
  BY <1>2, <1>3 DEF Occupied, Array
<1>6. PICK r \in Occupied(entries) : r < index /\ entries[r] = new_entries[s]
  BY <1>5 DEF TableInv, MovedSoFar
<1>7. index \in Occupied(entries)
  BY <1>1, <1>2 DEF Occupied, Array
<1>8. InPlace(entries, capacity)
  BY DEF TableInv, Reachable
<1>9. r = index
  BY <1>1, <1>2, <1>4, <1>6, <1>7, <1>8, OneSlotPerKey
<1> QED
  BY <1>1, <1>2, <1>6, <1>9

LEMMA QuietStep ==
  ASSUME TableInv,
         \/ \E k \in Keys : Get(k)
         \/ \E k \in Keys, v \in Values : Set(k, v)
         \/ Length \/ ExpandFails \/ InsertFails \/ IterEnd
  PROVE  TableInv'
<1>1. TypeOK /\ AtMostHalf /\ capacity \in Nat /\ length \in Nat
  BY CapacityFacts DEF TableInv
<1>2. /\ entries' = entries /\ capacity' = capacity /\ length' = length /\ copies' = copies
      /\ new_entries' = new_entries
      /\ pc # "none" /\ pc' \in {"idle", "expand", "insert"}
      /\ pc' = "insert" => length < capacity \div 2
      /\ index' = 0 /\ seen' \in SUBSET Keys
  BY <1>1 DEF Get, Set, Length, ExpandFails, InsertFails, IterEnd, TypeOK, AtMostHalf
<1>3. AtMostHalf'
  BY <1>1, <1>2 DEF AtMostHalf
<1>4. arg' \in [key : Keys \union {None}, value : Values \union {None}]
      /\ (pc' \in {"expand", "insert"} => arg' \in Entry)
  BY <1>1, <1>2 DEF Get, Set, Length, ExpandFails, InsertFails, IterEnd, TypeOK, Entry
<1>5. ret' \in [op : Results, key : Keys \union {None},
                out : Keys \union Values \union {None} \union Nat]
  <2>1. CASE \E k \in Keys : Get(k)
    <3>1. PICK k \in Keys, s \in DOMAIN entries : Returns("get", k, entries[s].value)
      BY <2>1 DEF Get
    <3>2. entries[s].value \in Values \union {None}
      BY <1>1 DEF TypeOK, Array, Entry, NoEntry
    <3> QED
      BY <3>1, <3>2 DEF Returns, Results
  <2>2. CASE \E k \in Keys, v \in Values : Set(k, v)
    BY <1>1, <2>2 DEF Set, TypeOK
  <2>3. CASE Length
    BY <1>1, <2>3 DEF Length, Returns, Results
  <2>4. CASE ExpandFails \/ InsertFails
    BY <1>1, <2>4 DEF ExpandFails, InsertFails, Returns, Results, TypeOK, Entry
  <2>5. CASE IterEnd
    BY <2>5 DEF IterEnd, Returns, Results
  <2> QED
    BY <2>1, <2>2, <2>3, <2>4, <2>5
<1>6. TypeOK'
  BY <1>1, <1>2, <1>4, <1>5 DEF TypeOK, PCs
<1> QED
  BY <1>2, <1>3, <1>6, TableUntouched

LEMMA CreateStep ==
  ASSUME 0 \notin InitCaps, TableInv, NEW c \in InitCaps, Create(c)
  PROVE  TableInv'
<1>1. TypeOK /\ AtMostHalf /\ CountsAgree /\ pc = "none"
  BY DEF TableInv, Create
<1>2. c \in 1..MaxCap /\ c \in Nat
  BY HashTableAssumption DEF HashTableAssumption
<1>3. /\ entries' = EmptyArray(c) /\ capacity' = c /\ length' = 0 /\ copies' = 0
      /\ pc' = "idle" /\ index' = 0
  BY <1>1, CapacityFacts DEF Create, AtMostHalf, CountsAgree
<1>4. ret' \in [op : Results, key : Keys \union {None},
                out : Keys \union Values \union {None} \union Nat]
  BY DEF Create, Returns, Results
<1>5. TypeOK'
  BY <1>1, <1>2, <1>3, <1>4, EmptyArrayFacts DEF Create, TypeOK, PCs
<1>6. AtMostHalf'
  BY <1>2, <1>3 DEF AtMostHalf
<1>7. CountsAgree'
  BY <1>2, <1>3, EmptyArrayFacts DEF CountsAgree
<1>8. Reachable' /\ MovedSoFar' /\ SeenSoFar'
  BY <1>2, <1>3, EmptyArrayFacts DEF Reachable, MovedSoFar, SeenSoFar
<1> QED
  BY <1>5, <1>6, <1>7, <1>8 DEF TableInv

LEMMA CreateFailsStep ==
  ASSUME TableInv, CreateFails
  PROVE  TableInv'
<1>1. TypeOK /\ AtMostHalf
  BY DEF TableInv
<1>2. /\ entries' = entries /\ capacity' = capacity /\ length' = length /\ copies' = copies
      /\ new_entries' = new_entries /\ pc' = "none" /\ pc = "none" /\ arg' = arg
      /\ index' = index /\ seen' = seen
      /\ ret' = [op |-> "no_table", key |-> None, out |-> None]
  BY DEF CreateFails, Returns
<1>3. TypeOK'
  BY <1>1, <1>2 DEF TypeOK, PCs, Results
<1>4. AtMostHalf'
  BY <1>1, <1>2 DEF AtMostHalf
<1> QED
  BY <1>2, <1>3, <1>4, TableUntouched

LEMMA DestroyStep ==
  ASSUME TableInv, Destroy
  PROVE  TableInv'
<1>1. TypeOK /\ AtMostHalf /\ CountsAgree /\ pc = "idle" /\ length \in Nat
  BY CapacityFacts DEF TableInv, Destroy
<1>2. /\ entries' = EmptyArray(0) /\ capacity' = 0 /\ length' = 0 /\ copies' = 0
      /\ pc' = "none" /\ index' = 0
  BY <1>1 DEF Destroy, AtMostHalf, CountsAgree
<1>3. ret' \in [op : Results, key : Keys \union {None},
                out : Keys \union Values \union {None} \union Nat]
  BY DEF Destroy, Returns, Results
<1>4. TypeOK'
  BY <1>1, <1>2, <1>3, EmptyArrayFacts, CapacityFacts DEF Destroy, TypeOK, PCs
<1>5. AtMostHalf'
  BY <1>2 DEF AtMostHalf
<1>6. CountsAgree'
  BY <1>2, EmptyArrayFacts DEF CountsAgree
<1>7. Reachable' /\ MovedSoFar' /\ SeenSoFar'
  BY <1>2, EmptyArrayFacts DEF Reachable, MovedSoFar, SeenSoFar
<1> QED
  BY <1>4, <1>5, <1>6, <1>7 DEF TableInv

LEMMA ExpandStep ==
  ASSUME TableInv, Expand
  PROVE  TableInv'
<1>1. TypeOK /\ AtMostHalf /\ CountsAgree /\ Reachable /\ pc = "expand" /\ 2 * capacity =< MaxCap
  BY DEF TableInv, Expand
<1>2. capacity \in Nat /\ 2 * capacity \in Nat /\ length \in Nat
  BY CapacityFacts
<1>3. /\ entries' = entries /\ capacity' = capacity /\ length' = length /\ copies' = copies
      /\ new_entries' = EmptyArray(2 * capacity) /\ index' = 0 /\ pc' = "move"
      /\ arg' = arg /\ seen' = seen /\ ret' = ret
  BY DEF Expand
<1>4. EmptyArray(2 * capacity) \in Array(2 * capacity)
  BY <1>2, EmptyArrayFacts
<1>5. TypeOK'
  BY <1>1, <1>2, <1>3, <1>4 DEF TypeOK, PCs
<1>6. AtMostHalf'
  BY <1>1, <1>3 DEF AtMostHalf
<1>7. CountsAgree'
  BY <1>1, <1>3 DEF CountsAgree
<1>8. Reachable'
  <2>1. InPlace(entries, capacity) /\ InPlace(EmptyArray(2 * capacity), 2 * capacity)
    BY <1>1, <1>2, EmptyArrayFacts DEF Reachable
  <2> QED
    BY <1>3, <2>1 DEF Reachable
<1>9. MovedSoFar'
  <2>1. Occupied(new_entries') = {} /\ Cardinality(Occupied(new_entries')) = 0
    BY <1>2, <1>3, EmptyArrayFacts
  <2>2. \A r \in Occupied(entries) : r \in Nat
    BY <1>1, <1>2, OccupiedSlots DEF TypeOK
  <2>3. {r \in Occupied(entries) : r < 0} = {}
    BY <2>2
  <2>4. Cardinality({r \in Occupied(entries) : r < 0}) = 0
    BY <2>3, FS_EmptySet
  <2> QED
    BY <1>3, <2>1, <2>3, <2>4 DEF MovedSoFar
<1>10. SeenSoFar'
  BY <1>3 DEF SeenSoFar
<1> QED
  BY <1>5, <1>6, <1>7, <1>8, <1>9, <1>10 DEF TableInv

\* The slots behind the loop, before and after a round.
LEMMA OneMoreSlot ==
  ASSUME NEW c \in Nat, NEW e \in Array(c), NEW i \in 0..(c - 1)
  PROVE  {r \in Occupied(e) : r < i + 1} =
           {r \in Occupied(e) : r < i} \union (IF e[i] = NoEntry THEN {} ELSE {i})
<1>1. \A r \in Occupied(e) : r \in 0..(c - 1)
  BY OccupiedSlots
<1>2. i \in Occupied(e) <=> e[i] # NoEntry
  BY DEF Occupied, Array
<1> QED
  BY <1>1, <1>2

LEMMA MoveStep ==
  ASSUME TableInv, Move
  PROVE  TableInv'
<1>1. /\ TypeOK /\ AtMostHalf /\ CountsAgree /\ Reachable /\ MovedSoFar
      /\ pc = "move" /\ index < capacity
  BY DEF TableInv, Move
<1>2. /\ capacity \in Nat /\ 2 * capacity \in 1..MaxCap /\ 2 * capacity \in Nat
      /\ capacity \in 1..MaxCap /\ index \in 0..(capacity - 1)
  BY <1>1, CapacityFacts DEF TypeOK
<1>3. /\ entries \in Array(capacity) /\ new_entries \in Array(2 * capacity)
      /\ InPlace(entries, capacity) /\ InPlace(new_entries, 2 * capacity)
  BY <1>1 DEF TypeOK, Reachable
<1>4. /\ entries' = entries /\ capacity' = capacity /\ length' = length /\ copies' = copies
      /\ pc' = pc /\ arg' = arg /\ seen' = seen /\ ret' = ret /\ index' = index + 1
  BY DEF Move
<1> DEFINE Behind == {r \in Occupied(entries) : r < index}
<1>5. {r \in Occupied(entries) : r < index + 1} =
         Behind \union (IF entries[index] = NoEntry THEN {} ELSE {index})
  BY <1>2, <1>3, OneMoreSlot
<1>6. IsFiniteSet(Behind) /\ index \notin Behind /\ Behind \subseteq Occupied(entries)
  BY <1>2, <1>3, OccupiedSlots, FS_Subset
<1>7. /\ \A s \in Occupied(new_entries) : \E r \in Behind : entries[r] = new_entries[s]
      /\ \A r \in Behind : \E s \in Occupied(new_entries) : new_entries[s] = entries[r]
      /\ Cardinality(Occupied(new_entries)) = Cardinality(Behind)
  BY <1>1 DEF MovedSoFar
<1> HIDE DEF Behind
<1>8. /\ new_entries' \in Array(2 * capacity) /\ InPlace(new_entries', 2 * capacity)
      /\ MovedSoFar'
  <2>1. CASE entries[index] = NoEntry
    <3>1. new_entries' = new_entries
      BY <2>1 DEF Move
    <3>2. {r \in Occupied(entries) : r < index + 1} = Behind
      BY <1>5, <2>1
    <3>3. \A r \in Occupied(entries) : r < index + 1 <=> r \in Behind
      BY <3>2
    <3> QED
      BY <1>3, <1>4, <1>6, <1>7, <3>1, <3>2, <3>3 DEF MovedSoFar
  <2>2. CASE entries[index] # NoEntry
    <3> DEFINE x == entries[index]
    <3>1. PICK s \in DOMAIN new_entries :
             /\ Lands(new_entries, 2 * capacity, x.key, s)
             /\ new_entries' = [new_entries EXCEPT ![s] = x]
      BY <2>2 DEF Move
    <3>2. index \in Occupied(entries) /\ x \in Entry
      BY <1>2, <1>3, <2>2 DEF Occupied, Array
    <3>3. s \in 0..(2 * capacity - 1)
      BY <1>3 DEF Array
    <3>4. new_entries[s] = NoEntry
      BY <1>1, <2>2, <3>1, <3>3, MoveFindsEmptySlot
    <3> HIDE DEF x
    <3>5. /\ new_entries' \in Array(2 * capacity)
          /\ s \notin Occupied(new_entries)
          /\ Occupied(new_entries') = Occupied(new_entries) \union {s}
          /\ Cardinality(Occupied(new_entries')) = Cardinality(Occupied(new_entries)) + 1
      <4> DEFINE d == 2 * capacity
      <4>1. d \in Nat /\ new_entries \in Array(d) /\ s \in 0..(d - 1)
        BY <1>2, <1>3, <3>3
      <4> HIDE DEF d
      <4>2. /\ [new_entries EXCEPT ![s] = x] \in Array(d)
            /\ s \notin Occupied(new_entries)
            /\ Occupied([new_entries EXCEPT ![s] = x]) = Occupied(new_entries) \union {s}
            /\ Cardinality(Occupied([new_entries EXCEPT ![s] = x])) =
                 Cardinality(Occupied(new_entries)) + 1
        BY <3>2, <3>4, <4>1, InsertCounts
      <4> QED
        BY <3>1, <4>2 DEF d
    <3>6. InPlace(new_entries', 2 * capacity)
      BY <1>2, <1>3, <3>1, <3>2, <3>3, <3>4, InsertInPlace
    <3>7. new_entries'[s] = x /\ \A t \in Occupied(new_entries) : new_entries'[t] = new_entries[t]
      BY <1>3, <3>1, <3>3, <3>5 DEF Array
    <3>8. {r \in Occupied(entries) : r < index + 1} = Behind \union {index}
      BY <1>5, <2>2
    <3>9. \A r \in Occupied(entries) : r < index + 1 <=> r \in Behind \union {index}
      BY <3>8
    <3>10. Cardinality(Behind \union {index}) = Cardinality(Behind) + 1
      BY <1>6, FS_AddElement
    <3>11. \A t \in Occupied(new_entries') :
              \E r \in Occupied(entries) : r < index + 1 /\ entries[r] = new_entries'[t]
      <4> SUFFICES ASSUME NEW t \in Occupied(new_entries')
                   PROVE  \E r \in Behind \union {index} : entries[r] = new_entries'[t]
        BY <1>6, <3>2, <3>9
      <4>1. CASE t = s
        BY <3>7, <4>1 DEF x
      <4>2. CASE t \in Occupied(new_entries)
        BY <1>7, <3>7, <4>2
      <4> QED
        BY <3>5, <4>1, <4>2
    <3>12. \A r \in Occupied(entries) :
              r < index + 1 => \E t \in Occupied(new_entries') : new_entries'[t] = entries[r]
      <4> SUFFICES ASSUME NEW r \in Behind \union {index}
                   PROVE  \E t \in Occupied(new_entries') : new_entries'[t] = entries[r]
        BY <3>9
      <4>1. CASE r = index
        BY <3>5, <3>7, <4>1 DEF x
      <4>2. CASE r \in Behind
        BY <1>7, <3>5, <3>7, <4>2
      <4> QED
        BY <4>1, <4>2
    <3>13. Cardinality(Occupied(new_entries')) =
              Cardinality({r \in Occupied(entries) : r < index + 1})
      BY <1>7, <3>5, <3>8, <3>10
    <3>14. MovedSoFar'
      BY <1>4, <3>11, <3>12, <3>13 DEF MovedSoFar
    <3> QED
      BY <3>5, <3>6, <3>14
  <2> QED
    BY <2>1, <2>2
<1>9. TypeOK'
  BY <1>1, <1>2, <1>4, <1>8 DEF TypeOK, PCs
<1>10. AtMostHalf'
  BY <1>1, <1>4 DEF AtMostHalf
<1>11. CountsAgree'
  BY <1>1, <1>4 DEF CountsAgree
<1>12. Reachable'
  BY <1>3, <1>4, <1>8 DEF Reachable
<1>13. SeenSoFar'
  BY <1>1, <1>4 DEF SeenSoFar
<1> QED
  BY <1>8, <1>9, <1>10, <1>11, <1>12, <1>13 DEF TableInv

\* The new array takes the place of the old one: it has as many entries, and is at
\* most a quarter full.
LEMMA PublishStep ==
  ASSUME TableInv, Publish
  PROVE  TableInv'
<1>1. /\ TypeOK /\ AtMostHalf /\ CountsAgree /\ Reachable /\ MovedSoFar
      /\ pc = "move" /\ index = capacity
  BY DEF TableInv, Publish
<1>2. /\ capacity \in Nat /\ 2 * capacity \in 1..MaxCap /\ 2 * capacity \in Nat
      /\ capacity \in 1..MaxCap /\ length \in Nat
  BY <1>1, CapacityFacts
<1>3. /\ entries' = new_entries /\ capacity' = 2 * capacity /\ length' = length
      /\ copies' = copies /\ pc' = "insert" /\ arg' = arg /\ seen' = seen /\ ret' = ret
      /\ index' = 0 /\ new_entries' = EmptyArray(0)
  BY DEF Publish
<1>4. {r \in Occupied(entries) : r < index} = Occupied(entries)
  BY <1>1, <1>2, OccupiedSlots DEF TypeOK
<1>5. Cardinality(Occupied(new_entries)) = length
  BY <1>1, <1>4 DEF MovedSoFar, CountsAgree
<1>6. TypeOK'
  BY <1>1, <1>2, <1>3 DEF TypeOK, PCs
<1>7. AtMostHalf'
  BY <1>1, <1>2, <1>3 DEF AtMostHalf
<1>8. CountsAgree'
  BY <1>1, <1>3, <1>5 DEF CountsAgree
<1>9. Reachable'
  BY <1>1, <1>3 DEF Reachable
<1>10. MovedSoFar' /\ SeenSoFar'
  BY <1>3 DEF MovedSoFar, SeenSoFar
<1> QED
  BY <1>6, <1>7, <1>8, <1>9, <1>10 DEF TableInv

LEMMA UpdateStep ==
  ASSUME TableInv, Update
  PROVE  TableInv'
<1>1. TypeOK /\ AtMostHalf /\ CountsAgree /\ Reachable /\ pc = "insert" /\ arg \in Entry
  BY DEF TableInv, Update, TypeOK
<1>2. capacity \in 1..MaxCap /\ capacity \in Nat
  BY <1>1, CapacityFacts
<1>3. PICK s \in DOMAIN entries :
         entries[s] # NoEntry /\ entries' = [entries EXCEPT ![s].value = arg.value]
  BY DEF Update
<1>4. /\ capacity' = capacity /\ length' = length /\ copies' = copies /\ pc' = "idle"
      /\ arg' = arg /\ new_entries' = new_entries /\ index' = index /\ seen' = seen
      /\ ret' = [op |-> "set", key |-> arg.key, out |-> arg.key]
  BY DEF Update, Returns
<1>5. entries' \in Array(capacity) /\ Occupied(entries') = Occupied(entries)
      /\ InPlace(entries', capacity)
  <2>1. s \in Occupied(entries) /\ arg.value \in Values
    BY <1>1, <1>3, EntryIsNotEmpty DEF Occupied
  <2>2. entries \in Array(capacity) /\ InPlace(entries, capacity)
    BY <1>1 DEF TypeOK, Reachable
  <2>3. entries' = [r \in 0..(capacity - 1) |->
           IF r = s THEN [key |-> entries[s].key, value |-> arg.value] ELSE entries[r]]
    <3>1. entries \in [0..(capacity - 1) -> Entry \union {NoEntry}] /\ entries[s] \in Entry
      BY <1>2, <2>1, <2>2, OccupiedSlots DEF Array
    <3>2. [entries[s] EXCEPT !.value = arg.value] = [key |-> entries[s].key, value |-> arg.value]
      BY <3>1 DEF Entry
    <3> QED
      BY <1>3, <3>1, <3>2
  <2> QED
    BY <1>2, <2>1, <2>2, <2>3, UpdateInPlace
<1>6. TypeOK'
  BY <1>1, <1>4, <1>5 DEF TypeOK, PCs, Results, Entry
<1>7. AtMostHalf'
  BY <1>1, <1>4 DEF AtMostHalf
<1>8. CountsAgree'
  BY <1>1, <1>4, <1>5 DEF CountsAgree
<1>9. Reachable' /\ MovedSoFar' /\ SeenSoFar'
  BY <1>4, <1>5 DEF Reachable, MovedSoFar, SeenSoFar
<1> QED
  BY <1>6, <1>7, <1>8, <1>9 DEF TableInv

LEMMA InsertStep ==
  ASSUME TableInv, Insert
  PROVE  TableInv'
<1>1. TypeOK /\ AtMostHalf /\ CountsAgree /\ Reachable /\ pc = "insert" /\ arg \in Entry
  BY DEF TableInv, Insert, TypeOK
<1>2. capacity \in 1..MaxCap /\ capacity \in Nat /\ length \in Nat
  BY <1>1, CapacityFacts
<1>3. PICK s \in DOMAIN entries :
         /\ Lands(entries, capacity, arg.key, s)
         /\ entries[s] = NoEntry
         /\ entries' = [entries EXCEPT ![s] = arg]
  BY DEF Insert
<1>4. /\ capacity' = capacity /\ length' = length + 1 /\ copies' = copies + 1 /\ pc' = "idle"
      /\ arg' = arg /\ new_entries' = new_entries /\ index' = index /\ seen' = seen
      /\ ret' = [op |-> "set", key |-> arg.key, out |-> arg.key]
  BY DEF Insert, Returns
<1>5. /\ entries' \in Array(capacity)
      /\ Cardinality(Occupied(entries')) = Cardinality(Occupied(entries)) + 1
      /\ InPlace(entries', capacity)
  <2>1. entries \in Array(capacity) /\ InPlace(entries, capacity) /\ s \in 0..(capacity - 1)
    BY <1>1 DEF TypeOK, Reachable, Array
  <2>2. capacity \in Nat /\ arg \in Entry /\ entries[s] = NoEntry
    BY <1>1, <1>2, <1>3
  <2>3. /\ [entries EXCEPT ![s] = arg] \in Array(capacity)
        /\ Cardinality(Occupied([entries EXCEPT ![s] = arg])) =
             Cardinality(Occupied(entries)) + 1
    BY <2>1, <2>2, InsertCounts
  <2>4. InPlace([entries EXCEPT ![s] = arg], capacity)
    BY <1>2, <1>3, <2>1, <2>2, InsertInPlace
  <2> QED
    BY <1>3, <2>3, <2>4
<1>6. TypeOK'
  BY <1>1, <1>2, <1>4, <1>5 DEF TypeOK, PCs, Results, Entry, CountsAgree
<1>7. AtMostHalf'
  BY <1>1, <1>2, <1>4 DEF AtMostHalf
<1>8. CountsAgree'
  BY <1>1, <1>4, <1>5 DEF CountsAgree
<1>9. Reachable' /\ MovedSoFar' /\ SeenSoFar'
  BY <1>4, <1>5 DEF Reachable, MovedSoFar, SeenSoFar
<1> QED
  BY <1>6, <1>7, <1>8, <1>9 DEF TableInv

LEMMA IteratorStep ==
  ASSUME TableInv, Iterator
  PROVE  TableInv'
<1>1. TypeOK /\ AtMostHalf /\ CountsAgree /\ Reachable /\ pc = "idle" /\ capacity \in Nat
  BY CapacityFacts DEF TableInv, Iterator
<1>2. /\ entries' = entries /\ capacity' = capacity /\ length' = length /\ copies' = copies
      /\ pc' = "walk" /\ arg' = arg /\ new_entries' = new_entries /\ index' = 0
      /\ seen' = {} /\ ret' = ret
  BY DEF Iterator
<1>3. {r \in Occupied(entries) : r < 0} = {}
  <2>1. \A r \in Occupied(entries) : r \in 0..(capacity - 1)
    BY <1>1, OccupiedSlots DEF TypeOK
  <2> QED
    BY <1>1, <2>1
<1>4. TypeOK'
  BY <1>1, <1>2 DEF TypeOK, PCs
<1>5. AtMostHalf' /\ CountsAgree' /\ Reachable' /\ MovedSoFar'
  BY <1>1, <1>2 DEF AtMostHalf, CountsAgree, Reachable, MovedSoFar
<1>6. SeenSoFar'
  BY <1>2, <1>3 DEF SeenSoFar
<1> QED
  BY <1>4, <1>5, <1>6 DEF TableInv

LEMMA IterNextStep ==
  ASSUME TableInv, IterNext
  PROVE  TableInv'
<1>1. TypeOK /\ AtMostHalf /\ CountsAgree /\ Reachable /\ SeenSoFar /\ pc = "walk"
      /\ capacity \in Nat /\ index \in 0..capacity /\ entries \in Array(capacity)
  BY CapacityFacts DEF TableInv, IterNext, TypeOK
<1>2. PICK s \in index..(capacity - 1) :
         /\ entries[s] # NoEntry
         /\ \A r \in index..(s - 1) : entries[r] = NoEntry
         /\ index' = s + 1
         /\ seen' = seen \union {entries[s].key}
         /\ ret' = [op |-> "next", key |-> entries[s].key, out |-> entries[s].value]
  BY DEF IterNext, Returns
<1>3. /\ entries' = entries /\ capacity' = capacity /\ length' = length /\ copies' = copies
      /\ pc' = pc /\ arg' = arg /\ new_entries' = new_entries
  BY DEF IterNext
<1>4. s \in 0..(capacity - 1) /\ s \in Occupied(entries)
      /\ entries[s].key \in Keys /\ entries[s].value \in Values
  BY <1>1, <1>2, OccupiedSlots, EntryIsNotEmpty DEF Occupied, Array
<1>5. {r \in Occupied(entries) : r < s + 1} = {r \in Occupied(entries) : r < index} \union {s}
  <2>1. \A r \in Occupied(entries) : r \in 0..(capacity - 1) /\ entries[r] # NoEntry
    BY <1>1, OccupiedSlots DEF Occupied
  <2>2. \A r \in Occupied(entries) : r < s + 1 <=> r < index \/ r = s
    BY <1>1, <1>2, <1>4, <2>1
  <2> QED
    BY <1>4, <2>2
<1>6. SeenSoFar'
  <2>1. seen = {entries[r].key : r \in {r \in Occupied(entries) : r < index}}
    BY <1>1 DEF SeenSoFar
  <2>2. seen' = {entries[r].key : r \in {r \in Occupied(entries) : r < s + 1}}
    BY <1>2, <1>5, <2>1
  <2> QED
    BY <1>2, <1>3, <2>2 DEF SeenSoFar
<1>7. TypeOK'
  BY <1>1, <1>2, <1>3, <1>4 DEF TypeOK, PCs, Results
<1>8. AtMostHalf' /\ CountsAgree' /\ Reachable' /\ MovedSoFar'
  BY <1>1, <1>3 DEF AtMostHalf, CountsAgree, Reachable, MovedSoFar
<1> QED
  BY <1>6, <1>7, <1>8 DEF TableInv

LEMMA StutterStep ==
  ASSUME TableInv, UNCHANGED vars
  PROVE  TableInv'
BY DEF TableInv, vars, TypeOK, AtMostHalf, CountsAgree, Reachable, MovedSoFar, SeenSoFar

\* The invariant holds of every table that is not created with capacity 0.
THEOREM TableInvariant ==
  ASSUME 0 \notin InitCaps
  PROVE  Spec => []TableInv
<1>1. TableInv /\ [Next]_vars => TableInv'
  <2> SUFFICES ASSUME TableInv, [Next]_vars PROVE TableInv'
    OBVIOUS
  <2>1. CASE \E c \in InitCaps : Create(c)
    BY <2>1, CreateStep
  <2>2. CASE \/ \E k \in Keys : Get(k)
             \/ \E k \in Keys, v \in Values : Set(k, v)
             \/ Length \/ ExpandFails \/ InsertFails \/ IterEnd
    BY <2>2, QuietStep
  <2>3. CASE Destroy
    BY <2>3, DestroyStep
  <2>4. CASE Expand
    BY <2>4, ExpandStep
  <2>5. CASE Move
    BY <2>5, MoveStep
  <2>6. CASE Publish
    BY <2>6, PublishStep
  <2>7. CASE Update
    BY <2>7, UpdateStep
  <2>8. CASE Insert
    BY <2>8, InsertStep
  <2>9. CASE Iterator
    BY <2>9, IteratorStep
  <2>10. CASE IterNext
    BY <2>10, IterNextStep
  <2>11. CASE CreateFails
    BY <2>11, CreateFailsStep
  <2>12. CASE UNCHANGED vars
    BY <2>12, StutterStep
  <2> QED
    BY <2>1, <2>2, <2>3, <2>4, <2>5, <2>6, <2>7, <2>8, <2>9, <2>10, <2>11, <2>12 DEF Next
<1> QED
  BY <1>1, InitTable, PTL DEF Spec

\* Type correctness.
THEOREM TypeCorrect ==
  ASSUME 0 \notin InitCaps
  PROVE  Spec => []TypeOK
<1>1. TableInv => TypeOK
  BY DEF TableInv
<1> QED
  BY <1>1, TableInvariant, PTL

\* No entry is ever lost behind an empty slot, nor stored twice, in the table or in
\* the array that replaces it.
THEOREM EntriesStayReachable ==
  ASSUME 0 \notin InitCaps
  PROVE  Spec => []Reachable
<1>1. TableInv => Reachable
  BY DEF TableInv
<1> QED
  BY <1>1, TableInvariant, PTL

\* The length is the number of entries, and the number of copies of keys in memory.
THEOREM LengthCountsEntries ==
  ASSUME 0 \notin InitCaps
  PROVE  Spec => []CountsAgree
<1>1. TableInv => CountsAgree
  BY DEF TableInv
<1> QED
  BY <1>1, TableInvariant, PTL

\* The probing loops of ht_get and ht_set_entry always have an empty slot to stop at.
THEOREM ProbingStops ==
  ASSUME 0 \notin InitCaps
  PROVE  Spec => []RoomToStop
<1>1. TableInv => RoomToStop
  <2> SUFFICES ASSUME TableInv PROVE RoomToStop
    OBVIOUS
  <2>1. TypeOK /\ AtMostHalf /\ CountsAgree /\ MovedSoFar
        /\ capacity \in Nat /\ length \in Nat
    BY CapacityFacts DEF TableInv
  <2>2. ASSUME pc # "none" PROVE \E s \in DOMAIN entries : entries[s] = NoEntry
    <3>1. Cardinality(Occupied(entries)) < capacity
      BY <2>1, <2>2, CapacityFacts DEF CountsAgree, AtMostHalf
    <3>2. entries \in Array(capacity) /\ DOMAIN entries = 0..(capacity - 1)
      BY <2>1 DEF TypeOK, Array
    <3> QED
      BY <2>1, <3>1, <3>2, OccupiedSlots
  <2>3. ASSUME pc = "move" PROVE \E s \in DOMAIN new_entries : new_entries[s] = NoEntry
    <3>1. /\ new_entries \in Array(2 * capacity) /\ entries \in Array(capacity)
          /\ DOMAIN new_entries = 0..(2 * capacity - 1) /\ capacity \in 1..MaxCap
          /\ 2 * capacity \in Nat
      BY <2>1, <2>3, CapacityFacts DEF TypeOK, Array
    <3>2. {r \in Occupied(entries) : r < index} \subseteq Occupied(entries)
          /\ IsFiniteSet(Occupied(entries))
      BY <2>1, <3>1, OccupiedSlots
    <3>3. Cardinality({r \in Occupied(entries) : r < index}) =< length
          /\ Cardinality({r \in Occupied(entries) : r < index}) \in Nat
      BY <2>1, <3>2, FS_Subset, FS_CardinalityType DEF CountsAgree
    <3>4. Cardinality(Occupied(new_entries)) =
             Cardinality({r \in Occupied(entries) : r < index})
      BY <2>1, <2>3 DEF MovedSoFar
    <3>5. Cardinality(Occupied(new_entries)) < 2 * capacity
      BY <2>1, <3>1, <3>3, <3>4 DEF AtMostHalf
    <3> QED
      BY <3>1, <3>5, OccupiedSlots
  <2> QED
    BY <2>2, <2>3 DEF RoomToStop
<1> QED
  BY <1>1, TableInvariant, PTL

-----------------------------------------------------------------------------
(***************************************************************************)
(* A table that is not created with capacity 0 implements Dictionary: each *)
(* call that returns does what the dictionary does, and the steps of the   *)
(* loops inside a call do not show.                                        *)
(***************************************************************************)

(***************************************************************************)
(* What a lookup finds.                                                    *)
(***************************************************************************)

\* A key that no slot holds has no value.
LEMMA FoundNowhere ==
  ASSUME NEW e, NEW k, \A s \in Occupied(e) : e[s].key # k
  PROVE  Found(e, k) = None
BY DEF Found, Occupied

\* The one slot that holds a key has its value.
LEMMA FoundAt ==
  ASSUME NEW c \in 1..MaxCap, NEW e \in Array(c), InPlace(e, c), NEW s \in Occupied(e)
  PROVE  Found(e, e[s].key) = e[s].value
<1> DEFINE k == e[s].key
           t == CHOOSE t \in DOMAIN e : e[t] # NoEntry /\ e[t].key = k
<1>1. s \in DOMAIN e /\ e[s] # NoEntry /\ e[s].key = k
  BY DEF Occupied
<1>2. t \in DOMAIN e /\ e[t] # NoEntry /\ e[t].key = k
  BY <1>1
<1>3. Found(e, k) = e[t].value
  BY <1>1 DEF Found
<1>4. t \in Occupied(e)
  BY <1>2 DEF Occupied
<1> HIDE DEF t
<1>5. t = s
  BY <1>2, <1>4, OneSlotPerKey
<1> QED
  BY <1>3, <1>5

\* Where the probing loop for a key stops is what a lookup finds: the entry of the
\* key, or an empty slot if the key is nowhere in the array.
LEMMA LandsFinds ==
  ASSUME NEW c \in 1..MaxCap, NEW e \in Array(c), InPlace(e, c), NEW k \in Keys,
         NEW s \in 0..(c - 1), Lands(e, c, k, s)
  PROVE  /\ Found(e, k) = e[s].value
         /\ e[s] = NoEntry => \A t \in Occupied(e) : e[t].key # k
         /\ e[s] # NoEntry => s \in Occupied(e) /\ e[s].key = k
<1>1. CASE e[s] = NoEntry
  <2>1. ASSUME NEW t \in Occupied(e), e[t].key = k PROVE FALSE
    <3>1. Lands(e, c, k, t)
      BY <2>1 DEF InPlace
    <3>2. t = s
      BY <3>1, LandsOnce
    <3> QED
      BY <1>1, <3>2 DEF Occupied
  <2>2. Found(e, k) = None
    BY <2>1, FoundNowhere
  <2> QED
    BY <1>1, <2>1, <2>2 DEF NoEntry
<1>2. CASE e[s] # NoEntry
  <2>1. s \in Occupied(e)
    BY <1>2 DEF Occupied, Array
  <2>2. e[s].key = k
    BY <1>2 DEF Lands, Passes
  <2> QED
    BY <1>2, <2>1, <2>2, FoundAt
<1> QED
  BY <1>1, <1>2

\* Two arrays with the same entries, wherever they are, give the same answers.
LEMMA SameEntriesSameAnswers ==
  ASSUME NEW c \in 1..MaxCap, NEW e \in Array(c), InPlace(e, c),
         NEW b \in 1..MaxCap, NEW f \in Array(b), InPlace(f, b),
         \A s \in Occupied(f) : \E r \in Occupied(e) : e[r] = f[s],
         \A r \in Occupied(e) : \E s \in Occupied(f) : f[s] = e[r],
         NEW k
  PROVE  Found(f, k) = Found(e, k)
<1>1. CASE \E r \in Occupied(e) : e[r].key = k
  <2>1. PICK r \in Occupied(e) : e[r].key = k
    BY <1>1
  <2>2. PICK s \in Occupied(f) : f[s] = e[r]
    OBVIOUS
  <2>3. Found(e, k) = e[r].value
    BY <2>1, FoundAt
  <2>4. Found(f, k) = f[s].value
    BY <2>1, <2>2, FoundAt
  <2> QED
    BY <2>2, <2>3, <2>4
<1>2. CASE \A r \in Occupied(e) : e[r].key # k
  <2>1. \A s \in Occupied(f) : f[s].key # k
    BY <1>2
  <2> QED
    BY <1>2, <2>1, FoundNowhere
<1> QED
  BY <1>1, <1>2

\* Storing a value where the probing loop for its key stops changes what a lookup of
\* that key finds, and of no other.
LEMMA StoredIsFound ==
  ASSUME NEW c \in 1..MaxCap, NEW e \in Array(c), InPlace(e, c), NEW x \in Entry,
         NEW s \in 0..(c - 1), Lands(e, c, x.key, s),
         NEW f \in Array(c), InPlace(f, c),
         f[s] = x, \A r \in 0..(c - 1) : r # s => f[r] = e[r],
         NEW k \in Keys
  PROVE  Found(f, k) = IF k = x.key THEN x.value ELSE Found(e, k)
<1>1. c \in Nat /\ DOMAIN e = 0..(c - 1) /\ DOMAIN f = 0..(c - 1)
      /\ Occupied(e) \subseteq 0..(c - 1) /\ Occupied(f) \subseteq 0..(c - 1)
  BY HashTableAssumption, OccupiedSlots DEF Array, HashTableAssumption
<1>2. x # NoEntry /\ s \in Occupied(f)
  BY <1>1, EntryIsNotEmpty DEF Occupied
<1>3. CASE k = x.key
  BY <1>2, <1>3, FoundAt
<1>4. CASE k # x.key
  <2>1. \A r \in 0..(c - 1) : r # s => (r \in Occupied(e) <=> r \in Occupied(f))
    BY <1>1 DEF Occupied
  <2>2. e[s] = NoEntry \/ e[s].key # k
    BY <1>4 DEF Lands, Passes
  <2>3. CASE \E r \in Occupied(e) : e[r].key = k
    <3>1. PICK r \in Occupied(e) : e[r].key = k
      BY <2>3
    <3>2. r # s
      BY <2>2, <3>1 DEF Occupied
    <3>3. r \in Occupied(f) /\ f[r] = e[r]
      BY <1>1, <2>1, <3>2
    <3>4. Found(e, k) = e[r].value /\ Found(f, k) = e[r].value
      BY <3>1, <3>3, FoundAt
    <3> QED
      BY <1>4, <3>4
  <2>4. CASE \A r \in Occupied(e) : e[r].key # k
    <3>1. \A r \in Occupied(f) : f[r].key # k
      BY <1>1, <1>4, <2>1, <2>4
    <3> QED
      BY <1>4, <2>4, <3>1, FoundNowhere
  <2> QED
    BY <2>3, <2>4
<1> QED
  BY <1>3, <1>4

\* The keys a lookup finds are those of the slots in use, and as many.
LEMMA PresentKeys ==
  ASSUME NEW c \in 1..MaxCap, NEW e \in Array(c), InPlace(e, c)
  PROVE  /\ {k \in Keys : Found(e, k) # None} = {e[s].key : s \in Occupied(e)}
         /\ Cardinality({k \in Keys : Found(e, k) # None}) = Cardinality(Occupied(e))
<1> DEFINE P == {k \in Keys : Found(e, k) # None}
           K == {e[s].key : s \in Occupied(e)}
           g == [s \in Occupied(e) |-> e[s].key]
<1>1. c \in Nat
  BY HashTableAssumption DEF HashTableAssumption
<1>2. \A s \in Occupied(e) : e[s].key \in Keys /\ e[s].value # None
  BY <1>1, OccupiedSlots, EntryIsNotEmpty, HashTableAssumption DEF HashTableAssumption
<1>3. P = K
  <2>1. ASSUME NEW k \in P PROVE k \in K
    BY <2>1, FoundNowhere
  <2>2. ASSUME NEW s \in Occupied(e) PROVE e[s].key \in P
    BY <1>2, FoundAt
  <2> QED
    BY <2>1, <2>2
<1>4. g \in Bijection(Occupied(e), K)
  <2>1. \A s, t \in Occupied(e) : g[s] = g[t] => s = t
    BY OneSlotPerKey
  <2>2. g \in [Occupied(e) -> K]
    OBVIOUS
  <2>3. \A k \in K : \E s \in Occupied(e) : g[s] = k
    OBVIOUS
  <2> QED
    BY <2>1, <2>2, <2>3 DEF Bijection, Injection, Surjection, IsInjective
<1>5. Cardinality(Occupied(e)) = Cardinality(K)
  <2>1. IsFiniteSet(Occupied(e))
    BY <1>1, OccupiedSlots
  <2> QED
    BY <1>4, <2>1, FS_Bijection DEF ExistsBijection
<1> QED
  BY <1>3, <1>5

-----------------------------------------------------------------------------
(***************************************************************************)
(* The refinement.                                                         *)
(***************************************************************************)

LEMMA InitImplements ==
  Init => Dict!DictInit
<1> SUFFICES ASSUME Init PROVE Dict!DictInit
  OBVIOUS
<1>1. Occupied(entries) = {} /\ pc = "none" /\ seen = {}
      /\ ret = [op |-> "none", key |-> None, out |-> None]
  BY EmptyArrayFacts DEF Init
<1>2. \A k \in Keys : Found(entries, k) = None
  BY <1>1, FoundNowhere
<1> QED
  BY <1>1, <1>2 DEF Dict!DictInit, Dict!EmptyDict

\* What the invariant says of a table between its creation and its destruction.
LEMMA TableFacts ==
  ASSUME TableInv, pc # "none"
  PROVE  /\ capacity \in 1..MaxCap /\ capacity \in Nat
         /\ entries \in Array(capacity) /\ InPlace(entries, capacity)
         /\ DOMAIN entries = 0..(capacity - 1)
         /\ index \in 0..capacity
BY CapacityFacts DEF TableInv, TypeOK, Reachable, Array

LEMMA CreateImplements ==
  ASSUME TableInv, NEW c \in InitCaps, Create(c)
  PROVE  Dict!New
<1>1. capacity = 0 /\ pc = "none" /\ entries \in Array(0)
  BY DEF TableInv, TypeOK, AtMostHalf, Create
<1>2. entries' = EmptyArray(c) /\ pc' = "idle" /\ seen' = seen
      /\ ret' = [op |-> "create", key |-> None, out |-> None] /\ c \in Nat
  BY HashTableAssumption DEF Create, Returns, HashTableAssumption
<1>3. \A k \in Keys : Found(entries, k) = None
  <2>1. Occupied(entries) = {}
    BY <1>1, OccupiedSlots
  <2> QED
    BY <2>1, FoundNowhere
<1>4. \A k \in Keys : Found(entries', k) = None
  <2>1. Occupied(entries') = {}
    BY <1>2, EmptyArrayFacts
  <2> QED
    BY <2>1, FoundNowhere
<1> QED
  BY <1>1, <1>2, <1>3, <1>4 DEF Dict!New, Dict!Returns

LEMMA CreateFailsImplements ==
  ASSUME CreateFails
  PROVE  Dict!NewFails
BY DEF CreateFails, Returns, Dict!NewFails, Dict!Returns

LEMMA DestroyImplements ==
  ASSUME TableInv, Destroy
  PROVE  Dict!Drop
<1>1. pc = "idle" /\ pc' = "none" /\ entries' = EmptyArray(0) /\ seen' = seen
      /\ ret' = [op |-> "destroy", key |-> None, out |-> None]
  BY DEF Destroy, Returns
<1>2. \A k \in Keys : Found(entries', k) = None
  <2>1. Occupied(entries') = {}
    BY <1>1, EmptyArrayFacts
  <2> QED
    BY <2>1, FoundNowhere
<1> QED
  BY <1>1, <1>2 DEF Dict!Drop, Dict!EmptyDict, Dict!Returns

LEMMA GetImplements ==
  ASSUME TableInv, NEW k \in Keys, Get(k)
  PROVE  Dict!Lookup(k)
<1>1. PICK s \in DOMAIN entries :
         /\ Lands(entries, capacity, k, s)
         /\ ret' = [op |-> "get", key |-> k, out |-> entries[s].value]
  BY DEF Get, Returns
<1>2. pc = "idle" /\ pc' = pc /\ entries' = entries /\ seen' = seen
  BY DEF Get
<1>3. Found(entries, k) = entries[s].value
  BY <1>1, <1>2, TableFacts, LandsFinds
<1> QED
  BY <1>1, <1>2, <1>3 DEF Dict!Lookup, Dict!Returns

LEMMA LengthImplements ==
  ASSUME TableInv, Length
  PROVE  Dict!Size
<1>1. pc = "idle" /\ pc' = pc /\ entries' = entries /\ seen' = seen
      /\ ret' = [op |-> "length", key |-> None, out |-> length]
  BY DEF Length, Returns
<1>2. length = Cardinality({k \in Keys : Found(entries, k) # None})
  <2>1. length = Cardinality(Occupied(entries))
    BY DEF TableInv, CountsAgree
  <2> QED
    BY <1>1, <2>1, TableFacts, PresentKeys
<1>3. Dict!Present = {k \in Keys : Found(entries, k) # None}
  BY DEF Dict!Present
<1>4. Cardinality(Dict!Present) = length
  BY <1>2, <1>3
<1>5. Dict!Cardinality(Dict!Present) = Cardinality(Dict!Present)
  BY DEF Dict!Cardinality, Cardinality
<1>6. Dict!Returns("length", None, Dict!Cardinality(Dict!Present))
  BY <1>1, <1>4, <1>5 DEF Dict!Returns
<1> QED
  BY <1>1, <1>6 DEF Dict!Size

LEMMA FailureImplements ==
  ASSUME TableInv, ExpandFails \/ InsertFails
  PROVE  \E k \in Keys : Dict!PutFails(k)
<1>1. pc \in {"expand", "insert"} /\ pc' = "idle" /\ entries' = entries /\ seen' = seen
      /\ ret' = [op |-> "set", key |-> arg.key, out |-> None]
  BY DEF ExpandFails, InsertFails, Returns
<1>2. arg.key \in Keys
  BY <1>1, EntryIsNotEmpty DEF TableInv, TypeOK
<1>3. Dict!PutFails(arg.key)
  BY <1>1 DEF Dict!PutFails, Dict!Returns
<1> QED
  BY <1>2, <1>3

\* ht_set_entry stores the value, in the slot of the key or in an empty one.
LEMMA StoreImplements ==
  ASSUME TableInv, TableInv', Update \/ Insert
  PROVE  \E k \in Keys, v \in Values : Dict!Put(k, v)
<1>1. /\ pc = "insert" /\ pc' = "idle" /\ seen' = seen /\ capacity' = capacity
      /\ ret' = [op |-> "set", key |-> arg.key, out |-> arg.key] /\ arg \in Entry
  BY DEF Update, Insert, Returns, TableInv, TypeOK
<1>2. /\ capacity \in 1..MaxCap /\ entries \in Array(capacity) /\ InPlace(entries, capacity)
      /\ DOMAIN entries = 0..(capacity - 1)
  BY <1>1, TableFacts
<1>3. entries' \in Array(capacity) /\ InPlace(entries', capacity)
  BY <1>1 DEF TableInv, TypeOK, Reachable
<1>4. arg.key \in Keys /\ arg.value \in Values /\ arg = [key |-> arg.key, value |-> arg.value]
  BY <1>1 DEF Entry
<1>5. \E s \in 0..(capacity - 1) :
         /\ Lands(entries, capacity, arg.key, s)
         /\ entries'[s] = arg
         /\ \A r \in 0..(capacity - 1) : r # s => entries'[r] = entries[r]
  <2>1. CASE Update
    <3>1. PICK s \in 0..(capacity - 1) :
             /\ Lands(entries, capacity, arg.key, s)
             /\ entries[s] # NoEntry
             /\ entries' = [entries EXCEPT ![s].value = arg.value]
      BY <1>2, <2>1 DEF Update
    <3>2. \A r \in 0..(capacity - 1) : r # s => entries'[r] = entries[r]
      BY <1>2, <3>1
    <3>3. entries'[s] = [entries[s] EXCEPT !.value = arg.value]
      BY <1>2, <3>1
    <3>4. entries[s] \in Entry /\ entries[s].key = arg.key
      BY <1>2, <3>1 DEF Array, Lands, Passes
    <3>5. [entries[s] EXCEPT !.value = arg.value] = [key |-> arg.key, value |-> arg.value]
      BY <3>4 DEF Entry
    <3> QED
      BY <1>4, <3>1, <3>2, <3>3, <3>5
  <2>2. CASE Insert
    <3>1. PICK s \in 0..(capacity - 1) :
             /\ Lands(entries, capacity, arg.key, s)
             /\ entries' = [entries EXCEPT ![s] = arg]
      BY <1>2, <2>2 DEF Insert
    <3> QED
      BY <1>2, <3>1
  <2> QED
    BY <2>1, <2>2
<1>6. \A k \in Keys :
         Found(entries', k) = IF k = arg.key THEN arg.value ELSE Found(entries, k)
  <2>1. PICK s \in 0..(capacity - 1) :
           /\ Lands(entries, capacity, arg.key, s)
           /\ entries'[s] = arg
           /\ \A r \in 0..(capacity - 1) : r # s => entries'[r] = entries[r]
    BY <1>5
  <2> QED
    BY <1>1, <1>2, <1>3, <2>1, StoredIsFound
<1>7. [k \in Keys |-> Found(entries', k)] =
         [[k \in Keys |-> Found(entries, k)] EXCEPT ![arg.key] = arg.value]
  BY <1>4, <1>6
<1>8. Dict!Put(arg.key, arg.value)
  BY <1>1, <1>7 DEF Dict!Put, Dict!Returns
<1> QED
  BY <1>4, <1>8

LEMMA PublishImplements ==
  ASSUME TableInv, Publish
  PROVE  UNCHANGED Dict!dvars
<1>1. /\ pc = "move" /\ pc' = "insert" /\ entries' = new_entries /\ seen' = seen
      /\ ret' = ret /\ index = capacity
  BY DEF Publish
<1>2. /\ capacity \in 1..MaxCap /\ capacity \in Nat /\ 2 * capacity \in 1..MaxCap
      /\ entries \in Array(capacity) /\ InPlace(entries, capacity)
  BY <1>1, CapacityFacts, TableFacts
<1>3. new_entries \in Array(2 * capacity) /\ InPlace(new_entries, 2 * capacity)
  BY <1>1 DEF TableInv, TypeOK, Reachable
<1>4. \A r \in Occupied(entries) : r < index
  BY <1>1, <1>2, OccupiedSlots
<1>5. /\ \A s \in Occupied(new_entries) : \E r \in Occupied(entries) : entries[r] = new_entries[s]
      /\ \A r \in Occupied(entries) : \E s \in Occupied(new_entries) : new_entries[s] = entries[r]
  BY <1>1, <1>4 DEF TableInv, MovedSoFar
<1>6. \A k \in Keys : Found(new_entries, k) = Found(entries, k)
  <2> DEFINE b == 2 * capacity
  <2>1. b \in 1..MaxCap /\ new_entries \in Array(b) /\ InPlace(new_entries, b)
    BY <1>2, <1>3
  <2> HIDE DEF b
  <2> QED
    BY <1>2, <1>5, <2>1, SameEntriesSameAnswers
<1> QED
  BY <1>1, <1>6 DEF Dict!dvars

LEMMA IteratorImplements ==
  ASSUME TableInv, Iterator
  PROVE  Dict!StartWalk
BY DEF Iterator, Dict!StartWalk

LEMMA IterNextImplements ==
  ASSUME TableInv, IterNext
  PROVE  \E k \in Keys : Dict!Visit(k)
<1>1. /\ pc = "walk" /\ pc' = pc /\ entries' = entries
      /\ capacity \in Nat /\ capacity \in 1..MaxCap /\ index \in 0..capacity
      /\ entries \in Array(capacity) /\ InPlace(entries, capacity)
      /\ DOMAIN entries = 0..(capacity - 1)
  BY TableFacts DEF IterNext
<1>2. PICK s \in index..(capacity - 1) :
         /\ entries[s] # NoEntry
         /\ seen' = seen \union {entries[s].key}
         /\ ret' = [op |-> "next", key |-> entries[s].key, out |-> entries[s].value]
  BY DEF IterNext, Returns
<1>3. s \in Occupied(entries) /\ ~(s < index)
  BY <1>1, <1>2 DEF Occupied
<1>4. Found(entries, entries[s].key) = entries[s].value
  BY <1>1, <1>3, FoundAt
<1>5. entries[s].key \in Keys /\ entries[s].value # None
  BY <1>1, <1>3, OccupiedSlots, EntryIsNotEmpty, HashTableAssumption DEF HashTableAssumption
<1>6. entries[s].key \notin seen
  <2> SUFFICES ASSUME entries[s].key \in seen PROVE FALSE
    OBVIOUS
  <2>1. PICK r \in Occupied(entries) : r < index /\ entries[r].key = entries[s].key
    BY <1>1 DEF TableInv, SeenSoFar
  <2>2. r = s
    BY <1>1, <1>3, <2>1, OneSlotPerKey
  <2> QED
    BY <1>3, <2>1, <2>2
<1>7. Dict!Visit(entries[s].key)
  BY <1>1, <1>2, <1>4, <1>5, <1>6 DEF Dict!Visit, Dict!Present, Dict!Returns
<1> QED
  BY <1>5, <1>7

LEMMA IterEndImplements ==
  ASSUME TableInv, IterEnd
  PROVE  Dict!EndWalk
<1>1. /\ pc = "walk" /\ pc' = "idle" /\ entries' = entries /\ seen' = {}
      /\ ret' = [op |-> "end", key |-> None, out |-> None]
      /\ capacity \in Nat /\ capacity \in 1..MaxCap /\ index \in 0..capacity
      /\ entries \in Array(capacity) /\ InPlace(entries, capacity)
      /\ DOMAIN entries = 0..(capacity - 1)
      /\ \A s \in index..(capacity - 1) : entries[s] = NoEntry
  BY TableFacts DEF IterEnd, Returns
<1>2. \A s \in Occupied(entries) : s < index
  BY <1>1 DEF Occupied
<1>3. seen = {entries[s].key : s \in Occupied(entries)}
  <2>1. {r \in Occupied(entries) : r < index} = Occupied(entries)
    BY <1>2
  <2> QED
    BY <1>1, <2>1 DEF TableInv, SeenSoFar
<1>4. {k \in Keys : Found(entries, k) # None} = seen
  BY <1>1, <1>3, PresentKeys
<1>5. Dict!Present \subseteq seen
  BY <1>4 DEF Dict!Present
<1> QED
  BY <1>1, <1>5 DEF Dict!EndWalk, Dict!Returns

LEMMA InsideImplements ==
  ASSUME TableInv,
         (\E k \in Keys, v \in Values : Set(k, v)) \/ Expand \/ Move \/ UNCHANGED vars
  PROVE  UNCHANGED Dict!dvars
BY DEF Set, Expand, Move, vars, Dict!dvars

\* The hash table implements the dictionary.
THEOREM TableImplementsDictionary ==
  ASSUME 0 \notin InitCaps
  PROVE  Spec => ImplementsDictionary
<1>1. TableInv /\ TableInv' /\ [Next]_vars => [Dict!DictNext]_Dict!dvars
  <2> SUFFICES ASSUME TableInv, TableInv', [Next]_vars
               PROVE  Dict!DictNext \/ UNCHANGED Dict!dvars
    OBVIOUS
  <2>1. CASE \E c \in InitCaps : Create(c)
    BY <2>1, CreateImplements DEF Dict!DictNext
  <2>2. CASE \E k \in Keys : Get(k)
    BY <2>2, GetImplements DEF Dict!DictNext
  <2>3. CASE Destroy
    BY <2>3, DestroyImplements DEF Dict!DictNext
  <2>4. CASE Length
    BY <2>4, LengthImplements DEF Dict!DictNext
  <2>5. CASE ExpandFails \/ InsertFails
    BY <2>5, FailureImplements DEF Dict!DictNext
  <2>6. CASE Update \/ Insert
    BY <2>6, StoreImplements DEF Dict!DictNext
  <2>7. CASE Publish
    BY <2>7, PublishImplements
  <2>8. CASE Iterator
    BY <2>8, IteratorImplements DEF Dict!DictNext
  <2>9. CASE IterNext
    BY <2>9, IterNextImplements DEF Dict!DictNext
  <2>10. CASE IterEnd
    BY <2>10, IterEndImplements DEF Dict!DictNext
  <2>11. CASE (\E k \in Keys, v \in Values : Set(k, v)) \/ Expand \/ Move \/ UNCHANGED vars
    BY <2>11, InsideImplements
  <2>12. CASE CreateFails
    BY <2>12, CreateFailsImplements DEF Dict!DictNext
  <2> QED
    BY <2>1, <2>2, <2>3, <2>4, <2>5, <2>6, <2>7, <2>8, <2>9, <2>10, <2>11, <2>12 DEF Next
<1> QED
  BY <1>1, InitImplements, TableInvariant, PTL DEF Spec, ImplementsDictionary, Dict!DictSpec
=============================================================================
