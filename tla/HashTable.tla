------------------------------ MODULE HashTable ------------------------------
(***************************************************************************)
(* The open-addressing hash table of src/dev-capi/server/impl/ht.c, as one *)
(* thread uses it.  The server keeps its verbs, HTTP versions, headers and *)
(* URL parameters in such tables.  The calls that loop over the entries    *)
(* (growing the table, walking it) take one step per round of the loop.    *)
(***************************************************************************)
EXTENDS Naturals, FiniteSets

CONSTANTS
  Keys,
  Values,
  None,             \* NULL
  InitCaps,         \* the capacities ht_create is called with
  MaxCap,           \* the longest array calloc can give, below overflow
  HashIndex(_, _)   \* hash_key(k) & (c - 1)

ASSUME HashTableAssumption ==
  /\ None \notin Keys \union Values
  /\ InitCaps \subseteq 0..MaxCap
  /\ MaxCap \in Nat \ {0}

\* Masking with c - 1 keeps the low bits of the hash that c - 1 has.
ASSUME HashIndexAssumption ==
  \A k \in Keys, c \in 1..MaxCap : HashIndex(k, c) \in 0..(c - 1)

VARIABLES
  entries,      \* entries[s]: the key and value in slot s, or NoEntry
  capacity,
  length,
  copies,       \* copies of keys that strdup made and nothing freed
  pc,           \* what the caller is in
  arg,          \* the arguments of the ht_set under way
  new_entries,  \* the array ht_expand fills
  index,        \* its loop counter, or the iterator's
  seen,         \* keys the iterator has returned
  ret           \* what the last call returned

vars == <<entries, capacity, length, copies, pc, arg, new_entries, index, seen, ret>>

-----------------------------------------------------------------------------

NoEntry == [key |-> None, value |-> None]
Entry   == [key : Keys, value : Values]

Array(c)    == [0..(c - 1) -> Entry \union {NoEntry}]
EmptyArray(c) == [s \in 0..(c - 1) |-> NoEntry]

PCs == {"none", "idle", "expand", "move", "insert", "walk"}

Results == {"none", "create", "no_table", "destroy", "set", "get", "length", "next", "end"}

TypeOK ==
  /\ capacity \in 0..MaxCap
  /\ entries \in Array(capacity)
  /\ length \in Nat
  /\ copies \in Nat
  /\ pc \in PCs
  /\ arg \in [key : Keys \union {None}, value : Values \union {None}]
  /\ pc \in {"expand", "move", "insert"} => arg \in Entry
  /\ pc = "move" => 2 * capacity =< MaxCap /\ new_entries \in Array(2 * capacity)
  /\ index \in 0..capacity
  /\ seen \in SUBSET Keys
  /\ ret \in [op : Results, key : Keys \union {None},
              out : Keys \union Values \union {None} \union Nat]

Init ==
  /\ entries = EmptyArray(0)
  /\ capacity = 0
  /\ length = 0
  /\ copies = 0
  /\ pc = "none"
  /\ arg = NoEntry
  /\ new_entries = EmptyArray(0)
  /\ index = 0
  /\ seen = {}
  /\ ret = [op |-> "none", key |-> None, out |-> None]

Occupied(e) == {s \in DOMAIN e : e[s] # NoEntry}

\* The slot that the d-th round of the probing loop looks at.
Probe(c, k, d) ==
  LET s == HashIndex(k, c) + d IN IF s < c THEN s ELSE s - c

\* The loop does not stop here: the slot holds another key.
Passes(e, s, k) == e[s] # NoEntry /\ e[s].key # k

\* The probing loop for k in e, of capacity c, stops at s.
Lands(e, c, k, s) ==
  /\ ~Passes(e, s, k)
  /\ \E d \in 0..(c - 1) :
        /\ s = Probe(c, k, d)
        /\ \A j \in 0..(d - 1) : Passes(e, Probe(c, k, j), k)

Returns(op, key, out) == ret' = [op |-> op, key |-> key, out |-> out]

-----------------------------------------------------------------------------

Create(c) ==
  /\ pc = "none"
  /\ capacity' = c
  /\ entries' = EmptyArray(c)
  /\ length' = 0
  /\ pc' = "idle"
  /\ Returns("create", None, None)
  /\ UNCHANGED <<copies, arg, new_entries, index, seen>>

\* malloc or calloc fails.
CreateFails ==
  /\ pc = "none"
  /\ Returns("no_table", None, None)
  /\ UNCHANGED <<entries, capacity, length, copies, pc, arg, new_entries, index, seen>>

Destroy ==
  /\ pc = "idle"
  /\ copies' = copies - Cardinality(Occupied(entries))
  /\ entries' = EmptyArray(0)
  /\ capacity' = 0
  /\ length' = 0
  /\ pc' = "none"
  /\ Returns("destroy", None, None)
  /\ UNCHANGED <<arg, new_entries, index, seen>>

Get(k) ==
  /\ pc = "idle"
  /\ \E s \in DOMAIN entries :
        /\ Lands(entries, capacity, k, s)
        /\ Returns("get", k, entries[s].value)
  /\ UNCHANGED <<entries, capacity, length, copies, pc, arg, new_entries, index, seen>>

Length ==
  /\ pc = "idle"
  /\ Returns("length", None, length)
  /\ UNCHANGED <<entries, capacity, length, copies, pc, arg, new_entries, index, seen>>

\* Faulty variant of Set: the table grows when it is full, not when it is half full.
SetWhenFull(k, v) ==
  /\ pc = "idle"
  /\ arg' = [key |-> k, value |-> v]
  /\ pc' = IF length >= capacity THEN "expand" ELSE "insert"
  /\ UNCHANGED <<entries, capacity, length, copies, new_entries, index, seen, ret>>

\* ht_set is entered: "If length will exceed half of current capacity, expand it".
Set(k, v) ==
  /\ pc = "idle"
  /\ arg' = [key |-> k, value |-> v]
  /\ pc' = IF length >= capacity \div 2 THEN "expand" ELSE "insert"
  /\ UNCHANGED <<entries, capacity, length, copies, new_entries, index, seen, ret>>

\* Faulty variant of ExpandFails: ht_set tries again until there is memory.
ExpandRetries ==
  /\ pc = "expand"
  /\ UNCHANGED vars

\* The new capacity overflows or calloc fails; ht_set returns NULL, even for a key
\* that is there and needs no room.
ExpandFails ==
  /\ pc = "expand"
  /\ pc' = "idle"
  /\ Returns("set", arg.key, None)
  /\ UNCHANGED <<entries, capacity, length, copies, arg, new_entries, index, seen>>

Expand ==
  /\ pc = "expand"
  /\ 2 * capacity =< MaxCap
  /\ new_entries' = EmptyArray(2 * capacity)
  /\ index' = 0
  /\ pc' = "move"
  /\ UNCHANGED <<entries, capacity, length, copies, arg, seen, ret>>

\* Faulty variant of Move: the hash is masked with the capacity of the old array.
MoveWithOldMask ==
  /\ pc = "move"
  /\ index < capacity
  /\ index' = index + 1
  /\ \/ /\ entries[index] = NoEntry
        /\ UNCHANGED new_entries
     \/ /\ entries[index] # NoEntry
        /\ \E s \in DOMAIN entries :
              /\ Lands(new_entries, capacity, entries[index].key, s)
              /\ new_entries' = [new_entries EXCEPT ![s] = entries[index]]
  /\ UNCHANGED <<entries, capacity, length, copies, pc, arg, seen, ret>>

\* One round of the loop that moves the entries: the key is not copied again.
Move ==
  /\ pc = "move"
  /\ index < capacity
  /\ index' = index + 1
  /\ \/ /\ entries[index] = NoEntry
        /\ UNCHANGED new_entries
     \/ /\ entries[index] # NoEntry
        /\ \E s \in DOMAIN new_entries :
              /\ Lands(new_entries, 2 * capacity, entries[index].key, s)
              /\ new_entries' = [new_entries EXCEPT ![s] = entries[index]]
  /\ UNCHANGED <<entries, capacity, length, copies, pc, arg, seen, ret>>

\* Faulty variant of Publish: the capacity is not brought up to date.
PublishEntriesOnly ==
  /\ pc = "move"
  /\ index = capacity
  /\ entries' = new_entries
  /\ index' = 0
  /\ new_entries' = EmptyArray(0)
  /\ pc' = "insert"
  /\ UNCHANGED <<capacity, length, copies, arg, seen, ret>>

Publish ==
  /\ pc = "move"
  /\ index = capacity
  /\ entries' = new_entries
  /\ capacity' = 2 * capacity
  /\ index' = 0
  /\ new_entries' = EmptyArray(0)
  /\ pc' = "insert"
  /\ UNCHANGED <<length, copies, arg, seen, ret>>

\* ht_set_entry finds the key: only the value is new.
Update ==
  /\ pc = "insert"
  /\ \E s \in DOMAIN entries :
        /\ Lands(entries, capacity, arg.key, s)
        /\ entries[s] # NoEntry
        /\ entries' = [entries EXCEPT ![s].value = arg.value]
  /\ pc' = "idle"
  /\ Returns("set", arg.key, arg.key)
  /\ UNCHANGED <<capacity, length, copies, arg, new_entries, index, seen>>

\* ht_set_entry finds an empty slot and copies the key into it.
Insert ==
  /\ pc = "insert"
  /\ \E s \in DOMAIN entries :
        /\ Lands(entries, capacity, arg.key, s)
        /\ entries[s] = NoEntry
        /\ entries' = [entries EXCEPT ![s] = arg]
  /\ length' = length + 1
  /\ copies' = copies + 1
  /\ pc' = "idle"
  /\ Returns("set", arg.key, arg.key)
  /\ UNCHANGED <<capacity, arg, new_entries, index, seen>>

\* Faulty variant of InsertFails: the length is counted before strdup is tested.
InsertFailsCounted ==
  /\ pc = "insert"
  /\ \E s \in DOMAIN entries :
        /\ Lands(entries, capacity, arg.key, s)
        /\ entries[s] = NoEntry
  /\ length' = length + 1
  /\ pc' = "idle"
  /\ Returns("set", arg.key, None)
  /\ UNCHANGED <<entries, capacity, copies, arg, new_entries, index, seen>>

\* ht_set_entry finds an empty slot and strdup fails.
InsertFails ==
  /\ pc = "insert"
  /\ \E s \in DOMAIN entries :
        /\ Lands(entries, capacity, arg.key, s)
        /\ entries[s] = NoEntry
  /\ pc' = "idle"
  /\ Returns("set", arg.key, None)
  /\ UNCHANGED <<entries, capacity, length, copies, arg, new_entries, index, seen>>

\* ht_iterator; the caller does not call ht_set until it is done.
Iterator ==
  /\ pc = "idle"
  /\ pc' = "walk"
  /\ index' = 0
  /\ seen' = {}
  /\ UNCHANGED <<entries, capacity, length, copies, arg, new_entries, ret>>

\* ht_next finds the next slot in use.
IterNext ==
  /\ pc = "walk"
  /\ \E s \in index..(capacity - 1) :
        /\ entries[s] # NoEntry
        /\ \A r \in index..(s - 1) : entries[r] = NoEntry
        /\ index' = s + 1
        /\ seen' = seen \union {entries[s].key}
        /\ Returns("next", entries[s].key, entries[s].value)
  /\ UNCHANGED <<entries, capacity, length, copies, pc, arg, new_entries>>

\* Faulty variant of IterEnd: the loop does not look at the last slot.
IterEndEarly ==
  /\ pc = "walk"
  /\ \A s \in index..(capacity - 2) : entries[s] = NoEntry
  /\ pc' = "idle"
  /\ index' = 0
  /\ seen' = {}
  /\ Returns("end", None, None)
  /\ UNCHANGED <<entries, capacity, length, copies, arg, new_entries>>

\* ht_next reaches the end.
IterEnd ==
  /\ pc = "walk"
  /\ \A s \in index..(capacity - 1) : entries[s] = NoEntry
  /\ pc' = "idle"
  /\ index' = 0
  /\ seen' = {}
  /\ Returns("end", None, None)
  /\ UNCHANGED <<entries, capacity, length, copies, arg, new_entries>>

Next ==
  \/ \E c \in InitCaps : Create(c)
  \/ \E k \in Keys : Get(k)
  \/ \E k \in Keys, v \in Values : Set(k, v)
  \/ CreateFails \/ Destroy \/ Length
  \/ ExpandFails \/ Expand \/ Move \/ Publish
  \/ Update \/ Insert \/ InsertFails
  \/ Iterator \/ IterNext \/ IterEnd

Spec == Init /\ [][Next]_vars

\* A call returns if its loops do: the thread that made it goes on.
InCall == ExpandFails \/ Expand \/ Move \/ Publish \/ Update \/ Insert \/ InsertFails

FairSpec == Spec /\ WF_vars(InCall)

-----------------------------------------------------------------------------

\* What a lookup finds in the array e of capacity c: the value of k, or None.
Found(e, k) ==
  IF \E s \in DOMAIN e : e[s] # NoEntry /\ e[s].key = k
  THEN e[CHOOSE s \in DOMAIN e : e[s] # NoEntry /\ e[s].key = k].value
  ELSE None

\* Every entry of e is where the probing loop for its key stops.
InPlace(e, c) == \A s \in Occupied(e) : Lands(e, c, e[s].key, s)

\* In the table, and in the array ht_expand is filling, the probing loop for a key
\* stops at its entry: an entry behind an empty slot would be lost, and a key in
\* two slots would have two values.
Reachable ==
  /\ InPlace(entries, capacity)
  /\ pc = "move" => InPlace(new_entries, 2 * capacity)

\* The probing loops end: in the table, and in the array being filled, there is
\* always an empty slot, whatever calls failed before.
RoomToStop ==
  /\ pc # "none" => \E s \in DOMAIN entries : entries[s] = NoEntry
  /\ pc = "move" => \E s \in DOMAIN new_entries : new_entries[s] = NoEntry

\* ht_length counts the entries, and every entry owns one copy of its key: growing
\* the table neither loses nor doubles one, and ht_destroy leaves none behind.
CountsAgree ==
  /\ length = Cardinality(Occupied(entries))
  /\ copies = length

\* The table is the dictionary ht.h describes: no call that fails, grows the table
\* or wraps around its end shows in what the later calls return.
Dict == INSTANCE Dictionary WITH
  exists  <- pc # "none",
  dict    <- [k \in Keys |-> Found(entries, k)],
  walking <- pc = "walk",
  visited <- seen

ImplementsDictionary == Dict!DictSpec

\* Every call of ht_set returns: expanding and probing come to an end.
SetReturns == pc = "expand" ~> pc = "idle"

\* "AND hash with capacity-1 to ensure it's within entries array" (ht.c:91).
IndexWithinEntries ==
  pc = "insert" => HashIndex(arg.key, capacity) \in DOMAIN entries
-----------------------------------------------------------------------------
(***************************************************************************)
(* The inductive invariant, for tables that are not created with capacity  *)
(* 0: HashTableProofs.                                                     *)
(***************************************************************************)

\* A table has room for an entry, and between calls it is at most half full; when
\* ht_set comes to ht_set_entry there is room for one more.  No loop is under way
\* outside ht_expand and an iteration.
AtMostHalf ==
  /\ pc = "none" <=> capacity = 0
  /\ 2 * length =< capacity
  /\ pc = "insert" => length < capacity \div 2
  /\ pc \notin {"move", "walk"} => index = 0

\* What ht_expand has put in the new array: each entry of the slots behind it, once.
MovedSoFar ==
  pc = "move" =>
    /\ \A s \in Occupied(new_entries) :
         \E r \in Occupied(entries) : r < index /\ entries[r] = new_entries[s]
    /\ \A r \in Occupied(entries) :
         r < index => \E s \in Occupied(new_entries) : new_entries[s] = entries[r]
    /\ Cardinality(Occupied(new_entries)) =
         Cardinality({r \in Occupied(entries) : r < index})

\* The iterator has returned the keys of the slots behind it, and no other.
SeenSoFar ==
  pc = "walk" => seen = {entries[s].key : s \in {r \in Occupied(entries) : r < index}}

TableInv ==
  /\ TypeOK
  /\ AtMostHalf
  /\ CountsAgree
  /\ Reachable
  /\ MovedSoFar
  /\ SeenSoFar
=============================================================================
