------------------------------ MODULE ValidMap ------------------------------
(***************************************************************************)
(* The tables of valid HTTP verbs and versions of http_header.c: one global *)
(* pointer, to a table that the thread of every request makes anew and     *)
(* fills, with no lock, before it looks its own verb up.  One step is one  *)
(* access to memory that threads share; printf and the stores to a table   *)
(* nobody else knows yet are not.  Memory does not run out here: what that *)
(* does to a table is in HashTable.                                        *)
(***************************************************************************)
EXTENDS Naturals, Sequences, FiniteSets

CONSTANTS
  Threads,          \* the threads of the requests under way
  Words,            \* what a request may have in the place of its verb
  NoWord,           \* NULL
  Valid,            \* valid_http_verbs, in order
  InitCap,          \* what ht_create is called with
  MaxRequests,      \* bound: requests that are served in all
  HashIndex(_, _)   \* hash_key(w) & (c - 1)

ValidWords == {Valid[n] : n \in 1..Len(Valid)}

ASSUME ValidMapAssumption ==
  /\ Valid \in Seq(ValidWords)
  /\ NoWord \notin Words \union ValidWords
  /\ InitCap \in Nat \ {0}
  /\ MaxRequests \in Nat

VARIABLES
  map,         \* valid_verb_map: the number of a table, 0 is NULL
  tables,      \* tables[m]: where its entries are, its capacity and its length
  arrays,      \* arrays[a]: the entries, a key and whether its value is stored
  freed,       \* the arrays given back to the allocator
  crashed,     \* the allocator has aborted the process
  at,
  local,       \* the local variables of a thread
  verdict,     \* what check_valid_header_verb returned
  requests,    \* requests begun
  overlapped   \* another request was under way at some time during this one

shared  == <<map, tables, arrays, freed, crashed>>
mapVars == <<shared, at, local, verdict, requests, overlapped>>

-----------------------------------------------------------------------------

NoEntry == [key |-> NoWord, stored |-> FALSE]
Entry   == [key : ValidWords \union {NoWord}, stored : BOOLEAN]
EmptyArray(c) == [s \in 0..(c - 1) |-> NoEntry]

Places == {"idle", "create", "next", "set", "fetch", "probe", "count", "length",
        "key", "value", "expand", "move", "free", "entries", "capacity", "get", "look"}

Busy(t) == at[t] # "idle"

\* The local variables at the start of a call that works on word n of the list.
Locals(w, n) == [word |-> w, n |-> n, table |-> 0, array |-> 0, capacity |-> 0,
                 slot |-> 0, length |-> 0]

MapTypeOK ==
  /\ map \in 0..Len(tables)
  /\ \A m \in 1..Len(tables) :
       /\ tables[m].entries \in 1..Len(arrays)
       /\ tables[m].capacity \in Nat \ {0}
       /\ tables[m].length \in Nat
  /\ \A a \in 1..Len(arrays) : \A s \in DOMAIN arrays[a] : arrays[a][s] \in Entry
  /\ freed \subseteq 1..Len(arrays)
  /\ crashed \in BOOLEAN
  /\ at \in [Threads -> Places]
  /\ verdict \in [Threads -> {"none", "valid", "not_allowed"}]
  /\ requests \in 0..MaxRequests
  /\ overlapped \in [Threads -> BOOLEAN]
  /\ \A t \in Threads :
       /\ at[t] \in {"set", "fetch", "probe", "count", "length", "key", "value"} =>
            local[t].n \in 1..Len(Valid)
       /\ at[t] \in Places \ {"idle", "create", "next"} => local[t].table \in 1..Len(tables)

\* Memory that is not, or no longer, part of an entries array.
Astray(a, s) == a \in freed \/ s \notin DOMAIN arrays[a]

MapInit ==
  /\ map = 0
  /\ tables = <<>>
  /\ arrays = <<>>
  /\ freed = {}
  /\ crashed = FALSE
  /\ at = [t \in Threads |-> "idle"]
  /\ local = [t \in Threads |-> Locals(NoWord, 0)]
  /\ verdict = [t \in Threads |-> "none"]
  /\ requests = 0
  /\ overlapped = [t \in Threads |-> FALSE]

\* The word the thread is putting into the table, and the table it does it to.
Word(t)  == Valid[local[t].n]
Table(t) == tables[local[t].table]

At(t, p)  == at[t] = p /\ ~crashed
Goto(t, p) == at' = [at EXCEPT ![t] = p]

\* index++, back to the start at the end of the array.
NextSlot(s, c) == IF s + 1 >= c THEN 0 ELSE s + 1

\* Where ht_set_entry puts k in an array that no other thread knows of.
Place(entries, c, k) ==
  LET probed(d) == (HashIndex(k, c) + d) % c
      stops(d) == entries[probed(d)].key \in {NoWord, k}
  IN probed(CHOOSE d \in 0..(c - 1) : stops(d) /\ \A j \in 0..(d - 1) : ~stops(j))

-----------------------------------------------------------------------------

\* init_header comes to the verb of a request.
Start(t, w) ==
  /\ At(t, "idle")
  /\ requests < MaxRequests
  /\ requests' = requests + 1
  /\ Goto(t, "create")
  /\ local' = [local EXCEPT ![t] = Locals(w, 0)]
  /\ verdict' = [verdict EXCEPT ![t] = "none"]
  /\ overlapped' = [u \in Threads |->
       IF u = t THEN \E o \in Threads : Busy(o) ELSE overlapped[u] \/ Busy(u)]
  /\ UNCHANGED shared

\* valid_verb_map = ht_create(16): every thread sees the table, empty as it is.
CreateMap(t) ==
  /\ At(t, "create")
  /\ arrays' = Append(arrays, EmptyArray(InitCap))
  /\ tables' = Append(tables,
       [entries |-> Len(arrays) + 1, capacity |-> InitCap, length |-> 0])
  /\ map' = Len(tables) + 1
  /\ local' = [local EXCEPT ![t].n = 1]
  /\ Goto(t, "next")
  /\ UNCHANGED <<freed, crashed, verdict, requests, overlapped>>

\* The loop of init_header_verb_list calls ht_set on whatever table is global now.
NextWord(t) ==
  /\ At(t, "next")
  /\ \/ local[t].n =< Len(Valid) /\ Goto(t, "set")
     \/ local[t].n > Len(Valid) /\ Goto(t, "get")
  /\ local' = [local EXCEPT ![t].table = map]
  /\ UNCHANGED <<shared, verdict, requests, overlapped>>

\* ht_set: does the table have to grow?
EnterSet(t) ==
  /\ At(t, "set")
  /\ Goto(t, IF Table(t).length >= Table(t).capacity \div 2 THEN "expand" ELSE "fetch")
  /\ UNCHANGED <<shared, local, verdict, requests, overlapped>>

\* ht_set hands the entries and the capacity to ht_set_entry.
FetchEntries(t) ==
  /\ At(t, "fetch")
  /\ local' = [local EXCEPT ![t].array = Table(t).entries, ![t].capacity = Table(t).capacity,
                            ![t].slot = HashIndex(Word(t), Table(t).capacity)]
  /\ Goto(t, "probe")
  /\ UNCHANGED <<shared, verdict, requests, overlapped>>

\* ht_set returns to the loop of init_header_verb_list.
SetReturns(t) ==
  /\ Goto(t, "next")
  /\ local' = [local EXCEPT ![t] = Locals(@.word, @.n + 1)]

\* One round of the probing loop of ht_set_entry.
ProbeSet(t) ==
  /\ At(t, "probe")
  /\ ~Astray(local[t].array, local[t].slot)
  /\ LET a == local[t].array
         s == local[t].slot
     IN \/ /\ arrays[a][s].key = NoWord
           /\ Goto(t, "count")
           /\ UNCHANGED <<arrays, local>>
        \/ /\ arrays[a][s].key = Word(t)
           /\ arrays' = [arrays EXCEPT ![a][s].stored = TRUE]
           /\ SetReturns(t)
        \/ /\ arrays[a][s].key \notin {NoWord, Word(t)}
           /\ local' = [local EXCEPT ![t].slot = NextSlot(s, local[t].capacity)]
           /\ UNCHANGED <<arrays, at>>
  /\ UNCHANGED <<map, tables, freed, crashed, verdict, requests, overlapped>>

\* (*plength)++ is a read and a write.
ReadLength(t) ==
  /\ At(t, "count")
  /\ local' = [local EXCEPT ![t].length = Table(t).length]
  /\ Goto(t, "length")
  /\ UNCHANGED <<shared, verdict, requests, overlapped>>

WriteLength(t) ==
  /\ At(t, "length")
  /\ tables' = [tables EXCEPT ![local[t].table].length = local[t].length + 1]
  /\ Goto(t, "key")
  /\ UNCHANGED <<map, arrays, freed, crashed, local, verdict, requests, overlapped>>

\* The slot was empty when the thread looked; it is overwritten whatever it holds now.
StoreKey(t) ==
  /\ At(t, "key")
  /\ ~Astray(local[t].array, local[t].slot)
  /\ arrays' = [arrays EXCEPT ![local[t].array][local[t].slot].key = Word(t)]
  /\ Goto(t, "value")
  /\ UNCHANGED <<map, tables, freed, crashed, local, verdict, requests, overlapped>>

\* Faulty variant of StoreValue: the value of a new key is not stored.
StoreNoValue(t) ==
  /\ At(t, "value")
  /\ ~Astray(local[t].array, local[t].slot)
  /\ SetReturns(t)
  /\ UNCHANGED <<shared, verdict, requests, overlapped>>

StoreValue(t) ==
  /\ At(t, "value")
  /\ ~Astray(local[t].array, local[t].slot)
  /\ arrays' = [arrays EXCEPT ![local[t].array][local[t].slot].stored = TRUE]
  /\ SetReturns(t)
  /\ UNCHANGED <<map, tables, freed, crashed, verdict, requests, overlapped>>

-----------------------------------------------------------------------------

\* ht_expand: calloc; the new array is this thread's own until it is published.
Expand(t) ==
  /\ At(t, "expand")
  /\ arrays' = Append(arrays, EmptyArray(2 * Table(t).capacity))
  /\ local' = [local EXCEPT ![t].array = Len(arrays) + 1,
                            ![t].capacity = 2 * Table(t).capacity, ![t].slot = 0]
  /\ Goto(t, "move")
  /\ UNCHANGED <<map, tables, freed, crashed, verdict, requests, overlapped>>

\* One round of its loop, over what the table holds at that moment.
Move(t) ==
  /\ At(t, "move")
  /\ local[t].slot < Table(t).capacity
  /\ local' = [local EXCEPT ![t].slot = @ + 1]
  /\ LET from  == arrays[Table(t).entries]
         entry == from[local[t].slot]
         a     == local[t].array
     IN \/ /\ Astray(Table(t).entries, local[t].slot) \/ entry.key = NoWord
           /\ UNCHANGED arrays
        \/ /\ local[t].slot \in DOMAIN from /\ entry.key # NoWord
           /\ arrays' = [arrays EXCEPT
                ![a][Place(arrays[a], local[t].capacity, entry.key)] = entry]
  /\ UNCHANGED <<map, tables, freed, crashed, at, verdict, requests, overlapped>>

\* Faulty variant of EndMove: the capacity is brought up to date first of all.
EndMoveCapacityFirst(t) ==
  /\ At(t, "move")
  /\ local[t].slot >= Table(t).capacity
  /\ tables' = [tables EXCEPT ![local[t].table].capacity = local[t].capacity]
  /\ Goto(t, "free")
  /\ UNCHANGED <<map, arrays, freed, crashed, local, verdict, requests, overlapped>>

EndMove(t) ==
  /\ At(t, "move")
  /\ local[t].slot >= Table(t).capacity
  /\ Goto(t, "free")
  /\ UNCHANGED <<shared, local, verdict, requests, overlapped>>

\* free(table->entries): the allocator aborts on an array that is free already.
FreeEntries(t) ==
  /\ At(t, "free")
  /\ \/ /\ Table(t).entries \notin freed
        /\ freed' = freed \union {Table(t).entries}
        /\ Goto(t, "entries")
        /\ UNCHANGED crashed
     \/ /\ Table(t).entries \in freed
        /\ crashed' = TRUE
        /\ UNCHANGED <<freed, at>>
  /\ UNCHANGED <<map, tables, arrays, local, verdict, requests, overlapped>>

PublishEntries(t) ==
  /\ At(t, "entries")
  /\ tables' = [tables EXCEPT ![local[t].table].entries = local[t].array]
  /\ Goto(t, "capacity")
  /\ UNCHANGED <<map, arrays, freed, crashed, local, verdict, requests, overlapped>>

PublishCapacity(t) ==
  /\ At(t, "capacity")
  /\ tables' = [tables EXCEPT ![local[t].table].capacity = local[t].capacity]
  /\ Goto(t, "fetch")
  /\ UNCHANGED <<map, arrays, freed, crashed, local, verdict, requests, overlapped>>

\* ht_set_entry works on an array that another thread has freed, or beyond the end of one
\* that is too small: what it reads there and what becomes of its stores is anybody's
\* guess, but no table changes.
SetAstray(t) ==
  /\ at[t] \in {"probe", "key", "value"} /\ ~crashed
  /\ Astray(local[t].array, local[t].slot)
  /\ \/ SetReturns(t)
     \/ at[t] = "probe" /\ Goto(t, "count") /\ UNCHANGED local
  /\ UNCHANGED <<shared, verdict, requests, overlapped>>

-----------------------------------------------------------------------------

\* ht_get, on whatever table is global by now.
EnterGet(t) ==
  /\ At(t, "get")
  /\ local' = [local EXCEPT ![t].slot = HashIndex(local[t].word, Table(t).capacity)]
  /\ Goto(t, "look")
  /\ UNCHANGED <<shared, verdict, requests, overlapped>>

Answer(t, v) ==
  /\ verdict' = [verdict EXCEPT ![t] = v]
  /\ Goto(t, "idle")
  /\ local' = [local EXCEPT ![t] = Locals(@.word, 0)]

\* Faulty variant of Look: the loop does not go on to the next slot.
LookStays(t) ==
  /\ At(t, "look")
  /\ ~Astray(Table(t).entries, local[t].slot)
  /\ LET entry == arrays[Table(t).entries][local[t].slot]
     IN \/ /\ entry.key = NoWord
           /\ Answer(t, "not_allowed")
        \/ /\ entry.key = local[t].word
           /\ Answer(t, IF entry.stored THEN "valid" ELSE "not_allowed")
        \/ /\ entry.key \notin {NoWord, local[t].word}
           /\ UNCHANGED <<local, at, verdict>>
  /\ UNCHANGED <<shared, requests, overlapped>>

\* One round of its probing loop: a key without its value is not found either.
Look(t) ==
  /\ At(t, "look")
  /\ ~Astray(Table(t).entries, local[t].slot)
  /\ LET entry == arrays[Table(t).entries][local[t].slot]
     IN \/ /\ entry.key = NoWord
           /\ Answer(t, "not_allowed")
        \/ /\ entry.key = local[t].word
           /\ Answer(t, IF entry.stored THEN "valid" ELSE "not_allowed")
        \/ /\ entry.key \notin {NoWord, local[t].word}
           /\ local' = [local EXCEPT ![t].slot = NextSlot(@, Table(t).capacity)]
           /\ UNCHANGED <<at, verdict>>
  /\ UNCHANGED <<shared, requests, overlapped>>

\* The array is being replaced, or is smaller than the table says: the thread reads
\* memory that is not the table's.
LookAstray(t) ==
  /\ At(t, "look")
  /\ Astray(Table(t).entries, local[t].slot)
  /\ \E v \in {"valid", "not_allowed"} : Answer(t, v)
  /\ UNCHANGED <<shared, requests, overlapped>>

-----------------------------------------------------------------------------

Step(t) ==
  \/ CreateMap(t) \/ NextWord(t) \/ EnterSet(t) \/ FetchEntries(t) \/ ProbeSet(t)
  \/ ReadLength(t) \/ WriteLength(t) \/ StoreKey(t) \/ StoreValue(t)
  \/ Expand(t) \/ Move(t) \/ EndMove(t) \/ FreeEntries(t)
  \/ PublishEntries(t) \/ PublishCapacity(t) \/ SetAstray(t)
  \/ EnterGet(t) \/ Look(t) \/ LookAstray(t)

MapNext == \E t \in Threads : Step(t) \/ \E w \in Words : Start(t, w)

MapSpec == MapInit /\ [][MapNext]_mapVars

-----------------------------------------------------------------------------

RightVerdict(w) == IF w \in ValidWords THEN "valid" ELSE "not_allowed"

\* A request gets the wrong answer only if another one was under way: nothing that
\* earlier races have done to tables and arrays, or left half done, is felt later.
RightWhenAlone ==
  \A t \in Threads :
    at[t] = "idle" /\ verdict[t] # "none" /\ ~overlapped[t] =>
      verdict[t] = RightVerdict(local[t].word)

\* The capacity the code asks for is enough: a table grows, and an array is freed,
\* only when several threads have counted the same words.
GrowsOnlyInRaces ==
  \A t \in Threads :
    at[t] \in {"expand", "move", "free", "entries", "capacity"} => overlapped[t]

\* "AND hash with capacity-1 to ensure it's within entries array" (ht.c:69, ht.c:91): a
\* thread that works on an array not yet freed stays within it.  Entries and capacity are
\* read and written at different times: that does no harm to two threads, but a third one
\* may read the capacity of one expansion and the entries of another, smaller one.
Within(a, s) == a \in freed \/ s \in DOMAIN arrays[a]

WithinFor(t) ==
  /\ at[t] \in {"probe", "key", "value"} => Within(local[t].array, local[t].slot)
  /\ at[t] = "look" => Within(Table(t).entries, local[t].slot)

WithinEntries == \A t \in Threads : WithinFor(t)

\* Of two threads: tables grow, and arrays are freed, only in races, and a thread that
\* works on an array that is not freed stays within it (ht.c:67-149).
ArraysRight ==
  /\ MapTypeOK
  /\ GrowsOnlyInRaces
  /\ WithinEntries

\* Every request comes to its verdict, unless the process aborts: no race fills a
\* table up, and makes the probing loops go round for ever.
CheckReturns ==
  \A t \in Threads : at[t] = "create" ~> (verdict[t] # "none" \/ crashed)

\* "Initializes and fills the structure, returns ERROR CODES as defined, HEADER_OK (0)
\* if all good" (http_header.c:41): a valid verb or version is good.
ValidAccepted ==
  \A t \in Threads :
    local[t].word \in ValidWords => verdict[t] # "not_allowed"

-----------------------------------------------------------------------------

\* What the proofs suppose of the constants: & (c - 1) stays below c, and the capacities
\* that the code asks for are at least twice the number of words.
IndexInside ==
  \A w \in Words \union ValidWords : \A c \in Nat \ {0} : HashIndex(w, c) \in 0..(c - 1)

RoomForAll == 2 * Len(Valid) =< InitCap

TwoThreads == IsFiniteSet(Threads) /\ Cardinality(Threads) =< 2

Filling   == {"set", "fetch", "probe", "count", "length", "key", "value"}
Expanding == {"move", "free", "entries", "capacity"}

\* The slots that a search which began at slot h of a table as it was made has seen when
\* it comes to slot s.
Passed(h, s) == IF h =< s THEN h..(s - 1) ELSE h..(InitCap - 1) \union 0..(s - 1)

\* Every key of the entries e has its value, but for the one in slot open (there is none
\* in slot InitCap), and is found by a search that begins at its hash.
EntriesInOrder(e, open) ==
  /\ e \in [0..(InitCap - 1) -> Entry]
  /\ \A s \in 0..(InitCap - 1) : e[s].key # NoWord =>
       /\ s # open => e[s].stored
       /\ \A j \in Passed(HashIndex(e[s].key, InitCap), s) : e[j].key # NoWord

\* A search for w has come to slot s of the entries e.
Searching(e, w, s) ==
  /\ s \in 0..(InitCap - 1)
  /\ \A j \in Passed(HashIndex(w, InitCap), s) : e[j].key \notin {NoWord, w}

\* What a thread at p with l in its hands sees in table m, which is table and has the
\* entries e: the first words of the list are there, the others are not counted, and what
\* it holds in its hands is what is there.
Order(p, l, m, table, e) ==
  LET w == Valid[l.n]
  IN /\ l.n \in 1..(Len(Valid) + 1)
     /\ p \in Filling => l.n # Len(Valid) + 1
     /\ p \in {"get", "look"} => l.n = Len(Valid) + 1
     /\ table.length =< IF p \in {"key", "value"} THEN l.n ELSE l.n - 1
     /\ EntriesInOrder(e, IF p = "value" THEN l.slot ELSE InitCap)
     /\ \A k \in 1..(l.n - 1) : \E s \in 0..(InitCap - 1) : e[s].key = Valid[k]
     /\ p # "next" => l.table = m
     /\ p \in {"probe", "count", "length", "key", "value"} =>
          /\ l.array = table.entries
          /\ l.capacity = InitCap
          /\ l.slot \in 0..(InitCap - 1)
     /\ p \in {"probe", "count", "length", "key"} => Searching(e, w, l.slot)
     /\ p \in {"count", "length", "key"} => e[l.slot].key = NoWord
     /\ p = "length" => l.length = table.length
     /\ p = "value" => e[l.slot].key = w
     /\ p = "look" => Searching(e, l.word, l.slot)

\* A thread that works alone works on the table it made, which has not grown.
InOrder(t) ==
  LET table == tables[map]
  IN /\ map \in 1..Len(tables)
     /\ table.entries \in (1..Len(arrays)) \ freed
     /\ table.capacity = InitCap
     /\ Order(at[t], local[t], map, table, arrays[table.entries])

\* The inductive invariant of a request that no other one has overlapped.
Alone(t) ==
  Busy(t) /\ ~overlapped[t] =>
    /\ \A u \in Threads \ {t} : ~Busy(u)
    /\ local[t].word \in Words
    /\ at[t] \in {"create", "next", "get", "look"} \union Filling
    /\ at[t] # "create" => InOrder(t)

AloneInv == \A t \in Threads : Alone(t)

\* Thread t may yet count word k in table m.
MayCount(t, k, m) ==
  \/ at[t] = "next" /\ m = map /\ k >= local[t].n
  \/ /\ at[t] \in Filling \union Expanding \union {"expand"}
     /\ m \in {map, local[t].table}
     /\ IF at[t] \in {"key", "value"} THEN k > local[t].n ELSE k >= local[t].n

Pending(m) == {p \in Threads \X (1..Len(Valid)) : MayCount(p[1], p[2], m)}

\* No table counts a word more than once for each thread.
AllWords == Cardinality(Threads) * Len(Valid)

CountInv ==
  /\ \A m \in 1..Len(tables) : tables[m].length + Cardinality(Pending(m)) =< AllWords
  /\ \A t \in Threads : at[t] = "length" =>
       local[t].length + Cardinality(Pending(local[t].table)) =< AllWords

Slots(c) == 0..(c - 1)

\* A table has not grown, or at least once, and its entries are not fewer than its capacity.
TableFits(m) ==
  /\ tables[m].capacity = InitCap \/ tables[m].capacity >= 2 * InitCap
  /\ Slots(tables[m].capacity) \subseteq DOMAIN arrays[tables[m].entries]

\* The array a thread is to publish is no smaller than what its table has now, and the
\* slot it is at is within the array it has, or the capacity of its table.
ThreadFits(t) ==
  /\ at[t] \in Expanding =>
       /\ Slots(local[t].capacity) \subseteq DOMAIN arrays[local[t].array]
       /\ 2 * InitCap =< local[t].capacity
       /\ Table(t).capacity =< local[t].capacity
       /\ local[t].capacity =< 2 * Table(t).capacity
  /\ at[t] = "capacity" =>
       Slots(local[t].capacity) \subseteq DOMAIN arrays[Table(t).entries]
  /\ at[t] \in {"probe", "count", "length", "key", "value"} =>
       /\ Slots(local[t].capacity) \subseteq DOMAIN arrays[local[t].array]
       /\ local[t].slot \in Slots(local[t].capacity)
  /\ at[t] = "look" => local[t].slot \in Slots(Table(t).capacity)

\* Two threads that are about to expand one table double the same capacity.
PairFits(t, u) ==
  t # u /\ local[t].table = local[u].table =>
    /\ at[t] = "expand" /\ at[u] \in Expanding \union {"expand"} =>
         Table(t).capacity = InitCap
    /\ at[t] \in Expanding /\ at[u] \in Expanding =>
         local[t].capacity = local[u].capacity

\* The inductive invariant of two threads.
PairInv ==
  /\ \A m \in 1..Len(tables) : TableFits(m)
  /\ \A t \in Threads : ThreadFits(t)
  /\ \A t, u \in Threads : PairFits(t, u)

=============================================================================
