----------------------------- MODULE Dictionary -----------------------------
(***************************************************************************)
(* What ht.h promises the users of a hash table: a dictionary that can run *)
(* out of memory, with an iterator that visits every key once.             *)
(***************************************************************************)
EXTENDS Naturals, FiniteSets

CONSTANTS Keys, Values, None

VARIABLES
  exists,   \* the table has been created and not yet destroyed
  dict,     \* dict[k]: the value of k, or None
  walking,  \* an iteration is under way
  visited,  \* the keys it has visited
  ret       \* what the last call returned

dvars == <<exists, dict, walking, visited, ret>>

EmptyDict == [k \in Keys |-> None]

Present == {k \in Keys : dict[k] # None}

Returns(op, key, out) == ret' = [op |-> op, key |-> key, out |-> out]

DictInit ==
  /\ exists = FALSE
  /\ dict = EmptyDict
  /\ walking = FALSE
  /\ visited = {}
  /\ ret = [op |-> "none", key |-> None, out |-> None]

New ==
  /\ ~exists
  /\ exists' = TRUE
  /\ Returns("create", None, None)
  /\ UNCHANGED <<dict, walking, visited>>

NewFails ==
  /\ ~exists
  /\ Returns("no_table", None, None)
  /\ UNCHANGED <<exists, dict, walking, visited>>

Drop ==
  /\ exists /\ ~walking
  /\ exists' = FALSE
  /\ dict' = EmptyDict
  /\ Returns("destroy", None, None)
  /\ UNCHANGED <<walking, visited>>

Put(k, v) ==
  /\ exists /\ ~walking
  /\ dict' = [dict EXCEPT ![k] = v]
  /\ Returns("set", k, k)
  /\ UNCHANGED <<exists, walking, visited>>

\* Out of memory: the dictionary is as it was, whatever the table was doing.
PutFails(k) ==
  /\ exists /\ ~walking
  /\ Returns("set", k, None)
  /\ UNCHANGED <<exists, dict, walking, visited>>

Lookup(k) ==
  /\ exists /\ ~walking
  /\ Returns("get", k, dict[k])
  /\ UNCHANGED <<exists, dict, walking, visited>>

Size ==
  /\ exists /\ ~walking
  /\ Returns("length", None, Cardinality(Present))
  /\ UNCHANGED <<exists, dict, walking, visited>>

StartWalk ==
  /\ exists /\ ~walking
  /\ walking' = TRUE
  /\ visited' = {}
  /\ UNCHANGED <<exists, dict, ret>>

Visit(k) ==
  /\ walking
  /\ k \in Present \ visited
  /\ visited' = visited \union {k}
  /\ Returns("next", k, dict[k])
  /\ UNCHANGED <<exists, dict, walking>>

EndWalk ==
  /\ walking
  /\ Present \subseteq visited
  /\ walking' = FALSE
  /\ visited' = {}
  /\ Returns("end", None, None)
  /\ UNCHANGED <<exists, dict>>

DictNext ==
  \/ New \/ NewFails \/ Drop \/ Size \/ StartWalk \/ EndWalk
  \/ \E k \in Keys : PutFails(k) \/ Lookup(k) \/ Visit(k)
  \/ \E k \in Keys, v \in Values : Put(k, v)

DictSpec == DictInit /\ [][DictNext]_dvars
=============================================================================
