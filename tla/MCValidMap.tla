----------------------------- MODULE MCValidMap -----------------------------
(***************************************************************************)
(* Instances of ValidMap for TLC: the two lists of http_header.c, with the *)
(* slots that FNV-1a gives their words in the tables they are kept in.     *)
(***************************************************************************)
EXTENDS ValidMap, TLC

CONSTANTS GET, POST, PUT, PATCH, DELETE, V10, V11, V12, Other

Verbs    == <<GET, POST, PUT, PATCH, DELETE>>
Versions == <<V10, V11>>

Symmetry == Permutations(Threads)

\* The low five bits of hash_key, for tables of up to 32 slots.  V12 ("1.2") is
\* on no list, nor is Other, a word that shares the slot of GET and POST, or of "1.1".
Low == [w \in Words \union ValidWords |->
  CASE w = GET -> 23 [] w = POST -> 7 [] w = PUT -> 14 [] w = PATCH -> 9 [] w = DELETE -> 10
    [] w = V10 -> 2 [] w = V11 -> 5 [] w = V12 -> 12
    [] OTHER -> IF V11 \in ValidWords THEN 1 ELSE 7]

Slot(w, c) == Low[w] % c

\* Behaviours in which all requests have made the table before any of them goes on.
Gathering == requests < MaxRequests \/ \E t \in Threads : at[t] = "create"

TogetherSpec ==
  MapInit /\ [][MapNext /\ (Gathering => requests' + map' > requests + map)]_mapVars
=============================================================================
