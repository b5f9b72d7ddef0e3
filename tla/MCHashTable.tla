----------------------------- MODULE MCHashTable -----------------------------
(***************************************************************************)
(* Instances of HashTable for TLC: hashes of W bits, chosen so that keys   *)
(* share their first slot in the small arrays and part in the larger ones, *)
(* and so that probing wraps around the end.                               *)
(***************************************************************************)
EXTENDS HashTable, Integers, Bitwise, Sequences

CONSTANTS W, k1, k2, k3

Hash == [k \in Keys |-> CASE k = k1 -> 7 [] k = k2 -> 3 [] k = k3 -> 11]

\* (uint64_t)(capacity - 1) wraps to all ones when the capacity is 0.
Masked(k, c) == Hash[k] & ((c - 1) % (2^W))
=============================================================================
