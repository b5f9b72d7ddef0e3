---------------------------- MODULE MCConnServer ----------------------------
(***************************************************************************)
(* Instances of ConnServer for TLC.  Connections, threads and descriptors  *)
(* are interchangeable, so the safety runs use their permutations as the   *)
(* symmetry set.                                                           *)
(***************************************************************************)
EXTENDS ConnServer, TLC

Symmetry == Permutations(Conns) \union Permutations(Threads) \union Permutations(Fds)
=============================================================================
