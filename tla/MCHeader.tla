------------------------------ MODULE MCHeader ------------------------------
(***************************************************************************)
(* The two halves of the header parser that have no state in common, for   *)
(* TLC: what analyze_method makes of one message (AnalyzeMethod), and the   *)
(* tables of valid words that all requests share (ValidMap).  part says    *)
(* which of the two a behaviour is one of.                                 *)
(***************************************************************************)
EXTENDS MCAnalyzeMethod, MCValidMap

VARIABLE part

headerVars == <<part, vars, mapVars>>

HeaderInit == part \in {"message", "words"} /\ Init /\ MapInit

MapStep(t) == part = "words" /\ Step(t) /\ UNCHANGED <<part, vars>>

HeaderNext ==
  \/ part = "message" /\ Next /\ UNCHANGED <<part, mapVars>>
  \/ part = "words" /\ MapNext /\ UNCHANGED <<part, vars>>

\* The scheduler runs every thread that can run.
HeaderSpec ==
  /\ HeaderInit /\ [][HeaderNext]_headerVars
  /\ \A t \in Threads : WF_headerVars(MapStep(t))
=============================================================================
