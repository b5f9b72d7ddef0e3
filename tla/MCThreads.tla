----------------------------- MODULE MCThreads -----------------------------
(***************************************************************************)
(* Memory that threads share without a lock, for TLC: three systems that   *)
(* have nothing to do with each other, of which a behaviour is one.  part  *)
(* says which: the scripts (LuaRun), the array that one thread leaves to   *)
(* another (RecvBuffer), or the select server (SelectServer).              *)
(***************************************************************************)
EXTENDS LuaRun, RecvBuffer, SelectServer

VARIABLE part

ASSUME RecvBufferAssumption /\ SelectServerAssumption /\ EnoughFds

allVars == <<part, vars, bufferVars, selectVars>>

\* Of the responses to earlier requests the longest and none are enough: the others show
\* less of what the longest leaves behind.
ThreadsInit ==
  /\ part \in {"scripts", "buffer", "select"}
  /\ Init /\ BufferInit /\ SelectInit
  /\ response_buffer[1] = NUL \/ response_buffer[BufferCells - 1] = NoThread
  /\ part # "scripts" => rows = 0 /\ response_buffer[1] = NUL

ThreadsNext ==
  /\ UNCHANGED part
  /\ \/ part = "scripts" /\ Next   /\ UNCHANGED <<bufferVars, selectVars>>
     \/ part = "buffer"  /\ BufferNext /\ UNCHANGED <<vars, selectVars>>
     \/ part = "select"  /\ SelectNext /\ UNCHANGED <<vars, bufferVars>>

ThreadsSpec ==
  /\ ThreadsInit /\ [][ThreadsNext]_allVars
  /\ WF_allVars(part = "select" /\ Main /\ UNCHANGED <<part, vars, bufferVars>>)
  /\ \A t \in SelectThreads :
       WF_allVars(part = "select" /\ Thread(t) /\ UNCHANGED <<part, vars, bufferVars>>)

-----------------------------------------------------------------------------

Call(script, args, nargs) == [script |-> script, args |-> args, nargs |-> nargs]

Pairs(n) == [k \in 1..n |-> "pair"]

\* Calls as the scripts want them, and with parameters that were given twice.
SomeCalls ==
  {Call("GET_default", <<>>, 0),
   Call("GET_testforme", Pairs(4), 4),
   Call("DELETE_testforme", Pairs(4), 4),
   Call("DELETE_testforme", Pairs(3), 4),
   Call("DELETE_testforme", Pairs(2), 4),
   Call("DELETE_testforme", Pairs(2), 2),
   Call("POST_testforme", <<"object">>, 1),
   Call("POST_testforme", <<"nested">>, 1),
   Call("PUT_testforme", <<"object", "pair", "pair">>, 3),
   Call("none", <<>>, 0)}

\* An error is said at more length than success; neither fills the buffer of four cells.
ResponseLength ==
  [a \in Answers |-> CASE a = "exception" -> 3 [] a = "long_rows" -> 4 [] OTHER -> 2]

SelectNumbers == 1..3
=============================================================================
