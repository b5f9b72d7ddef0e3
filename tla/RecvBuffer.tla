----------------------------- MODULE RecvBuffer -----------------------------
(***************************************************************************)
(* client_message of thread in server.c: an array on the thread's stack    *)
(* that nothing clears.  recv writes as many bytes as have come and no     *)
(* NUL behind them; analyze_method takes what it finds up to the first     *)
(* NUL.  A stack that a thread leaves is given to a later thread, with     *)
(* what is in it, or is cleared by the kernel in between.                  *)
(***************************************************************************)
EXTENDS Integers, Sequences, FiniteSetsExt

CONSTANTS
  MAX_WRITE_SIZE,   \* bytes of the array
  MaxMessages       \* bound: messages received in it

\* What is assumed of the constants.
RecvBufferAssumption ==
  MAX_WRITE_SIZE \in Nat \ {0} /\ MaxMessages \in Nat

VARIABLES
  client_message,   \* for each byte the message it belongs to, 0 for NUL
  received,         \* ghost: the lengths of the messages received since it was cleared
  seen,             \* what analyze_method takes for the message, byte by byte
  running           \* a thread has the stack

bufferVars == <<client_message, received, seen, running>>

Bytes == 1..MAX_WRITE_SIZE

BufferTypeOK ==
  /\ client_message \in [Bytes -> 0..MaxMessages]
  /\ received \in Seq(Bytes)
  /\ Len(received) =< MaxMessages
  /\ seen \in Seq(1..MaxMessages)
  /\ running \in BOOLEAN

BufferInit ==
  /\ client_message = [b \in Bytes |-> 0]
  /\ received = <<>>
  /\ seen = <<>>
  /\ running = FALSE

StartThread ==
  /\ ~running
  /\ running' = TRUE
  /\ UNCHANGED <<client_message, received, seen>>

Clear ==
  /\ ~running
  /\ client_message' = [b \in Bytes |-> 0]
  /\ received' = <<>>
  /\ seen' = <<>>
  /\ UNCHANGED running

EndThread ==
  /\ running
  /\ running' = FALSE
  /\ UNCHANGED <<client_message, received, seen>>

\* What strlen finds in the array.  Without a NUL it goes on behind it, where there is
\* the rest of the frame: that is left out.
StrLen(message) ==
  Min({b - 1 : b \in {b \in Bytes : message[b] = 0}} \union {MAX_WRITE_SIZE})

\* Faulty variant of Receive: a message goes behind what is there.
ReceiveBehind(length) ==
  /\ running
  /\ Len(received) < MaxMessages
  /\ received' = Append(received, length)
  /\ client_message' = [b \in Bytes |->
       IF b \in (StrLen(client_message) + 1)..(StrLen(client_message) + length)
       THEN Len(received) + 1 ELSE client_message[b]]
  /\ seen' = [b \in 1..StrLen(client_message') |-> client_message'[b]]
  /\ UNCHANGED running

\* recv, and the array as analyze_method gets it.
Receive(length) ==
  /\ running
  /\ Len(received) < MaxMessages
  /\ received' = Append(received, length)
  /\ client_message' = [b \in Bytes |-> IF b =< length THEN Len(received) + 1
                                        ELSE client_message[b]]
  /\ seen' = [b \in 1..StrLen(client_message') |-> client_message'[b]]
  /\ UNCHANGED running

BufferNext ==
  \/ StartThread \/ Clear \/ EndThread
  \/ \E length \in Bytes : Receive(length)

BufferSpec == BufferInit /\ [][BufferNext]_bufferVars

-----------------------------------------------------------------------------

\* The message that is analysed is the one that was received, and behind it, byte for
\* byte, what is left of the longest of those before it in the same stack, of whatever
\* client: it is just what was sent only if none of them was longer.
SeesLongest ==
  received # <<>> =>
    /\ Len(seen) = Max({received[m] : m \in DOMAIN received})
    /\ \A b \in DOMAIN seen :
         seen[b] = Max({m \in DOMAIN received : received[m] >= b})

\* What analyze_method is given is the message that recv has written and the rest of longer
\* ones (server.c:129).
MessageSeen ==
  /\ BufferTypeOK
  /\ SeesLongest

=============================================================================
