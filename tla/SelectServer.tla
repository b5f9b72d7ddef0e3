---------------------------- MODULE SelectServer ----------------------------
(***************************************************************************)
(* The older server of examples/ncapi.c: one loop around select, and for   *)
(* each message a thread that leaves its reply in the slot of the client,  *)
(* for the loop to write.  The loop and the threads share the slots and,   *)
(* since all threads are passed the address of the same variable, their    *)
(* arguments; there is no lock.  Threads read and write one field at a     *)
(* time; main tests a slot, and writes what is in it, in one step each.  A *)
(* connection can always be written to, and there is always a thread and a *)
(* descriptor to be had.                                                   *)
(***************************************************************************)
EXTENDS Integers, Sequences, FiniteSetsExt

CONSTANTS
  Clients,      \* numbers: they connect in this order, once, and ask at most once
  NoClient,
  SelectThreads,  \* numbers, for the same reason: which one it is does not matter
  CLIENT_SIZE,  \* the number of slots
  MaxFd,        \* bound: descriptors
  Leavers       \* the clients that may leave before they have a reply

\* What is assumed of the constants.
SelectServerAssumption ==
  /\ Clients \subseteq Nat /\ SelectThreads \subseteq Nat
  /\ CLIENT_SIZE \in Nat \ {0}
  /\ MaxFd \in Nat \ {0}
  /\ NoClient \notin Clients
  /\ Leavers \subseteq Clients

VARIABLES
  client,         \* "new", "open", "left" or "done"
  asked,          \* the clients that have sent their message
  inbox,          \* the clients whose message is not read
  got,            \* what a client was sent
  backlog,
  fdt,            \* the client that a descriptor leads to
  main, i, j, sd, \* main: its loop over the slots, the one inside it, the socket
  client_socket,  \* the descriptor of each slot, or 0
  address,        \* of the client that was last accepted or has last left
  readfds, writefds, acceptable,   \* what select left in the sets
  msgArg,         \* the arguments of every thread
  ret_sd, finished_work, write_buffer,   \* _ret_queue, by slot
  tpc, arg,       \* threads: where they are, what they have read of msgArg
  for,            \* ghost: the client for whose message a thread was started
  overlap,        \* ghost: a message was read before the thread of another had ended
  company         \* ghost: a client has connected before another was done

clients    == <<client, asked, inbox, got, company>>
kernel     == <<backlog, fdt>>
local      == <<i, j, sd>>
slots      == <<client_socket, address>>
selected   == <<readfds, writefds, acceptable>>
_ret_queue == <<ret_sd, finished_work, write_buffer>>
threads    == <<tpc, arg, for, overlap>>
selectVars == <<clients, kernel, main, local, slots, selected, msgArg, _ret_queue, threads>>

-----------------------------------------------------------------------------

Slots == 0..(CLIENT_SIZE - 1)
Fds   == 1..MaxFd
Ports == Clients \union {NoClient}

\* What a thread writes: the socket and the port that it has read.
Buffers == [state : {"NULL", "uninitialised", "written"}, for : Ports, sd : 0..MaxFd,
            port : Ports]

NULL == [state |-> "NULL", for |-> NoClient, sd |-> 0, port |-> NoClient]

Args == [sd : 0..MaxFd, slot : Slots, port : Ports]

NoArg == [sd |-> 0, slot |-> 0, port |-> NoClient]

SelectTypeOK ==
  /\ client \in [Clients -> {"new", "open", "left", "done"}]
  /\ inbox \subseteq asked /\ asked \subseteq Clients
  /\ got \in [Clients -> Buffers]
  /\ backlog \in Seq(Clients)
  /\ fdt \in [Fds -> Clients \union {NoClient}]
  /\ main \in {"select", "accept", "read", "create", "test", "flush"}
  /\ i \in Slots /\ j \in Slots /\ sd \in 0..MaxFd
  /\ client_socket \in [Slots -> 0..MaxFd]
  /\ address \in Ports
  /\ readfds \subseteq Fds /\ writefds \subseteq Fds /\ acceptable \in BOOLEAN
  /\ msgArg \in Args
  /\ ret_sd \in [Slots -> 0..MaxFd]
  /\ finished_work \in [Slots -> BOOLEAN]
  /\ write_buffer \in [Slots -> Buffers]
  /\ tpc \in [SelectThreads -> {"none", "sd", "slot", "start", "mark", "alloc", "copy",
                          "finish", "gone"}]
  /\ arg \in [SelectThreads -> Args]
  /\ for \in [SelectThreads -> Ports]
  /\ overlap \in BOOLEAN /\ company \in BOOLEAN

SelectInit ==
  /\ client = [c \in Clients |-> "new"]
  /\ asked = {}
  /\ inbox = {}
  /\ got = [c \in Clients |-> NULL]
  /\ backlog = <<>>
  /\ fdt = [f \in Fds |-> NoClient]
  /\ main = "select" /\ i = 0 /\ j = 0 /\ sd = 0
  /\ client_socket = [s \in Slots |-> 0]
  /\ address = NoClient
  /\ readfds = {} /\ writefds = {} /\ acceptable = FALSE
  /\ msgArg = NoArg
  /\ ret_sd = [s \in Slots |-> 0]
  /\ finished_work = [s \in Slots |-> TRUE]
  /\ write_buffer = [s \in Slots |-> NULL]
  /\ tpc = [t \in SelectThreads |-> "none"]
  /\ arg = [t \in SelectThreads |-> NoArg]
  /\ for = [t \in SelectThreads |-> NoClient]
  /\ overlap = FALSE /\ company = FALSE

-----------------------------------------------------------------------------
(***************************************************************************)
(* Clients.                                                                *)
(***************************************************************************)

server == <<main, local, slots, selected, msgArg, _ret_queue, threads>>

Arrive(c) ==
  /\ client[c] = "new"
  /\ \A d \in Clients : d < c => client[d] # "new"
  /\ company' = (company \/ \E d \in Clients : client[d] = "open")
  /\ client' = [client EXCEPT ![c] = "open"]
  /\ backlog' = Append(backlog, c)
  /\ UNCHANGED <<asked, inbox, got, fdt, server>>

Ask(c) ==
  /\ client[c] = "open"
  /\ c \notin asked
  /\ asked' = asked \union {c}
  /\ inbox' = inbox \union {c}
  /\ UNCHANGED <<client, got, company, kernel, server>>

Leave(c) ==
  /\ c \in Leavers
  /\ client[c] = "open"
  /\ client' = [client EXCEPT ![c] = "left"]
  /\ UNCHANGED <<asked, inbox, got, company, kernel, server>>

-----------------------------------------------------------------------------
(***************************************************************************)
(* main.                                                                   *)
(***************************************************************************)

Open == {f \in Fds : fdt[f] # NoClient}

Watched == {client_socket[s] : s \in Slots} \ {0}

Readable == {f \in Watched \intersect Open : fdt[f] \in inbox \/ client[fdt[f]] = "left"}

\* With a closed descriptor in the sets select fails and leaves them as they are:
\* everything looks ready.
Select ==
  /\ main = "select"
  /\ IF Watched \subseteq Open
     THEN /\ Watched # {} \/ backlog # <<>>
          /\ readfds' = Readable
          /\ acceptable' = (backlog # <<>>)
     ELSE /\ readfds' = Watched
          /\ acceptable' = TRUE
  /\ writefds' = Watched
  /\ main' = "accept"
  /\ UNCHANGED <<clients, kernel, local, slots, msgArg, _ret_queue, threads>>

FreeSlots == {s \in Slots : client_socket[s] = 0}

\* After a select that failed accept waits for a client.  Without a free slot the new
\* descriptor is forgotten.
Accept ==
  /\ main = "accept"
  /\ i' = 0
  /\ main' = "read"
  /\ IF acceptable
     THEN /\ backlog # <<>>
          /\ LET f == Min(Fds \ Open)
             IN /\ fdt' = [fdt EXCEPT ![f] = Head(backlog)]
                /\ client_socket' = IF FreeSlots = {} THEN client_socket
                                    ELSE [client_socket EXCEPT ![Min(FreeSlots)] = f]
          /\ address' = Head(backlog)
          /\ backlog' = Tail(backlog)
     ELSE UNCHANGED <<kernel, slots>>
  /\ UNCHANGED <<clients, j, sd, selected, msgArg, _ret_queue, threads>>

\* Back to select.  What is not used before it is set again is reset.
Again ==
  /\ main' = "select"
  /\ i' = 0 /\ j' = 0 /\ sd' = 0
  /\ readfds' = {} /\ writefds' = {} /\ acceptable' = FALSE

\* The loop over the slots, for one with nothing to read or with a closed descriptor.
NoRead ==
  /\ main = "read"
  /\ client_socket[i] \notin readfds \intersect Open
  /\ \/ /\ client_socket[i] \in writefds
        /\ main' = "test"
        /\ UNCHANGED <<local, selected>>
     \/ /\ client_socket[i] \notin writefds
        /\ IF i < CLIENT_SIZE - 1 THEN i' = i + 1 /\ UNCHANGED <<main, j, sd, selected>>
           ELSE Again
  /\ UNCHANGED <<clients, kernel, slots, msgArg, _ret_queue, threads>>

ReadMessage ==
  /\ main = "read"
  /\ sd' = client_socket[i]
  /\ sd' \in readfds \intersect Open
  /\ fdt[sd'] \in inbox
  /\ inbox' = inbox \ {fdt[sd']}
  /\ msgArg' = [msgArg EXCEPT !.sd = sd']
  /\ overlap' = (overlap \/ \E t \in SelectThreads : tpc[t] \notin {"none", "gone"})
  /\ main' = "create"
  /\ UNCHANGED <<client, asked, got, company, kernel, i, j, slots, selected, _ret_queue, tpc,
                 arg, for>>

\* The rest of the arguments, with the port that address holds by now.
Create(t) ==
  /\ main = "create"
  /\ tpc[t] = "none"
  /\ \A u \in SelectThreads : u < t => tpc[u] # "none"
  /\ msgArg' = [msgArg EXCEPT !.slot = i, !.port = address]
  /\ tpc' = [tpc EXCEPT ![t] = "sd"]
  /\ for' = [for EXCEPT ![t] = fdt[sd]]
  /\ main' = "test"
  /\ UNCHANGED <<clients, kernel, local, slots, selected, _ret_queue, arg, overlap>>

\* Whatever thread is at work for the slot.  write_buffer stays.  getpeername leaves the
\* address of who has gone where that of the last accepted client was.
ReadEof ==
  /\ main = "read"
  /\ sd' = client_socket[i]
  /\ sd' \in readfds \intersect Open
  /\ fdt[sd'] \notin inbox
  /\ client[fdt[sd']] = "left"
  /\ address' = fdt[sd']
  /\ fdt' = [fdt EXCEPT ![sd'] = NoClient]
  /\ client_socket' = [client_socket EXCEPT ![i] = 0]
  /\ ret_sd' = [ret_sd EXCEPT ![i] = 0]
  /\ finished_work' = [finished_work EXCEPT ![i] = TRUE]
  /\ main' = "test"
  /\ UNCHANGED <<clients, backlog, i, j, selected, msgArg, write_buffer, threads>>

\* The loop inside counts with the same i: the outer one ends with it.
EndInner ==
  IF j < CLIENT_SIZE - 1
  THEN j' = j + 1 /\ main' = "test" /\ UNCHANGED <<i, sd, selected>>
  ELSE Again

\* _ret_queue->finished_work is that of slot 0, whatever the slot.
Ready == ret_sd[j] > 0 /\ finished_work[0] /\ write_buffer[j].state # "NULL"

Test ==
  /\ main = "test"
  /\ IF Ready THEN main' = "flush" /\ UNCHANGED <<local, selected>> ELSE EndInner
  /\ UNCHANGED <<clients, kernel, slots, msgArg, _ret_queue, threads>>

\* Faulty variant of Flush: the slot keeps its socket.
FlushKeepsSocket ==
  /\ main = "flush"
  /\ LET f == ret_sd[j]
         c == IF f \in Open THEN fdt[f] ELSE NoClient
     IN /\ fdt' = [k \in Fds |-> IF k = f THEN NoClient ELSE fdt[k]]
        /\ IF c # NoClient /\ client[c] = "open"
           THEN /\ got' = [got EXCEPT ![c] = write_buffer[j]]
                /\ client' = [client EXCEPT ![c] = "done"]
           ELSE UNCHANGED <<got, client>>
        /\ inbox' = inbox \ {c}
  /\ ret_sd' = [ret_sd EXCEPT ![j] = 0]
  /\ finished_work' = [finished_work EXCEPT ![j] = TRUE]
  /\ EndInner
  /\ UNCHANGED <<client_socket, asked, company, backlog, address, msgArg, write_buffer, threads>>

\* What is written to a client that has left is lost.  write_buffer stays.
Flush ==
  /\ main = "flush"
  /\ LET f == ret_sd[j]
         c == IF f \in Open THEN fdt[f] ELSE NoClient
     IN /\ fdt' = [k \in Fds |-> IF k = f THEN NoClient ELSE fdt[k]]
        /\ IF c # NoClient /\ client[c] = "open"
           THEN /\ got' = [got EXCEPT ![c] = write_buffer[j]]
                /\ client' = [client EXCEPT ![c] = "done"]
           ELSE UNCHANGED <<got, client>>
        /\ inbox' = inbox \ {c}
  /\ client_socket' = [client_socket EXCEPT ![j] = 0]
  /\ ret_sd' = [ret_sd EXCEPT ![j] = 0]
  /\ finished_work' = [finished_work EXCEPT ![j] = TRUE]
  /\ EndInner
  /\ UNCHANGED <<asked, company, backlog, address, msgArg, write_buffer, threads>>

-----------------------------------------------------------------------------
(***************************************************************************)
(* Threads.                                                                *)
(***************************************************************************)

ReadSd(t) ==
  /\ tpc[t] = "sd"
  /\ arg' = [arg EXCEPT ![t].sd = msgArg.sd]
  /\ tpc' = [tpc EXCEPT ![t] = "slot"]
  /\ UNCHANGED <<clients, kernel, main, local, slots, selected, msgArg, _ret_queue, for, overlap>>

ReadSlot(t) ==
  /\ tpc[t] = "slot"
  /\ arg' = [arg EXCEPT ![t].slot = msgArg.slot, ![t].port = msgArg.port]
  /\ tpc' = [tpc EXCEPT ![t] = "start"]
  /\ UNCHANGED <<clients, kernel, main, local, slots, selected, msgArg, _ret_queue, for, overlap>>

WorkStep(t, at, next) ==
  /\ tpc[t] = at
  /\ tpc' = [tpc EXCEPT ![t] = next]
  /\ arg' = IF next = "gone" THEN [arg EXCEPT ![t] = NoArg] ELSE arg
  /\ UNCHANGED <<clients, kernel, main, local, slots, selected, msgArg, for, overlap>>

Busy(t) ==
  /\ WorkStep(t, "start", "mark")
  /\ finished_work' = [finished_work EXCEPT ![arg[t].slot] = FALSE]
  /\ UNCHANGED <<ret_sd, write_buffer>>

Mark(t) ==
  /\ WorkStep(t, "mark", "alloc")
  /\ ret_sd' = [ret_sd EXCEPT ![arg[t].slot] = arg[t].sd]
  /\ UNCHANGED <<finished_work, write_buffer>>

Alloc(t) ==
  /\ WorkStep(t, "alloc", "copy")
  /\ write_buffer' = [write_buffer EXCEPT ![arg[t].slot] = [NULL EXCEPT !.state = "uninitialised"]]
  /\ UNCHANGED <<ret_sd, finished_work>>

Copy(t) ==
  /\ WorkStep(t, "copy", "finish")
  /\ write_buffer' = [write_buffer EXCEPT ![arg[t].slot] =
                        [state |-> "written", for |-> for[t], sd |-> arg[t].sd,
                         port |-> arg[t].port]]
  /\ UNCHANGED <<ret_sd, finished_work>>

\* Faulty variant of Finish: the thread ends and leaves finished_work as it is.
FinishUnsaid(t) ==
  /\ WorkStep(t, "finish", "gone")
  /\ UNCHANGED _ret_queue

Finish(t) ==
  /\ WorkStep(t, "finish", "gone")
  /\ finished_work' = [finished_work EXCEPT ![arg[t].slot] = TRUE]
  /\ UNCHANGED <<ret_sd, write_buffer>>

-----------------------------------------------------------------------------

Main ==
  \/ Select \/ Accept \/ NoRead \/ ReadMessage \/ ReadEof
  \/ \E t \in SelectThreads : Create(t)
  \/ Test \/ Flush

Thread(t) ==
  \/ ReadSd(t) \/ ReadSlot(t)
  \/ Busy(t) \/ Mark(t) \/ Alloc(t) \/ Copy(t) \/ Finish(t)

SelectNext ==
  \/ \E c \in Clients : Arrive(c) \/ Ask(c) \/ Leave(c)
  \/ Main
  \/ \E t \in SelectThreads : Thread(t)

SelectSpec == SelectInit /\ [][SelectNext]_selectVars

-----------------------------------------------------------------------------
(***************************************************************************)
(* Properties.                                                             *)
(***************************************************************************)

\* Nobody has left early, and no message was read while a thread was at work.
Calm == ~overlap /\ \A c \in Clients : client[c] # "left"

\* In calm times the slots lead to open connections, each to its own; otherwise select
\* would fail and accept would wait, and nobody would be served until a client connects.
CalmSlots ==
  Calm => /\ Watched \subseteq Open
          /\ \A s, z \in Slots :
               s # z /\ client_socket[s] # 0 => client_socket[s] # client_socket[z]

\* In calm times what is written to the client in the first slot is the whole reply to
\* its message.  In other slots it may be the reply that was written there last, or none
\* yet: only the first slot's finished_work is looked at.
FirstSlotOwn ==
  Calm /\ main = "flush" /\ j = 0 =>
    /\ write_buffer[0].state = "written"
    /\ ret_sd[0] \in Open
    /\ write_buffer[0].for = fdt[ret_sd[0]]

\* Clients that come one at a time get their own reply, with their own port.
AloneOwn ==
  Calm /\ ~company => \A c \in Clients :
    \/ got[c].state = "NULL"
    \/ got[c].state = "written" /\ got[c].for = c /\ got[c].port = c

Silent(c) == client[c] = "open" /\ c \notin asked

\* Accepted when no slot was free.
Forgotten(c) == \E f \in Open \ Watched : fdt[f] = c

\* In calm times every client that asks is sent something, unless it was accepted without
\* a slot, or another client stays silent: that one keeps main from looking at the slots
\* behind its own.
CalmServed ==
  \A c \in Clients :
    c \in asked ~> \/ got[c].state # "NULL"
                   \/ ~Calm
                   \/ Forgotten(c)
                   \/ \E d \in Clients : Silent(d)

\* In calm times slots lead to open connections, the client in the first slot gets its own
\* reply, and so does a client that is alone, with its port (ncapi.c:255-300).
SlotsRight ==
  /\ SelectTypeOK
  /\ CalmSlots
  /\ FirstSlotOwn
  /\ AloneOwn

-----------------------------------------------------------------------------
(***************************************************************************)
(* What the proof that the slots are right rests on.                       *)
(***************************************************************************)

\* There is always a descriptor to be had.
EnoughFds == IsFiniteSet(Clients) /\ Cardinality(Clients) =< MaxFd

\* A connection waits once in the backlog, or has one descriptor.
ConnectionsOnce ==
  /\ \A f, g \in Fds : fdt[f] # NoClient /\ fdt[f] = fdt[g] => f = g
  /\ \A f \in Open : client[fdt[f]] # "new"
  /\ \A m \in 1..Len(backlog) :
       /\ client[backlog[m]] # "new"
       /\ \A f \in Fds : fdt[f] # backlog[m]
       /\ \A n \in 1..Len(backlog) : backlog[m] = backlog[n] => m = n

TypeInv ==
  /\ SelectTypeOK
  /\ ConnectionsOnce
  /\ main = "create" => sd \in Fds

Working(t) == tpc[t] \notin {"none", "gone"}

\* The thread has not stored its socket in the slot yet.
Unmarked(t) == tpc[t] \in {"sd", "slot", "start", "mark"}

\* The arguments of a thread: what it has read, or is to read.
SocketOf(t) == IF tpc[t] = "sd" THEN msgArg.sd ELSE arg[t].sd
SlotOf(t)   == IF tpc[t] \in {"sd", "slot"} THEN msgArg.slot ELSE arg[t].slot
PortOf(t)   == IF tpc[t] \in {"sd", "slot"} THEN msgArg.port ELSE arg[t].port

\* The message of the client in slot s, at socket f, is read, and no reply under way yet.
MessageRead(s, f) ==
  /\ f \in Open
  /\ client_socket[s] = f
  /\ fdt[f] \in asked \ inbox
  /\ ret_sd[s] = 0

\* The buffer of slot 0 holds the reply to c.
ReplyTo(c) ==
  /\ write_buffer[0].state = "written"
  /\ write_buffer[0].for = c
  /\ ~company => write_buffer[0].port = c

\* In calm times there is one thread at most.  Until it marks its slot the client is there;
\* if that is slot 0 then it stays until finished_work says that the reply is complete.
ThreadRight(t) ==
  Working(t) =>
    /\ \A u \in SelectThreads : Working(u) => u = t
    /\ ~company => PortOf(t) = for[t]
    /\ Unmarked(t) => MessageRead(SlotOf(t), SocketOf(t)) /\ fdt[SocketOf(t)] = for[t]
    /\ SlotOf(t) = 0 =>
         /\ tpc[t] \in {"mark", "alloc", "copy", "finish"} => ~finished_work[0]
         /\ ~Unmarked(t) => ret_sd[0] # 0 /\ fdt[ret_sd[0]] = for[t]
         /\ tpc[t] = "finish" => ReplyTo(for[t])

\* What is open, or waits, is a client's that has not got its reply.
AllOpen ==
  /\ \A f \in Open : client[fdt[f]] = "open"
  /\ \A m \in 1..Len(backlog) : client[backlog[m]] = "open"

\* A slot is marked with its own socket, whose client does not ask again.
MarkedRight ==
  \A s \in Slots : ret_sd[s] # 0 =>
    ret_sd[s] = client_socket[s] /\ fdt[ret_sd[s]] \in asked \ inbox

\* What main knows of a slot from one of its steps to the next.
MainRight ==
  /\ main = "create" =>
       /\ \A t \in SelectThreads : ~Working(t)
       /\ MessageRead(i, sd) /\ msgArg.sd = sd
  /\ main = "flush" =>
       /\ ret_sd[j] # 0
       /\ j = 0 => finished_work[0]

\* Slot 0 is marked and finished only with a complete reply to its client.
FirstRight == ret_sd[0] # 0 /\ finished_work[0] => ReplyTo(fdt[ret_sd[0]])

\* Clients that come one at a time all get slot 0.
AloneRight ==
  ~company =>
    /\ \A c, d \in Clients : client[c] = "open" /\ client[d] = "open" => c = d
    /\ \A s \in Slots \ {0} : client_socket[s] = 0
    /\ \A f \in Open : fdt[f] = address

\* The inductive invariant of calm times.
CalmInv ==
  Calm =>
    /\ CalmSlots
    /\ AllOpen
    /\ MarkedRight
    /\ MainRight
    /\ \A t \in SelectThreads : ThreadRight(t)
    /\ FirstRight
    /\ AloneRight
    /\ AloneOwn

=============================================================================
