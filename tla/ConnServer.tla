----------------------------- MODULE ConnServer -----------------------------
(***************************************************************************)
(* The socket server of src/dev-capi/server/server.c: an accept loop that  *)
(* starts one POSIX thread per connection, and the thread function that    *)
(* receives, analyses, replies, closes and then goes round its loop with   *)
(* the same file descriptor number.                                        *)
(*                                                                         *)
(* A file descriptor is a number that the process reuses; a connection is  *)
(* the kernel object it names at one moment.  recv() resolves the number   *)
(* when it is entered and holds the connection it found until it returns,  *)
(* send() and close() resolve it at their own moment.  Everything that can *)
(* go wrong here goes wrong because these resolutions differ.              *)
(***************************************************************************)
EXTENDS Naturals, Sequences, FiniteSets

CONSTANTS
  Conns,        \* the connections the clients open, each at most once
  Threads,      \* the threads the process can have at the same time
  Fds,          \* the file descriptors the process can have for connections
  NoConn,       \* a descriptor that names nothing, a thread that reads nothing
  NoFd,         \* the -1 of a failed accept
  CLIENT_SIZE,  \* the backlog passed to listen()
  MaxReqs,      \* requests a client may send on one connection, in turn
  MayLeave,     \* clients may close before they have their replies
  MaxParts,     \* pieces a request may come in, one segment each
  MayGarble     \* there are messages that analyze_method does not survive

ASSUME ConnServerAssumption ==
  /\ NoConn \notin Conns
  /\ NoFd \notin Fds
  /\ CLIENT_SIZE \in Nat
  /\ MaxReqs \in Nat \ {0}
  /\ MayLeave \in BOOLEAN
  /\ MaxParts \in Nat \ {0}
  /\ MayGarble \in BOOLEAN
  /\ MaxParts > 1 => MayGarble   \* a piece need not be a message it survives

VARIABLES
  up,       \* the process is running
  phase,    \* phase[c]: the client has not connected, is connected, has closed
  asked,    \* asked[c]: requests the client of c has sent
  due,      \* due[c]: pieces of its last request that are still to be sent
  pending,  \* pending[c]: pieces received by the kernel, not yet by a recv()
  replies,  \* replies[c]: for each reply delivered on c, the piece it answers
  backlog,  \* connections completed by the kernel and not yet accepted
  fdt,      \* fdt[f]: the connection descriptor f names, or NoConn
  pc,       \* pc[t]: where thread t is
  sd,       \* sd[t]: the descriptor in the thread's argument
  at,       \* at[t]: the connection the recv() that t is in has resolved
  req,      \* req[t]: the message t has received
  reset     \* connections whose closed client has refused a send()

client == <<phase, asked, due, pending>>
thread == <<pc, sd, at, req>>
vars   == <<up, client, replies, backlog, fdt, thread, reset>>

-----------------------------------------------------------------------------

\* A piece of a request: the request it belongs to, and how many more pieces
\* follow it.  A request that comes whole is its only piece.
Piece == [conn : Conns, nr : 1..MaxReqs, left : 0..(MaxParts - 1)]

NoReq == [conn |-> NoConn, nr |-> 0, left |-> 0]

Phases   == {"out", "in", "gone"}
Handling == {"analyze", "send", "close"}
PCs      == {"free", "loop", "recv"} \union Handling

TypeOK ==
  /\ up \in BOOLEAN
  /\ phase \in [Conns -> Phases]
  /\ asked \in [Conns -> 0..MaxReqs]
  /\ due \in [Conns -> 0..(MaxParts - 1)]
  /\ pending \in [Conns -> Seq(Piece)]
  /\ replies \in [Conns -> Seq(Piece)]
  /\ backlog \in Seq(Conns)
  /\ fdt \in [Fds -> Conns \union {NoConn}]
  /\ pc \in [Threads -> PCs]
  /\ sd \in [Threads -> Fds \union {NoFd}]
  /\ at \in [Threads -> Conns \union {NoConn}]
  /\ req \in [Threads -> Piece \union {NoReq}]
  /\ reset \in SUBSET Conns
  /\ \A c \in Conns : due[c] > 0 => asked[c] > 0
  /\ \A t \in Threads :
        /\ pc[t] \in {"recv"} \union Handling => sd[t] \in Fds
        /\ pc[t] = "recv" => at[t] \in Conns
        /\ pc[t] \in Handling => req[t] \in Piece

Init ==
  /\ up = TRUE
  /\ phase = [c \in Conns |-> "out"]
  /\ asked = [c \in Conns |-> 0]
  /\ due = [c \in Conns |-> 0]
  /\ pending = [c \in Conns |-> <<>>]
  /\ replies = [c \in Conns |-> <<>>]
  /\ backlog = <<>>
  /\ fdt = [f \in Fds |-> NoConn]
  /\ pc = [t \in Threads |-> "free"]
  /\ sd = [t \in Threads |-> NoFd]
  /\ at = [t \in Threads |-> NoConn]
  /\ req = [t \in Threads |-> NoReq]
  /\ reset = {}

Queued(c) == \E i \in DOMAIN backlog : backlog[i] = c

\* The kernel keeps c while it waits to be accepted, while a descriptor names
\* it, and while a thread is inside a recv() that has resolved to it.
Alive(c) ==
  /\ up
  /\ \/ Queued(c)
     \/ \E f \in Fds : fdt[f] = c
     \/ \E t \in Threads : pc[t] = "recv" /\ at[t] = c

FreeFds == {f \in Fds : fdt[f] = NoConn}

IdleThreads == {t \in Threads : pc[t] = "free"}

-----------------------------------------------------------------------------
(***************************************************************************)
(* The clients: the drivers of src/dev-capi/driver send one request and    *)
(* wait for one reply, client/C/client.c sends the next request when it    *)
(* has the reply to the last.                                              *)
(***************************************************************************)

Connect(c) ==
  /\ up
  /\ phase[c] = "out"
  /\ Len(backlog) =< CLIENT_SIZE      \* the kernel queues one more than asked
  /\ phase' = [phase EXCEPT ![c] = "in"]
  /\ backlog' = Append(backlog, c)
  /\ UNCHANGED <<up, asked, due, pending, replies, fdt, thread, reset>>

Arrive(c, piece) ==
  pending' = IF Alive(c) THEN [pending EXCEPT ![c] = Append(@, piece)]
                         ELSE pending

SendRequest(c) ==
  /\ phase[c] = "in"
  /\ due[c] = 0
  /\ asked[c] < MaxReqs
  /\ asked[c] =< Len(replies[c])
  /\ asked' = [asked EXCEPT ![c] = @ + 1]
  /\ \E rest \in 0..(MaxParts - 1) :
        /\ due' = [due EXCEPT ![c] = rest]
        /\ Arrive(c, [conn |-> c, nr |-> asked[c] + 1, left |-> rest])
  /\ UNCHANGED <<up, phase, replies, backlog, fdt, thread, reset>>

SendRest(c) ==
  /\ phase[c] = "in"
  /\ due[c] > 0
  /\ due' = [due EXCEPT ![c] = @ - 1]
  /\ Arrive(c, [conn |-> c, nr |-> asked[c], left |-> due[c] - 1])
  /\ UNCHANGED <<up, phase, asked, replies, backlog, fdt, thread, reset>>

ClientClose(c) ==
  /\ phase[c] = "in"
  /\ MayLeave \/ (asked[c] = MaxReqs /\ due[c] = 0 /\ Len(replies[c]) >= MaxReqs)
  /\ phase' = [phase EXCEPT ![c] = "gone"]
  /\ UNCHANGED <<up, asked, due, pending, replies, backlog, fdt, thread, reset>>

-----------------------------------------------------------------------------
(***************************************************************************)
(* The accept loop of main.  Which free number accept() returns depends on *)
(* the files and database sockets that the scripts have open meanwhile.    *)
(***************************************************************************)

Accept(f, t) ==
  /\ up
  /\ backlog # <<>>
  /\ f \in FreeFds
  /\ t \in IdleThreads
  /\ backlog' = Tail(backlog)
  /\ fdt' = [fdt EXCEPT ![f] = Head(backlog)]
  /\ pc' = [pc EXCEPT ![t] = "loop"]
  /\ sd' = [sd EXCEPT ![t] = f]
  /\ UNCHANGED <<up, client, replies, at, req, reset>>

\* pthread_create reports a failure with a positive number, the test is < 0:
\* the loop goes on, and nobody will ever read or close the connection.
AcceptWithoutThread(f) ==
  /\ up
  /\ backlog # <<>>
  /\ f \in FreeFds
  /\ IdleThreads = {}
  /\ backlog' = Tail(backlog)
  /\ fdt' = [fdt EXCEPT ![f] = Head(backlog)]
  /\ UNCHANGED <<up, client, replies, thread, reset>>

\* The process is out of descriptors: accept returns -1, which is not zero, so
\* the loop body runs and starts a thread for descriptor -1.
AcceptFails(t) ==
  /\ up
  /\ FreeFds = {}
  /\ t \in IdleThreads
  /\ pc' = [pc EXCEPT ![t] = "loop"]
  /\ sd' = [sd EXCEPT ![t] = NoFd]
  /\ UNCHANGED <<up, client, replies, backlog, fdt, at, req, reset>>

-----------------------------------------------------------------------------
(***************************************************************************)
(* The thread function.                                                    *)
(***************************************************************************)

\* The thread function returns and its slot can be used by a later thread.
Finish(t) ==
  /\ pc' = [pc EXCEPT ![t] = "free"]
  /\ sd' = [sd EXCEPT ![t] = NoFd]
  /\ at' = [at EXCEPT ![t] = NoConn]
  /\ req' = [req EXCEPT ![t] = NoReq]

Named(t) == IF sd[t] \in Fds THEN fdt[sd[t]] ELSE NoConn

\* Faulty variant of EnterRecv: a number that names nothing is not refused.
EnterRecvUnchecked(t) ==
  /\ up
  /\ pc[t] = "loop"
  /\ at' = [at EXCEPT ![t] = Named(t)]
  /\ pc' = [pc EXCEPT ![t] = "recv"]
  /\ UNCHANGED <<up, client, replies, backlog, fdt, sd, req, reset>>

\* recv(sd, ...) is entered; a number that names nothing is EBADF.
EnterRecv(t) ==
  /\ up
  /\ pc[t] = "loop"
  /\ Named(t) # NoConn
  /\ at' = [at EXCEPT ![t] = Named(t)]
  /\ pc' = [pc EXCEPT ![t] = "recv"]
  /\ UNCHANGED <<up, client, replies, backlog, fdt, sd, req, reset>>

RecvBadFd(t) ==
  /\ up
  /\ pc[t] = "loop"
  /\ Named(t) = NoConn
  /\ Finish(t)
  /\ UNCHANGED <<up, client, replies, backlog, fdt, reset>>

\* Faulty variant of RecvData: the bytes stay in the kernel, as with MSG_PEEK.
RecvDataPeeks(t) ==
  /\ up
  /\ pc[t] = "recv"
  /\ pending[at[t]] # <<>>
  /\ req' = [req EXCEPT ![t] = Head(pending[at[t]])]
  /\ at' = [at EXCEPT ![t] = NoConn]
  /\ pc' = [pc EXCEPT ![t] = "analyze"]
  /\ UNCHANGED <<up, client, replies, backlog, fdt, sd, reset>>

\* recv returns all that has arrived, whole requests or not: MAX_WRITE_SIZE is larger.
\* The message is known by the piece it starts with.
RecvData(t) ==
  /\ up
  /\ pc[t] = "recv"
  /\ pending[at[t]] # <<>>
  /\ req' = [req EXCEPT ![t] = Head(pending[at[t]])]
  /\ pending' = [pending EXCEPT ![at[t]] = <<>>]
  /\ at' = [at EXCEPT ![t] = NoConn]
  /\ pc' = [pc EXCEPT ![t] = "analyze"]
  /\ UNCHANGED <<up, phase, asked, due, replies, backlog, fdt, sd, reset>>

\* recv returns 0: the loop ends, and nothing closes the descriptor.
RecvEof(t) ==
  /\ up
  /\ pc[t] = "recv"
  /\ pending[at[t]] = <<>>
  /\ phase[at[t]] = "gone"
  /\ Finish(t)
  /\ UNCHANGED <<up, client, replies, backlog, fdt, reset>>

\* analyze_method ignores what init_header returns; without a url_base the
\* signature is NULL and capilua dereferences it: the process is gone.  Whether
\* that happens depends on the text of the message, the rest of a request may
\* look like one, and on what earlier messages left in the buffer behind it.
Survives == up' \in {TRUE, ~MayGarble}

\* Faulty variant of Analyze: the connection is closed before the reply is sent.
AnalyzeClosesFirst(t) ==
  /\ up
  /\ pc[t] = "analyze"
  /\ Survives
  /\ fdt' = [fdt EXCEPT ![sd[t]] = NoConn]
  /\ pc' = [pc EXCEPT ![t] = "send"]
  /\ UNCHANGED <<client, replies, backlog, sd, at, req, reset>>

\* Faulty variant of Analyze: the result is dropped on the way to send().
AnalyzeDropsResult(t) ==
  /\ up
  /\ pc[t] = "analyze"
  /\ Survives
  /\ pc' = [pc EXCEPT ![t] = "close"]
  /\ UNCHANGED <<client, replies, backlog, fdt, sd, at, req, reset>>

\* Either way out of analyze_method, a thread that is left goes on to send().
Analyze(t) ==
  /\ up
  /\ pc[t] = "analyze"
  /\ Survives
  /\ pc' = [pc EXCEPT ![t] = "send"]
  /\ UNCHANGED <<client, replies, backlog, fdt, sd, at, req, reset>>

\* send resolves the number again.  A client that has closed answers the first
\* send with a reset; the next send on that connection raises SIGPIPE.
Send(t) ==
  /\ up
  /\ pc[t] = "send"
  /\ LET c == fdt[sd[t]]
     IN  \/ /\ c = NoConn
            /\ UNCHANGED <<up, replies, reset>>
         \/ /\ c # NoConn
            /\ phase[c] # "gone"
            /\ replies' = [replies EXCEPT ![c] = Append(@, req[t])]
            /\ UNCHANGED <<up, reset>>
         \/ /\ c # NoConn
            /\ phase[c] = "gone"
            /\ up' = (c \notin reset)
            /\ reset' = reset \union {c}
            /\ UNCHANGED replies
  /\ pc' = [pc EXCEPT ![t] = "close"]
  /\ UNCHANGED <<client, backlog, fdt, sd, at, req>>

\* Faulty variant of Close: the loop goes round without close().
CloseForgotten(t) ==
  /\ up
  /\ pc[t] = "close"
  /\ req' = [req EXCEPT ![t] = NoReq]
  /\ pc' = [pc EXCEPT ![t] = "loop"]
  /\ UNCHANGED <<up, client, replies, backlog, fdt, sd, at, reset>>

\* close resolves the number a third time, and the loop goes round.
Close(t) ==
  /\ up
  /\ pc[t] = "close"
  /\ fdt' = [fdt EXCEPT ![sd[t]] = NoConn]
  /\ req' = [req EXCEPT ![t] = NoReq]
  /\ pc' = [pc EXCEPT ![t] = "loop"]
  /\ UNCHANGED <<up, client, replies, backlog, sd, at, reset>>

-----------------------------------------------------------------------------

Environment ==
  \E c \in Conns : Connect(c) \/ SendRequest(c) \/ SendRest(c) \/ ClientClose(c)

AcceptLoop ==
  \/ \E f \in Fds, t \in Threads : Accept(f, t)
  \/ \E f \in Fds : AcceptWithoutThread(f)
  \/ \E t \in Threads : AcceptFails(t)

Step(t) ==
  \/ EnterRecv(t) \/ RecvBadFd(t) \/ RecvData(t) \/ RecvEof(t)
  \/ Analyze(t) \/ Send(t) \/ Close(t)

Next == Environment \/ AcceptLoop \/ \E t \in Threads : Step(t)

Spec == Init /\ [][Next]_vars

\* The operating system runs every thread that can run, main's included; the
\* clients owe the server nothing.
Fairness == WF_vars(AcceptLoop) /\ \A t \in Threads : WF_vars(Step(t))

FairSpec == Spec /\ Fairness

\* Clients that do not sit on an idle connection: they send a request or close;
\* one that has sent its request may wait for the reply for ever.
BusyClients ==
  \A c \in Conns : WF_vars(SendRequest(c) \/ (asked[c] = 0 /\ ClientClose(c)))

BusySpec == FairSpec /\ BusyClients

-----------------------------------------------------------------------------
(***************************************************************************)
(* Properties.                                                             *)
(***************************************************************************)

\* Every reply a client gets answers its own requests, in the order it sent
\* them: the replies thread() sends do not end up on another connection.
ResponseIntegrity ==
  \A c \in Conns : \A i \in DOMAIN replies[c] :
     replies[c][i].conn = c /\ replies[c][i].nr = i

\* What one recv() took is not read, analysed and answered by a second thread: no
\* piece is answered twice, on whatever connections the replies go.  A request
\* gets at most one reply for each piece it came in, one if it came whole; one in
\* pieces may get several, since thread() takes each message for a request.
AnsweredAtMostOnce ==
  \A c, d \in Conns : \A i \in DOMAIN replies[c], j \in DOMAIN replies[d] :
     replies[c][i] = replies[d][j] => (c = d /\ i = j)

\* Where a request is: in the kernel, with a thread, or answered.
InKernel(c)   == pending[c] # <<>>
InThread(c)   == \E t \in Threads : pc[t] \in {"analyze", "send"} /\ req[t].conn = c
IsAnswered(c) == replies[c] # <<>>

\* A request that was sent is never lost while its client waits: it is in the
\* kernel, or in exactly one thread, or answered, and in one place only.
RequestInOnePlace ==
  up => \A c \in Conns : asked[c] > 0 /\ phase[c] = "in" =>
     /\ InKernel(c) \/ InThread(c) \/ IsAnswered(c)
     /\ ~(InKernel(c) /\ InThread(c))
     /\ ~(InKernel(c) /\ IsAnswered(c))
     /\ ~(InThread(c) /\ IsAnswered(c))
     /\ \A t, u \in Threads :
           /\ {pc[t], pc[u]} \subseteq {"analyze", "send"}
           /\ req[t].conn = c
           /\ req[u].conn = c
           => t = u

\* close() takes a connection away only from a client that has its reply or has
\* left, although the closing thread knows it by a reusable number only.
ClosedAfterReply ==
  [][\A f \in Fds : fdt[f] # NoConn /\ fdt'[f] # fdt[f]
        => IsAnswered(fdt[f]) \/ phase[fdt[f]] = "gone"]_vars

\* A thread that can still come to close descriptor f.
WillClose(f) ==
  \E t \in Threads :
     \/ pc[t] \in {"loop"} \union Handling /\ sd[t] = f
     \/ pc[t] = "recv" /\ at[t] = fdt[f]

\* The only descriptors nobody will close are those of clients that left without
\* sending anything: the exit of thread() on recv() = 0 is the only leak.
OnlyLeaversLeak ==
  \A f \in Fds : up /\ fdt[f] # NoConn /\ ~WillClose(f)
     => phase[fdt[f]] = "gone" /\ asked[fdt[f]] = 0

\* A client that sends a request and stays gets an answer.
ClientServed ==
  \A c \in Conns : asked[c] > 0 ~> (IsAnswered(c) \/ phase[c] = "gone")

-----------------------------------------------------------------------------
(***************************************************************************)
(* The inductive invariant behind the safety properties when every client  *)
(* sends one request, in one piece.  It says why the threads that go round *)
(* with a stale number do no harm then: a recv() that holds a connection   *)
(* whose number has moved on holds one that has nothing more to say.       *)
(***************************************************************************)

OneRequest == MaxReqs = 1 /\ MaxParts = 1

\* A connection is in one place of the kernel's tables at most.
OnePlace ==
  /\ \A i, j \in DOMAIN backlog : backlog[i] = backlog[j] => i = j
  /\ \A f \in Fds : ~Queued(fdt[f])
  /\ \A f, g \in Fds : fdt[f] # NoConn /\ fdt[f] = fdt[g] => f = g

NotYet(c) ==
  phase[c] = "out" => asked[c] = 0 /\ ~Queued(c) /\ \A f \in Fds : fdt[f] # c

\* The only request of c, in its only piece.
Only(c) == [conn |-> c, nr |-> 1, left |-> 0]

\* One message and one reply per connection, the reply after the message.
OneExchange(c) ==
  /\ due[c] = 0
  /\ pending[c] \in {<<>>, <<Only(c)>>}
  /\ replies[c] \in {<<>>, <<Only(c)>>}
  /\ pending[c] = <<>> \/ replies[c] = <<>>
  /\ asked[c] = 0 => pending[c] = <<>> /\ replies[c] = <<>>

\* The only request of c has been read, or is lost with the process.
Taken(c) == asked[c] = 1 /\ pending[c] = <<>>

\* A thread that has a message still has the descriptor of the client it is from.
HandlerHolds(t) ==
  pc[t] \in Handling =>
    /\ fdt[sd[t]] = req[t].conn
    /\ req[t] = Only(req[t].conn)
    /\ Taken(req[t].conn)
    /\ pc[t] # "close" => ~IsAnswered(req[t].conn)
    /\ pc[t] = "close" => IsAnswered(req[t].conn) \/ phase[req[t].conn] = "gone"

OneHandler ==
  \A t, u \in Threads :
     pc[t] \in Handling /\ pc[u] \in Handling /\ req[t].conn = req[u].conn => t = u

\* A recv() on a connection that has moved from its descriptor gets no message.
ReaderHolds(t) ==
  pc[t] = "recv" => fdt[sd[t]] = at[t] \/ Taken(at[t])

\* A client that has no reply yet has its connection open.
StillOpen(c) ==
  phase[c] = "in" /\ ~IsAnswered(c) => Queued(c) \/ \E f \in Fds : fdt[f] = c

\* While the server runs, the request of a client that waits is somewhere.
StillAsked(c) ==
  up /\ phase[c] = "in" /\ asked[c] = 1 /\ ~IsAnswered(c)
    => InKernel(c) \/ InThread(c)

OneInv ==
  /\ TypeOK
  /\ OnePlace
  /\ \A c \in Conns : NotYet(c)
  /\ \A c \in Conns : OneExchange(c)
  /\ \A t \in Threads : HandlerHolds(t)
  /\ OneHandler
  /\ \A t \in Threads : ReaderHolds(t)
  /\ \A c \in Conns : StillOpen(c)
  /\ \A c \in Conns : StillAsked(c)

-----------------------------------------------------------------------------
(***************************************************************************)
(* The inductive invariant behind AnsweredAtMostOnce, whatever the clients *)
(* send and whichever messages the server survives.  A piece is in the     *)
(* kernel once, in one thread, or in one reply; a thread never starts on   *)
(* it again, because recv() has taken its bytes away.                      *)
(***************************************************************************)

\* By the counts a and d of requests sent and pieces due, piece p has been sent: it
\* is of an earlier request than the last, or not of what is due of the last.
SentBy(p, a, d) ==
  \/ p.nr < a[p.conn]
  \/ p.nr = a[p.conn] /\ p.left >= d[p.conn]

Sent(p) == SentBy(p, asked, due)

\* Thread t is on its way to answer a piece.
Carries(t) == pc[t] \in {"analyze", "send"}

\* Nothing is in the kernel, in a thread or in a reply that was not sent.
OnlySent ==
  /\ \A c \in Conns : \A i \in DOMAIN pending[c] :
        pending[c][i].conn = c /\ Sent(pending[c][i])
  /\ \A t \in Threads : Carries(t) => Sent(req[t])
  /\ \A d \in Conns : \A j \in DOMAIN replies[d] : Sent(replies[d][j])

OnceInKernel ==
  \A c \in Conns : \A i, j \in DOMAIN pending[c] : pending[c][i] = pending[c][j] => i = j

OnceInThreads ==
  \A t, u \in Threads : Carries(t) /\ Carries(u) /\ req[t] = req[u] => t = u

KernelOrThread ==
  \A t \in Threads : \A c \in Conns : \A i \in DOMAIN pending[c] :
     Carries(t) => pending[c][i] # req[t]

KernelOrAnswered ==
  \A c, d \in Conns : \A i \in DOMAIN pending[c], j \in DOMAIN replies[d] :
     pending[c][i] # replies[d][j]

ThreadOrAnswered ==
  \A t \in Threads : \A d \in Conns : \A j \in DOMAIN replies[d] :
     Carries(t) => req[t] # replies[d][j]

AnswerInv ==
  /\ TypeOK
  /\ OnlySent
  /\ OnceInKernel
  /\ OnceInThreads
  /\ KernelOrThread
  /\ KernelOrAnswered
  /\ ThreadOrAnswered
  /\ AnsweredAtMostOnce

-----------------------------------------------------------------------------
(***************************************************************************)
(* What OnlyLeaversLeak needs beside OneInv when pthread_create does not   *)
(* fail: a request is read by the time its connection is closed, and until *)
(* then it is in the kernel or its thread has it.                          *)
(***************************************************************************)

\* The connection that f names has been read, so the thread that read it has it.
ReaderStays(f) ==
  up /\ fdt[f] # NoConn /\ Taken(fdt[f]) =>
    \E t \in Threads : pc[t] \in Handling /\ req[t].conn = fdt[f]

\* Nobody reads a connection before it is accepted.
UnreadInBacklog(c) == up /\ Queued(c) => ~Taken(c)

LeakInv ==
  /\ OneInv
  /\ \A f \in Fds : ReaderStays(f)
  /\ \A c \in Conns : UnreadInBacklog(c)
  /\ OnlyLeaversLeak

\* Connections that are still to be accepted, and the threads that have been started.
Waiting     == {c \in Conns : phase[c] = "out" \/ Queued(c)}
BusyThreads == Threads \ IdleThreads

\* While a connection is to come, no more threads run than have been accepted.
ThreadPerConn ==
  Waiting # {} => Cardinality(BusyThreads) =< Cardinality(Conns \ Waiting)
=============================================================================
