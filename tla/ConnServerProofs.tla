-------------------------- MODULE ConnServerProofs --------------------------
(***************************************************************************)
(* Proofs about ConnServer, for every set of connections, threads and      *)
(* descriptors.                                                            *)
(***************************************************************************)
EXTENDS ConnServer, FiniteSetTheorems, TLAPS

\* The server starts with every variable of its type.
LEMMA TypeInit == Init => TypeOK
  BY ConnServerAssumption
     DEF ConnServerAssumption, Init, TypeOK, Phases, PCs, Handling

\* Every variable of the server keeps its type, and a thread inside recv() or
\* the body of its loop has a descriptor, a connection and a message to go with.
THEOREM TypeCorrect == Spec => []TypeOK
<1>1. Init => TypeOK
  BY TypeInit
<1>2. TypeOK /\ [Next]_vars => TypeOK'
  <2> SUFFICES ASSUME TypeOK, [Next]_vars PROVE TypeOK'
    OBVIOUS
  <2> USE ConnServerAssumption DEF ConnServerAssumption
  <2>1. ASSUME NEW c \in Conns, Connect(c) PROVE TypeOK'
    <3>1. backlog' \in Seq(Conns)
      BY <2>1 DEF Connect, TypeOK
    <3> QED
      BY <2>1, <3>1 DEF Connect, TypeOK, Phases, PCs, Handling, thread
  <2>2. ASSUME NEW c \in Conns, SendRequest(c) PROVE TypeOK'
    <3>1. asked[c] + 1 \in 1..MaxReqs
      BY <2>2 DEF SendRequest, TypeOK
    <3>2. \A rest \in 0..(MaxParts - 1) :
             [conn |-> c, nr |-> asked[c] + 1, left |-> rest] \in Piece
      BY <3>1 DEF Piece
    <3>3. PICK rest \in 0..(MaxParts - 1) :
                /\ due' = [due EXCEPT ![c] = rest]
                /\ Arrive(c, [conn |-> c, nr |-> asked[c] + 1, left |-> rest])
      BY <2>2 DEF SendRequest
    <3>4. pending' \in [Conns -> Seq(Piece)]
      BY <3>2, <3>3 DEF Arrive, TypeOK
    <3>5. asked' \in [Conns -> 0..MaxReqs]
      BY <2>2, <3>1 DEF SendRequest, TypeOK
    <3>7. due' \in [Conns -> 0..(MaxParts - 1)]
      BY <3>3 DEF TypeOK
    <3>8. ASSUME NEW d \in Conns, due'[d] > 0 PROVE asked'[d] > 0
      BY <2>2, <3>3, <3>8 DEF SendRequest, TypeOK
    <3> QED
      BY <2>2, <3>4, <3>5, <3>7, <3>8 DEF SendRequest, TypeOK, thread
  <2>3. ASSUME NEW c \in Conns, SendRest(c) PROVE TypeOK'
    <3>1. due[c] - 1 \in 0..(MaxParts - 1) /\ asked[c] \in 1..MaxReqs
      BY <2>3 DEF SendRest, TypeOK
    <3>2. [conn |-> c, nr |-> asked[c], left |-> due[c] - 1] \in Piece
      BY <3>1 DEF Piece
    <3>3. pending' \in [Conns -> Seq(Piece)]
      BY <2>3, <3>2 DEF SendRest, Arrive, TypeOK
    <3>4. due' \in [Conns -> 0..(MaxParts - 1)]
      BY <2>3, <3>1 DEF SendRest, TypeOK
    <3>5. \A d \in Conns : due'[d] > 0 => asked[d] > 0
      BY <2>3, <3>1 DEF SendRest, TypeOK
    <3> QED
      BY <2>3, <3>3, <3>4, <3>5 DEF SendRest, TypeOK, thread
  <2>4. ASSUME NEW c \in Conns, ClientClose(c) PROVE TypeOK'
    BY <2>4 DEF ClientClose, TypeOK, Phases, thread
  <2>5. ASSUME NEW f \in Fds, NEW t \in Threads, Accept(f, t) PROVE TypeOK'
    <3>1. Head(backlog) \in Conns /\ Tail(backlog) \in Seq(Conns)
      BY <2>5 DEF Accept, TypeOK
    <3> QED
      BY <2>5, <3>1 DEF Accept, TypeOK, PCs, Handling, client
  <2>6. ASSUME NEW f \in Fds, AcceptWithoutThread(f) PROVE TypeOK'
    <3>1. Head(backlog) \in Conns /\ Tail(backlog) \in Seq(Conns)
      BY <2>6 DEF AcceptWithoutThread, TypeOK
    <3> QED
      BY <2>6, <3>1 DEF AcceptWithoutThread, TypeOK, client, thread
  <2>7. ASSUME NEW t \in Threads, AcceptFails(t) PROVE TypeOK'
    BY <2>7 DEF AcceptFails, TypeOK, PCs, Handling, client
  <2>8. ASSUME NEW t \in Threads, EnterRecv(t) PROVE TypeOK'
    BY <2>8 DEF EnterRecv, Named, TypeOK, PCs, Handling, client
  <2>9. ASSUME NEW t \in Threads, RecvBadFd(t) PROVE TypeOK'
    BY <2>9 DEF RecvBadFd, Finish, TypeOK, PCs, Handling, client
  <2>10. ASSUME NEW t \in Threads, RecvData(t) PROVE TypeOK'
    <3>1. at[t] \in Conns /\ Head(pending[at[t]]) \in Piece
      BY <2>10 DEF RecvData, TypeOK
    <3> QED
      BY <2>10, <3>1 DEF RecvData, TypeOK, PCs, Handling
  <2>11. ASSUME NEW t \in Threads, RecvEof(t) PROVE TypeOK'
    BY <2>11 DEF RecvEof, Finish, TypeOK, PCs, Handling, client
  <2>12. ASSUME NEW t \in Threads, Analyze(t) PROVE TypeOK'
    BY <2>12 DEF Analyze, Survives, TypeOK, PCs, Handling, client, Piece
  <2>13. ASSUME NEW t \in Threads, Send(t) PROVE TypeOK'
    <3> DEFINE c == fdt[sd[t]]
               r == req[t]
    <3>1. r \in Piece
      BY <2>13 DEF Send, TypeOK, Handling
    <3>2. c \in Conns \union {NoConn}
      BY <2>13 DEF Send, TypeOK, Handling
    <3>3. \/ replies' = replies
          \/ c \in Conns /\ replies' = [replies EXCEPT ![c] = Append(@, r)]
      BY <2>13, <3>2 DEF Send
    <3> HIDE DEF r, c
    <3>4. replies' \in [Conns -> Seq(Piece)]
      <4>1. replies \in [Conns -> Seq(Piece)]
        BY DEF TypeOK
      <4>2. c \in Conns => Append(replies[c], r) \in Seq(Piece)
        BY <4>1, <3>1
      <4> QED
        BY <4>1, <4>2, <3>3
    <3>5. up' \in BOOLEAN
      BY <2>13 DEF Send, TypeOK
    <3>6. reset' = reset \/ (c \in Conns /\ reset' = reset \union {c})
      BY <2>13, <3>2 DEF Send, c
    <3>7. reset' \in SUBSET Conns
      BY <3>6 DEF TypeOK
    <3> QED
      BY <2>13, <3>4, <3>5, <3>7 DEF Send, TypeOK, PCs, Handling, client
  <2>14. ASSUME NEW t \in Threads, Close(t) PROVE TypeOK'
    BY <2>14 DEF Close, TypeOK, PCs, Handling, client
  <2>15. CASE UNCHANGED vars
    BY <2>15 DEF vars, client, thread, TypeOK
  <2> QED
    BY <2>1, <2>2, <2>3, <2>4, <2>5, <2>6, <2>7, <2>8, <2>9, <2>10, <2>11,
       <2>12, <2>13, <2>14, <2>15
       DEF Next, Environment, AcceptLoop, Step
<1> QED
  BY <1>1, <1>2, PTL DEF Spec

-----------------------------------------------------------------------------
(***************************************************************************)
(* The accept queue: what the two operations on it do to its members.      *)
(***************************************************************************)

Member(q, x) == \E i \in DOMAIN q : q[i] = x

Distinct(q) == \A i, j \in DOMAIN q : q[i] = q[j] => i = j

\* Append adds one member, and keeps members distinct if it is a new one.
LEMMA AppendMembers ==
  ASSUME NEW S, NEW q \in Seq(S), NEW x \in S
  PROVE  /\ \A y : Member(Append(q, x), y) <=> Member(q, y) \/ y = x
         /\ Distinct(q) /\ ~Member(q, x) => Distinct(Append(q, x))
<1>1. DOMAIN Append(q, x) = 1..(Len(q) + 1) /\ DOMAIN q = 1..Len(q) /\ Len(q) \in Nat
  OBVIOUS
<1>2. \A i \in 1..Len(q) : Append(q, x)[i] = q[i]
  OBVIOUS
<1>3. Append(q, x)[Len(q) + 1] = x
  OBVIOUS
<1>4. \A i \in 1..(Len(q) + 1) : i \in 1..Len(q) \/ i = Len(q) + 1
  BY <1>1
<1> QED
  BY <1>1, <1>2, <1>3, <1>4 DEF Member, Distinct

\* Tail removes the first of the distinct members and nothing else.
LEMMA TailMembers ==
  ASSUME NEW S, NEW q \in Seq(S), q # <<>>, Distinct(q)
  PROVE  /\ \A y : Member(Tail(q), y) <=> Member(q, y) /\ y # Head(q)
         /\ Distinct(Tail(q))
         /\ Member(q, Head(q))
<1>1. /\ Len(q) \in Nat \ {0}
      /\ DOMAIN q = 1..Len(q)
      /\ Tail(q) \in Seq(S)
      /\ Len(Tail(q)) = Len(q) - 1
      /\ Head(q) = q[1]
  OBVIOUS
<1>2. DOMAIN Tail(q) = 1..(Len(q) - 1)
  BY <1>1
<1>3. \A i \in 1..(Len(q) - 1) : Tail(q)[i] = q[i + 1]
  BY <1>1
<1>4. \A i \in 1..Len(q) : i # 1 => i - 1 \in 1..(Len(q) - 1) /\ (i - 1) + 1 = i
  BY <1>1
<1>5. \A i \in 1..(Len(q) - 1) : i + 1 \in 1..Len(q) /\ i + 1 # 1
  BY <1>1
<1>6. 1 \in DOMAIN q
  BY <1>1
<1>7. ASSUME NEW y PROVE Member(Tail(q), y) <=> Member(q, y) /\ y # Head(q)
  <2>1. ASSUME Member(Tail(q), y) PROVE Member(q, y) /\ y # Head(q)
    <3>1. PICK i \in 1..(Len(q) - 1) : q[i + 1] = y
      BY <2>1, <1>2, <1>3 DEF Member
    <3> QED
      BY <3>1, <1>1, <1>5, <1>6 DEF Member, Distinct
  <2>2. ASSUME Member(q, y), y # Head(q) PROVE Member(Tail(q), y)
    <3>1. PICK i \in 1..Len(q) : q[i] = y
      BY <2>2, <1>1 DEF Member
    <3>2. i # 1
      BY <3>1, <2>2, <1>1
    <3> QED
      BY <3>1, <3>2, <1>2, <1>3, <1>4 DEF Member
  <2> QED
    BY <2>1, <2>2
<1>8. Distinct(Tail(q))
  <2> SUFFICES ASSUME NEW i \in 1..(Len(q) - 1), NEW j \in 1..(Len(q) - 1),
                      q[i + 1] = q[j + 1]
               PROVE  i = j
    BY <1>2, <1>3 DEF Distinct
  <2>1. i + 1 = j + 1
    BY <1>1, <1>5 DEF Distinct
  <2> QED
    BY <2>1, <1>1
<1> QED
  BY <1>6, <1>7, <1>8, <1>1 DEF Member

-----------------------------------------------------------------------------

\* With clients of one request the inductive invariant holds.
THEOREM OneInvariant == ASSUME OneRequest PROVE Spec => []OneInv
<1>1. Init => OneInv
  BY ConnServerAssumption, TypeInit
     DEF ConnServerAssumption, OneRequest, Init, OneInv, OnePlace, NotYet, Queued,
         OneExchange, Only, HandlerHolds, OneHandler, ReaderHolds, StillOpen, StillAsked,
         Handling, IsAnswered
<1>2. TypeOK /\ TypeOK' /\ OneInv /\ [Next]_vars => OneInv'
  <2> SUFFICES ASSUME TypeOK, TypeOK', OneInv, [Next]_vars PROVE OneInv'
    OBVIOUS
  <2> USE ConnServerAssumption DEF ConnServerAssumption, OneRequest, client, thread
  <2>1. ASSUME NEW c \in Conns, Connect(c) PROVE OneInv'
    <3>1. \A d : Queued(d)' <=> Queued(d) \/ d = c
      <4>1. backlog \in Seq(Conns) /\ backlog' = Append(backlog, c)
        BY <2>1 DEF Connect, TypeOK
      <4>2. \A d : Member(Append(backlog, c), d) <=> Member(backlog, d) \/ d = c
        BY <4>1, AppendMembers
      <4> QED
        BY <4>1, <4>2 DEF Queued, Member
    <3>2. ~Queued(c) /\ \A f \in Fds : fdt[f] # c
      BY <2>1 DEF Connect, OneInv, NotYet
    <3>3. Distinct(backlog)'
      BY SMTT(20), <2>1, <3>2, AppendMembers
         DEF Connect, Queued, Member, Distinct, OneInv, OnePlace, TypeOK
    <3>4. OnePlace'
      BY <2>1, <3>1, <3>2, <3>3 DEF OneInv, Connect, OnePlace, Distinct, TypeOK
    <3>5. \A d \in Conns : NotYet(d)'
      BY <2>1, <3>1 DEF OneInv, Connect, NotYet, TypeOK
    <3>6. \A d \in Conns : OneExchange(d)'
      BY <2>1 DEF OneInv, Connect, OneExchange, TypeOK
    <3>7. \A u \in Threads : HandlerHolds(u)'
      BY <2>1 DEF OneInv, Connect, HandlerHolds, Taken, IsAnswered, Handling, TypeOK
    <3>8. OneHandler'
      BY <2>1 DEF OneInv, Connect, OneHandler, Handling, TypeOK
    <3>9. \A u \in Threads : ReaderHolds(u)'
      BY <2>1 DEF OneInv, Connect, ReaderHolds, Taken, Handling, TypeOK
    <3>10. \A d \in Conns : StillOpen(d)'
      BY <2>1, <3>1 DEF OneInv, Connect, StillOpen, IsAnswered, TypeOK
    <3>11. \A d \in Conns : StillAsked(d)'
      BY <2>1
         DEF OneInv, Connect, NotYet, StillAsked, IsAnswered, InKernel, InThread, TypeOK
    <3> QED
      BY <3>4, <3>5, <3>6, <3>7, <3>8, <3>9, <3>10, <3>11 DEF OneInv
  <2>2. ASSUME NEW c \in Conns, SendRequest(c) PROVE OneInv'
    <3>1. asked[c] = 0 /\ asked'[c] = 1
      BY <2>2 DEF SendRequest, OneInv, OneExchange, TypeOK
    <3>2. /\ due' = [due EXCEPT ![c] = 0]
          /\ Arrive(c, [conn |-> c, nr |-> asked[c] + 1, left |-> 0])
      <4>1. 0..(MaxParts - 1) = {0}
        OBVIOUS
      <4> QED
        BY <2>2, <4>1 DEF SendRequest
    <3>3. /\ replies[c] = <<>>
          /\ pending[c] = <<>>
          /\ phase[c] = "in"
      BY <2>2, <3>1 DEF SendRequest, OneInv, OneExchange, TypeOK
    <3>4. pending' = IF Alive(c) THEN [pending EXCEPT ![c] = <<Only(c)>>] ELSE pending
      <4>1. \A r : Append(<<>>, r) = <<r>>
        OBVIOUS
      <4>2. Append(pending[c], [conn |-> c, nr |-> asked[c] + 1, left |-> 0]) = <<Only(c)>>
        BY <4>1, <3>1, <3>3 DEF Only
      <4> QED
        BY <3>2, <4>2 DEF Arrive
    <3>5. \A d \in Conns : d # c =>
             pending'[d] = pending[d] /\ asked'[d] = asked[d] /\ due'[d] = due[d]
      BY <2>2, <3>2, <3>4 DEF SendRequest, TypeOK
    <3>6. pending'[c] \in {<<>>, <<Only(c)>>} /\ due'[c] = 0
      BY <3>2, <3>3, <3>4 DEF TypeOK
    <3>7. up => pending'[c] # <<>>
      BY <2>2, <3>3, <3>4 DEF Alive, OneInv, StillOpen, IsAnswered, TypeOK
    <3>8. OnePlace'
      BY <2>2 DEF OneInv, SendRequest, OnePlace, Queued
    <3>9. \A d \in Conns : NotYet(d)'
      BY <2>2, <3>1, <3>3, <3>5 DEF OneInv, SendRequest, NotYet, Queued, TypeOK
    <3>10. \A d \in Conns : OneExchange(d)'
      <4>1. replies' = replies
        BY <2>2 DEF SendRequest
      <4>2. OneExchange(c)'
        BY <4>1, <3>1, <3>3, <3>6 DEF OneExchange
      <4>3. ASSUME NEW d \in Conns, d # c PROVE OneExchange(d)'
        BY <4>1, <4>3, <3>5 DEF OneInv, OneExchange
      <4> QED
        BY <4>2, <4>3
    <3>11. \A u \in Threads : HandlerHolds(u)'
      BY <2>2, <3>1, <3>5
         DEF OneInv, SendRequest, HandlerHolds, Taken, IsAnswered, Handling, TypeOK,
             Piece
    <3>12. OneHandler'
      BY <2>2 DEF OneInv, SendRequest, OneHandler, Handling, TypeOK
    <3>13. \A u \in Threads : ReaderHolds(u)'
      BY <2>2, <3>1, <3>5 DEF OneInv, SendRequest, ReaderHolds, Taken, Handling, TypeOK
    <3>14. \A d \in Conns : StillOpen(d)'
      BY <2>2, <3>1 DEF OneInv, SendRequest, StillOpen, IsAnswered, Queued, TypeOK
    <3>15. \A d \in Conns : StillAsked(d)'
      BY <2>2, <3>1, <3>5, <3>7
         DEF OneInv, SendRequest, StillAsked, IsAnswered, InKernel, InThread, TypeOK
    <3> QED
      BY <3>8, <3>9, <3>10, <3>11, <3>12, <3>13, <3>14, <3>15 DEF OneInv
  <2>3. ASSUME NEW c \in Conns, ClientClose(c) PROVE OneInv'
    <3>1. OnePlace'
      BY <2>3 DEF OneInv, ClientClose, OnePlace, Queued
    <3>2. \A d \in Conns : NotYet(d)'
      BY <2>3 DEF OneInv, ClientClose, NotYet, Queued, TypeOK
    <3>3. \A d \in Conns : OneExchange(d)'
      BY <2>3 DEF OneInv, ClientClose, OneExchange, TypeOK
    <3>4. \A u \in Threads : HandlerHolds(u)'
      BY <2>3 DEF OneInv, ClientClose, HandlerHolds, Taken, IsAnswered, Handling, TypeOK
    <3>5. OneHandler'
      BY <2>3 DEF OneInv, ClientClose, OneHandler, Handling, TypeOK
    <3>6. \A u \in Threads : ReaderHolds(u)'
      BY <2>3 DEF OneInv, ClientClose, ReaderHolds, Taken, Handling, TypeOK
    <3>7. \A d \in Conns : StillOpen(d)'
      BY <2>3 DEF OneInv, ClientClose, StillOpen, IsAnswered, Queued, TypeOK
    <3>8. \A d \in Conns : StillAsked(d)'
      BY <2>3
         DEF OneInv, ClientClose, StillAsked, IsAnswered, InKernel, InThread, TypeOK
    <3> QED
      BY <3>1, <3>2, <3>3, <3>4, <3>5, <3>6, <3>7, <3>8 DEF OneInv
  <2>4. ASSUME NEW f \in Fds, NEW t \in Threads, Accept(f, t) PROVE OneInv'
    <3>1. \A d : Queued(d)' <=> Queued(d) /\ d # Head(backlog)
      <4>1. backlog \in Seq(Conns) /\ backlog # <<>> /\ backlog' = Tail(backlog)
        BY <2>4 DEF Accept, TypeOK
      <4>2. Distinct(backlog)
        BY DEF Distinct, OneInv, OnePlace
      <4>3. \A d : Member(Tail(backlog), d) <=> Member(backlog, d) /\ d # Head(backlog)
        BY <4>1, <4>2, TailMembers
      <4> QED
        BY <4>1, <4>3 DEF Queued, Member
    <3>2. Distinct(backlog)'
      BY <2>4, TailMembers DEF Accept, Distinct, OneInv, OnePlace, TypeOK
    <3>3. Head(backlog) \in Conns /\ Queued(Head(backlog))
      BY <2>4, TailMembers
         DEF Accept, Queued, Member, Distinct, OneInv, OnePlace, TypeOK
    <3>4. /\ fdt[f] = NoConn /\ fdt'[f] = Head(backlog)
          /\ \A g \in Fds : g # f => fdt'[g] = fdt[g]
          /\ \A g \in Fds : fdt[g] # Head(backlog)
      BY <2>4, <3>3 DEF Accept, FreeFds, OneInv, OnePlace, TypeOK
    <3>5. \A u \in Threads : u # t => pc'[u] = pc[u] /\ sd'[u] = sd[u]
      BY <2>4 DEF Accept, TypeOK
    <3>6. pc[t] = "free" /\ pc'[t] = "loop"
      BY <2>4 DEF Accept, IdleThreads, TypeOK
    <3>7. OnePlace'
      BY <3>1, <3>2, <3>3, <3>4 DEF OneInv, OnePlace, Distinct
    <3>8. \A d \in Conns : NotYet(d)'
      BY <2>4, <3>1, <3>3, <3>4 DEF OneInv, Accept, NotYet, TypeOK
    <3>9. \A d \in Conns : OneExchange(d)'
      BY <2>4 DEF OneInv, Accept, OneExchange, TypeOK
    <3>10. \A u \in Threads : HandlerHolds(u)'
      <4> SUFFICES ASSUME NEW u \in Threads, pc'[u] \in Handling PROVE HandlerHolds(u)'
        BY DEF HandlerHolds
      <4>1. pc'[u] = pc[u] /\ sd'[u] = sd[u] /\ sd[u] \in Fds /\ fdt[sd[u]] # NoConn
        BY <2>4, <3>5, <3>6 DEF Accept, OneInv, HandlerHolds, Handling, TypeOK, Piece
      <4>2. fdt'[sd[u]] = fdt[sd[u]]
        BY <3>4, <4>1
      <4> QED
        BY <2>4, <4>1, <4>2
           DEF Accept, OneInv, HandlerHolds, Taken, IsAnswered, Handling
    <3>11. OneHandler'
      BY <2>4, <3>5, <3>6 DEF OneInv, Accept, OneHandler, Handling, TypeOK
    <3>12. \A u \in Threads : ReaderHolds(u)'
      <4> SUFFICES ASSUME NEW u \in Threads, pc'[u] = "recv" PROVE ReaderHolds(u)'
        BY DEF ReaderHolds
      <4>1. pc'[u] = pc[u] /\ sd'[u] = sd[u] /\ sd[u] \in Fds /\ at[u] # NoConn
        BY <2>4, <3>5, <3>6 DEF Accept, TypeOK, Handling
      <4>2. fdt[sd[u]] = at[u] => fdt'[sd[u]] = at[u]
        BY <3>4, <4>1
      <4> QED
        BY <2>4, <4>1, <4>2 DEF Accept, OneInv, ReaderHolds, Taken
    <3>13. \A d \in Conns : StillOpen(d)'
      <4> SUFFICES ASSUME NEW d \in Conns PROVE StillOpen(d)'
        OBVIOUS
      <4>1. Queued(d) => Queued(d)' \/ fdt'[f] = d
        BY <3>1, <3>4
      <4>2. ASSUME NEW g \in Fds, fdt[g] = d PROVE fdt'[g] = d
        BY <3>4, <4>2
      <4> QED
        BY <2>4, <4>1, <4>2 DEF Accept, OneInv, StillOpen, IsAnswered
    <3>14. \A d \in Conns : StillAsked(d)'
      <4> SUFFICES ASSUME NEW d \in Conns PROVE StillAsked(d)'
        OBVIOUS
      <4>1. InThread(d) => InThread(d)'
        BY <2>4, <3>5, <3>6 DEF Accept, InThread
      <4> QED
        BY <2>4, <4>1 DEF Accept, OneInv, StillAsked, IsAnswered, InKernel
    <3> QED
      BY <3>7, <3>8, <3>9, <3>10, <3>11, <3>12, <3>13, <3>14 DEF OneInv
  <2>5. ASSUME NEW f \in Fds, AcceptWithoutThread(f) PROVE OneInv'
    <3>1. \A d : Queued(d)' <=> Queued(d) /\ d # Head(backlog)
      <4>1. backlog \in Seq(Conns) /\ backlog # <<>> /\ backlog' = Tail(backlog)
        BY <2>5 DEF AcceptWithoutThread, TypeOK
      <4>2. Distinct(backlog)
        BY DEF Distinct, OneInv, OnePlace
      <4>3. \A d : Member(Tail(backlog), d) <=> Member(backlog, d) /\ d # Head(backlog)
        BY <4>1, <4>2, TailMembers
      <4> QED
        BY <4>1, <4>3 DEF Queued, Member
    <3>2. Distinct(backlog)'
      BY <2>5, TailMembers DEF AcceptWithoutThread, Distinct, OneInv, OnePlace, TypeOK
    <3>3. Head(backlog) \in Conns /\ Queued(Head(backlog))
      BY <2>5, TailMembers
         DEF AcceptWithoutThread, Queued, Member, Distinct, OneInv, OnePlace, TypeOK
    <3>4. /\ fdt[f] = NoConn /\ fdt'[f] = Head(backlog)
          /\ \A g \in Fds : g # f => fdt'[g] = fdt[g]
          /\ \A g \in Fds : fdt[g] # Head(backlog)
      BY <2>5, <3>3 DEF AcceptWithoutThread, FreeFds, OneInv, OnePlace, TypeOK
    <3>5. OnePlace'
      BY <3>1, <3>2, <3>3, <3>4 DEF OneInv, OnePlace, Distinct
    <3>6. \A d \in Conns : NotYet(d)'
      BY <2>5, <3>1, <3>3, <3>4 DEF OneInv, AcceptWithoutThread, NotYet, TypeOK
    <3>7. \A d \in Conns : OneExchange(d)'
      BY <2>5 DEF OneInv, AcceptWithoutThread, OneExchange, TypeOK
    <3>8. \A u \in Threads : HandlerHolds(u)'
      <4> SUFFICES ASSUME NEW u \in Threads, pc'[u] \in Handling PROVE HandlerHolds(u)'
        BY DEF HandlerHolds
      <4>1. pc'[u] = pc[u] /\ sd'[u] = sd[u] /\ sd[u] \in Fds /\ fdt[sd[u]] # NoConn
        BY <2>5 DEF AcceptWithoutThread, OneInv, HandlerHolds, Handling, TypeOK, Piece
      <4>2. fdt'[sd[u]] = fdt[sd[u]]
        BY <3>4, <4>1
      <4> QED
        BY <2>5, <4>1, <4>2
           DEF AcceptWithoutThread, OneInv, HandlerHolds, Taken, IsAnswered, Handling
    <3>9. OneHandler'
      BY <2>5 DEF OneInv, AcceptWithoutThread, OneHandler, Handling, TypeOK
    <3>10. \A u \in Threads : ReaderHolds(u)'
      <4> SUFFICES ASSUME NEW u \in Threads, pc'[u] = "recv" PROVE ReaderHolds(u)'
        BY DEF ReaderHolds
      <4>1. pc'[u] = pc[u] /\ sd'[u] = sd[u] /\ sd[u] \in Fds /\ at[u] # NoConn
        BY <2>5 DEF AcceptWithoutThread, TypeOK, Handling
      <4>2. fdt[sd[u]] = at[u] => fdt'[sd[u]] = at[u]
        BY <3>4, <4>1
      <4> QED
        BY <2>5, <4>1, <4>2 DEF AcceptWithoutThread, OneInv, ReaderHolds, Taken
    <3>11. \A d \in Conns : StillOpen(d)'
      <4> SUFFICES ASSUME NEW d \in Conns PROVE StillOpen(d)'
        OBVIOUS
      <4>1. Queued(d) => Queued(d)' \/ fdt'[f] = d
        BY <3>1, <3>4
      <4>2. ASSUME NEW g \in Fds, fdt[g] = d PROVE fdt'[g] = d
        BY <3>4, <4>2
      <4> QED
        BY <2>5, <4>1, <4>2 DEF AcceptWithoutThread, OneInv, StillOpen, IsAnswered
    <3>12. \A d \in Conns : StillAsked(d)'
      <4> SUFFICES ASSUME NEW d \in Conns PROVE StillAsked(d)'
        OBVIOUS
      <4>1. InThread(d) => InThread(d)'
        BY <2>5 DEF AcceptWithoutThread, InThread
      <4> QED
        BY <2>5, <4>1 DEF AcceptWithoutThread, OneInv, StillAsked, IsAnswered, InKernel
    <3> QED
      BY <3>5, <3>6, <3>7, <3>8, <3>9, <3>10, <3>11, <3>12 DEF OneInv
  <2>6. ASSUME NEW t \in Threads, AcceptFails(t) PROVE OneInv'
    <3>1. \A u \in Threads : u # t =>
             pc'[u] = pc[u] /\ sd'[u] = sd[u] /\ at'[u] = at[u] /\ req'[u] = req[u]
      BY <2>6 DEF AcceptFails, IdleThreads, TypeOK
    <3>2. pc[t] = "free" /\ pc'[t] = "loop"
      BY <2>6 DEF AcceptFails, IdleThreads, TypeOK
    <3>3. OnePlace'
      BY <2>6 DEF OneInv, AcceptFails, OnePlace, Queued
    <3>4. \A d \in Conns : NotYet(d)'
      BY <2>6 DEF OneInv, AcceptFails, NotYet, Queued
    <3>5. \A d \in Conns : OneExchange(d)'
      BY <2>6 DEF OneInv, AcceptFails, OneExchange
    <3>6. \A u \in Threads : HandlerHolds(u)'
      BY <2>6, <3>1, <3>2
         DEF OneInv, AcceptFails, HandlerHolds, Taken, IsAnswered, Handling
    <3>7. OneHandler'
      BY <3>1, <3>2 DEF OneInv, OneHandler, Handling
    <3>8. \A u \in Threads : ReaderHolds(u)'
      BY <2>6, <3>1, <3>2 DEF OneInv, AcceptFails, ReaderHolds, Taken
    <3>9. \A d \in Conns : StillOpen(d)'
      BY <2>6 DEF OneInv, AcceptFails, StillOpen, IsAnswered, Queued
    <3>10. \A d \in Conns : StillAsked(d)'
      BY <2>6, <3>1, <3>2
         DEF OneInv, AcceptFails, StillAsked, IsAnswered, InKernel, InThread
    <3> QED
      BY <3>3, <3>4, <3>5, <3>6, <3>7, <3>8, <3>9, <3>10 DEF OneInv
  <2>7. ASSUME NEW t \in Threads, EnterRecv(t) PROVE OneInv'
    <3>1. \A u \in Threads : u # t =>
             pc'[u] = pc[u] /\ sd'[u] = sd[u] /\ at'[u] = at[u] /\ req'[u] = req[u]
      BY <2>7 DEF EnterRecv, TypeOK
    <3>2. pc[t] = "loop" /\ pc'[t] = "recv"
      BY <2>7 DEF EnterRecv, TypeOK
    <3>3. sd'[t] = sd[t] /\ at'[t] = fdt[sd[t]]
      BY <2>7 DEF EnterRecv, Named, TypeOK
    <3>4. OnePlace'
      BY <2>7 DEF OneInv, EnterRecv, OnePlace, Queued
    <3>5. \A d \in Conns : NotYet(d)'
      BY <2>7 DEF OneInv, EnterRecv, NotYet, Queued
    <3>6. \A d \in Conns : OneExchange(d)'
      BY <2>7 DEF OneInv, EnterRecv, OneExchange
    <3>7. \A u \in Threads : HandlerHolds(u)'
      BY <2>7, <3>1, <3>2
         DEF OneInv, EnterRecv, HandlerHolds, Taken, IsAnswered, Handling
    <3>8. OneHandler'
      BY <3>1, <3>2 DEF OneInv, OneHandler, Handling
    <3>9. \A u \in Threads : ReaderHolds(u)'
      BY <2>7, <3>1, <3>2, <3>3 DEF OneInv, EnterRecv, ReaderHolds, Taken
    <3>10. \A d \in Conns : StillOpen(d)'
      BY <2>7 DEF OneInv, EnterRecv, StillOpen, IsAnswered, Queued
    <3>11. \A d \in Conns : StillAsked(d)'
      BY <2>7, <3>1, <3>2
         DEF OneInv, EnterRecv, StillAsked, IsAnswered, InKernel, InThread
    <3> QED
      BY <3>4, <3>5, <3>6, <3>7, <3>8, <3>9, <3>10, <3>11 DEF OneInv
  <2>8. ASSUME NEW t \in Threads, RecvBadFd(t) PROVE OneInv'
    <3>1. \A u \in Threads : u # t =>
             pc'[u] = pc[u] /\ sd'[u] = sd[u] /\ at'[u] = at[u] /\ req'[u] = req[u]
      BY <2>8 DEF RecvBadFd, Finish, TypeOK
    <3>2. pc[t] = "loop" /\ pc'[t] = "free"
      BY <2>8 DEF RecvBadFd, Finish, TypeOK
    <3>3. OnePlace'
      BY <2>8 DEF OneInv, RecvBadFd, OnePlace, Queued
    <3>4. \A d \in Conns : NotYet(d)'
      BY <2>8 DEF OneInv, RecvBadFd, NotYet, Queued
    <3>5. \A d \in Conns : OneExchange(d)'
      BY <2>8 DEF OneInv, RecvBadFd, OneExchange
    <3>6. \A u \in Threads : HandlerHolds(u)'
      BY <2>8, <3>1, <3>2
         DEF OneInv, RecvBadFd, HandlerHolds, Taken, IsAnswered, Handling
    <3>7. OneHandler'
      BY <3>1, <3>2 DEF OneInv, OneHandler, Handling
    <3>8. \A u \in Threads : ReaderHolds(u)'
      BY <2>8, <3>1, <3>2 DEF OneInv, RecvBadFd, ReaderHolds, Taken
    <3>9. \A d \in Conns : StillOpen(d)'
      BY <2>8 DEF OneInv, RecvBadFd, StillOpen, IsAnswered, Queued
    <3>10. \A d \in Conns : StillAsked(d)'
      BY <2>8, <3>1, <3>2
         DEF OneInv, RecvBadFd, StillAsked, IsAnswered, InKernel, InThread
    <3> QED
      BY <3>3, <3>4, <3>5, <3>6, <3>7, <3>8, <3>9, <3>10 DEF OneInv
  <2>9. ASSUME NEW t \in Threads, RecvData(t) PROVE OneInv'
    <3>1. \A u \in Threads : u # t =>
             pc'[u] = pc[u] /\ sd'[u] = sd[u] /\ at'[u] = at[u] /\ req'[u] = req[u]
      BY <2>9 DEF RecvData, TypeOK
    <3>2. pc[t] = "recv" /\ pc'[t] = "analyze"
      BY <2>9 DEF RecvData, TypeOK
    <3> DEFINE c == at[t]
    <3>3. c \in Conns /\ pending[c] # <<>> /\ sd[t] \in Fds
      BY <2>9 DEF RecvData, TypeOK, Handling
    <3>4. /\ asked[c] = 1
          /\ replies[c] = <<>>
          /\ pending[c] = <<Only(c)>>
      BY <3>3 DEF OneInv, OneExchange, TypeOK
    <3>5. fdt[sd[t]] = c
      BY <2>9, <3>3 DEF RecvData, OneInv, ReaderHolds, Taken
    <3>6. req'[t] = Only(c) /\ req'[t].conn = c /\ sd'[t] = sd[t]
      BY <2>9, <3>3, <3>4 DEF RecvData, TypeOK, Only
    <3>7. \A u \in Threads : pc[u] \in Handling => req[u].conn # c
      BY <3>3 DEF OneInv, HandlerHolds, Taken
    <3>8. pending'[c] = <<>> /\ \A d \in Conns : d # c => pending'[d] = pending[d]
      BY <2>9, <3>3 DEF RecvData, TypeOK
    <3> HIDE DEF c
    <3>9. OnePlace'
      BY <2>9 DEF OneInv, RecvData, OnePlace, Queued
    <3>10. \A d \in Conns : NotYet(d)'
      BY <2>9 DEF OneInv, RecvData, NotYet, Queued
    <3>11. \A d \in Conns : OneExchange(d)'
      BY ZenonT(30), <2>9, <3>3, <3>4, <3>8 DEF OneInv, RecvData, OneExchange
    <3>12. \A u \in Threads : HandlerHolds(u)'
      <4> SUFFICES ASSUME NEW u \in Threads, pc'[u] \in Handling PROVE HandlerHolds(u)'
        BY DEF HandlerHolds
      <4>1. CASE u = t
        BY <2>9, <4>1, <3>2, <3>3, <3>4, <3>5, <3>6, <3>8
           DEF RecvData, HandlerHolds, Taken, IsAnswered
      <4>2. CASE u # t
        <5>1. req[u] \in Piece /\ req[u].conn \in Conns
          BY <4>2, <3>1 DEF TypeOK, Piece
        <5>2. Taken(req[u].conn)'
          BY <2>9, <4>2, <5>1, <3>1, <3>7, <3>8
             DEF RecvData, OneInv, HandlerHolds, Taken
        <5> QED
          BY <2>9, <4>2, <5>2, <3>1 DEF RecvData, OneInv, HandlerHolds, IsAnswered
      <4> QED
        BY <4>1, <4>2
    <3>13. OneHandler'
      BY <3>1, <3>2, <3>6, <3>7 DEF OneInv, OneHandler, Handling
    <3>14. \A u \in Threads : ReaderHolds(u)'
      <4> SUFFICES ASSUME NEW u \in Threads, pc'[u] = "recv" PROVE ReaderHolds(u)'
        BY DEF ReaderHolds
      <4>1. u # t /\ at[u] \in Conns
        BY <3>1, <3>2 DEF TypeOK
      <4>2. Taken(at[u]) => Taken(at[u])'
        BY <2>9, <4>1, <3>3, <3>8 DEF RecvData, Taken
      <4> QED
        BY <2>9, <4>1, <4>2, <3>1 DEF RecvData, OneInv, ReaderHolds, Taken
    <3>15. \A d \in Conns : StillOpen(d)'
      BY <2>9 DEF OneInv, RecvData, StillOpen, IsAnswered, Queued
    <3>16. \A d \in Conns : StillAsked(d)'
      <4> SUFFICES ASSUME NEW d \in Conns PROVE StillAsked(d)'
        OBVIOUS
      <4>1. CASE d = c
        BY <4>1, <3>2, <3>6 DEF StillAsked, InThread
      <4>2. CASE d # c
        <5>1. InThread(d) => InThread(d)'
          BY <3>1, <3>2 DEF InThread
        <5> QED
          BY <2>9, <4>2, <5>1, <3>8
             DEF RecvData, OneInv, StillAsked, IsAnswered, InKernel
      <4> QED
        BY <4>1, <4>2
    <3> QED
      BY <3>9, <3>10, <3>11, <3>12, <3>13, <3>14, <3>15, <3>16 DEF OneInv
  <2>10. ASSUME NEW t \in Threads, RecvEof(t) PROVE OneInv'
    <3>1. \A u \in Threads : u # t =>
             pc'[u] = pc[u] /\ sd'[u] = sd[u] /\ at'[u] = at[u] /\ req'[u] = req[u]
      BY <2>10 DEF RecvEof, Finish, TypeOK
    <3>2. pc[t] = "recv" /\ pc'[t] = "free"
      BY <2>10 DEF RecvEof, Finish, TypeOK
    <3>3. OnePlace'
      BY <2>10 DEF OneInv, RecvEof, OnePlace, Queued
    <3>4. \A d \in Conns : NotYet(d)'
      BY <2>10 DEF OneInv, RecvEof, NotYet, Queued
    <3>5. \A d \in Conns : OneExchange(d)'
      BY <2>10 DEF OneInv, RecvEof, OneExchange
    <3>6. \A u \in Threads : HandlerHolds(u)'
      BY <2>10, <3>1, <3>2
         DEF OneInv, RecvEof, HandlerHolds, Taken, IsAnswered, Handling
    <3>7. OneHandler'
      BY <3>1, <3>2 DEF OneInv, OneHandler, Handling
    <3>8. \A u \in Threads : ReaderHolds(u)'
      BY <2>10, <3>1, <3>2 DEF OneInv, RecvEof, ReaderHolds, Taken
    <3>9. \A d \in Conns : StillOpen(d)'
      BY <2>10 DEF OneInv, RecvEof, StillOpen, IsAnswered, Queued
    <3>10. \A d \in Conns : StillAsked(d)'
      BY <2>10, <3>1, <3>2
         DEF OneInv, RecvEof, StillAsked, IsAnswered, InKernel, InThread
    <3> QED
      BY <3>3, <3>4, <3>5, <3>6, <3>7, <3>8, <3>9, <3>10 DEF OneInv
  <2>11. ASSUME NEW t \in Threads, Analyze(t) PROVE OneInv'
    <3>1. \A u \in Threads : u # t =>
             pc'[u] = pc[u] /\ sd'[u] = sd[u] /\ at'[u] = at[u] /\ req'[u] = req[u]
      BY <2>11 DEF Analyze, TypeOK
    <3>2. pc[t] = "analyze" /\ pc'[t] = "send"
      BY <2>11 DEF Analyze, TypeOK
    <3>3. req' = req /\ sd' = sd
      BY <2>11 DEF Analyze
    <3>4. OnePlace'
      BY <2>11 DEF OneInv, Analyze, OnePlace, Queued
    <3>5. \A d \in Conns : NotYet(d)'
      BY <2>11 DEF OneInv, Analyze, NotYet, Queued
    <3>6. \A d \in Conns : OneExchange(d)'
      BY <2>11 DEF OneInv, Analyze, OneExchange
    <3>7. \A u \in Threads : HandlerHolds(u)'
      BY <2>11, <3>1, <3>2, <3>3
         DEF OneInv, Analyze, HandlerHolds, Taken, IsAnswered, Handling
    <3>8. OneHandler'
      BY <3>1, <3>2, <3>3 DEF OneInv, OneHandler, Handling
    <3>9. \A u \in Threads : ReaderHolds(u)'
      BY <2>11, <3>1, <3>2 DEF OneInv, Analyze, ReaderHolds, Taken
    <3>10. \A d \in Conns : StillOpen(d)'
      BY <2>11 DEF OneInv, Analyze, StillOpen, IsAnswered, Queued
    <3>11. \A d \in Conns : StillAsked(d)'
      <4> SUFFICES ASSUME NEW d \in Conns PROVE StillAsked(d)'
        OBVIOUS
      <4>1. InThread(d) => InThread(d)'
        BY <3>1, <3>2, <3>3 DEF InThread
      <4> QED
        BY <2>11, <4>1 DEF Analyze, OneInv, StillAsked, IsAnswered, InKernel
    <3> QED
      BY <3>4, <3>5, <3>6, <3>7, <3>8, <3>9, <3>10, <3>11 DEF OneInv
  <2>12. ASSUME NEW t \in Threads, Send(t) PROVE OneInv'
    <3>1. \A u \in Threads : u # t =>
             pc'[u] = pc[u] /\ sd'[u] = sd[u] /\ at'[u] = at[u] /\ req'[u] = req[u]
      BY <2>12 DEF Send, TypeOK
    <3>2. pc[t] = "send" /\ pc'[t] = "close"
      BY <2>12 DEF Send, TypeOK
    <3> DEFINE c == req[t].conn
    <3>3. /\ c \in Conns
          /\ fdt[sd[t]] = c
          /\ req[t] = Only(c)
          /\ Taken(c)
          /\ replies[c] = <<>>
      BY <3>2 DEF OneInv, HandlerHolds, Handling, IsAnswered, TypeOK, Piece
    <3>4. req' = req /\ sd' = sd
      BY <2>12 DEF Send
    <3>5. \A u \in Threads : pc[u] \in Handling /\ u # t => req[u].conn # c
      BY <3>2 DEF OneInv, OneHandler, Handling
    <3>6. /\ \A d \in Conns : d # c => replies'[d] = replies[d]
          /\ \/ phase[c] # "gone" /\ replies'[c] = <<Only(c)>>
             \/ phase[c] = "gone" /\ replies'[c] = <<>>
      <4>1. CASE phase[c] # "gone"
        <5>1. replies' = [replies EXCEPT ![c] = Append(replies[c], Only(c))]
          BY <2>12, <3>3, <4>1 DEF Send
        <5> QED
          BY <5>1, <3>3, <4>1 DEF TypeOK
      <4>2. CASE phase[c] = "gone"
        <5>1. replies' = replies
          BY <2>12, <3>3, <4>2 DEF Send
        <5> QED
          BY <5>1, <3>3, <4>2
      <4> QED
        BY <4>1, <4>2
    <3> HIDE DEF c
    <3>7. OnePlace'
      BY <2>12 DEF OneInv, Send, OnePlace, Queued
    <3>8. \A d \in Conns : NotYet(d)'
      BY <2>12 DEF OneInv, Send, NotYet, Queued
    <3>9. \A d \in Conns : OneExchange(d)'
      BY <2>12, <3>3, <3>6 DEF OneInv, Send, OneExchange, Taken
    <3>10. \A u \in Threads : HandlerHolds(u)'
      <4> SUFFICES ASSUME NEW u \in Threads, pc'[u] \in Handling PROVE HandlerHolds(u)'
        BY DEF HandlerHolds
      <4>1. CASE u = t
        BY <2>12, <4>1, <3>2, <3>3, <3>4, <3>6
           DEF Send, HandlerHolds, Taken, IsAnswered, c
      <4>2. CASE u # t
        <5>1. req[u].conn \in Conns /\ req[u].conn # c
          BY <4>2, <3>1, <3>5 DEF TypeOK, Piece
        <5> QED
          BY <2>12, <4>2, <5>1, <3>1, <3>4, <3>6
             DEF Send, OneInv, HandlerHolds, Taken, IsAnswered
      <4> QED
        BY <4>1, <4>2
    <3>11. OneHandler'
      BY <3>1, <3>2, <3>4 DEF OneInv, OneHandler, Handling
    <3>12. \A u \in Threads : ReaderHolds(u)'
      BY <2>12, <3>1, <3>2 DEF OneInv, Send, ReaderHolds, Taken
    <3>13. \A d \in Conns : StillOpen(d)'
      BY <2>12, <3>3, <3>6 DEF OneInv, Send, StillOpen, IsAnswered, Queued
    <3>14. \A d \in Conns : StillAsked(d)'
      <4> SUFFICES ASSUME NEW d \in Conns PROVE StillAsked(d)'
        OBVIOUS
      <4>1. CASE d = c
        <5>1. phase' = phase
          BY <2>12 DEF Send
        <5>2. replies'[c] # <<>> \/ phase[c] = "gone"
          BY <3>6
        <5> QED
          BY <4>1, <5>1, <5>2 DEF StillAsked, IsAnswered
      <4>2. CASE d # c
        <5>1. InThread(d) => InThread(d)'
          BY <4>2, <3>1, <3>2, <3>4 DEF InThread, c
        <5> QED
          BY <2>12, <4>2, <5>1, <3>6 DEF Send, OneInv, StillAsked, IsAnswered, InKernel
      <4> QED
        BY <4>1, <4>2
    <3> QED
      BY <3>7, <3>8, <3>9, <3>10, <3>11, <3>12, <3>13, <3>14 DEF OneInv
  <2>13. ASSUME NEW t \in Threads, Close(t) PROVE OneInv'
    <3>1. \A u \in Threads : u # t =>
             pc'[u] = pc[u] /\ sd'[u] = sd[u] /\ at'[u] = at[u] /\ req'[u] = req[u]
      BY <2>13 DEF Close, TypeOK
    <3>2. pc[t] = "close" /\ pc'[t] = "loop"
      BY <2>13 DEF Close, TypeOK
    <3> DEFINE c == req[t].conn
    <3>3. sd[t] \in Fds /\ fdt[sd[t]] = c
      BY <3>2 DEF OneInv, HandlerHolds, Handling, TypeOK
    <3>4. asked[c] = 1 /\ pending[c] = <<>>
      BY <3>2 DEF OneInv, HandlerHolds, Handling, Taken
    <3>5. replies[c] # <<>> \/ phase[c] = "gone"
      BY <3>2 DEF OneInv, HandlerHolds, Handling, IsAnswered
    <3>6. fdt'[sd[t]] = NoConn /\ \A f \in Fds : f # sd[t] => fdt'[f] = fdt[f]
      BY <2>13, <3>3 DEF Close, TypeOK
    <3>7. ~Queued(NoConn)
      BY DEF Queued, TypeOK
    <3>8. \A u \in Threads : pc[u] \in Handling /\ u # t => req[u].conn # c
      BY <3>2 DEF OneInv, OneHandler, Handling
    <3> HIDE DEF c
    <3>9. OnePlace'
      BY <2>13, <3>3, <3>6, <3>7 DEF OneInv, Close, OnePlace, Queued
    <3>10. \A d \in Conns : NotYet(d)'
      BY <2>13, <3>3, <3>6 DEF OneInv, Close, NotYet, Queued
    <3>11. \A d \in Conns : OneExchange(d)'
      BY <2>13 DEF OneInv, Close, OneExchange
    <3>12. \A u \in Threads : HandlerHolds(u)'
      <4> SUFFICES ASSUME NEW u \in Threads, pc'[u] \in Handling PROVE HandlerHolds(u)'
        BY DEF HandlerHolds
      <4>1. u # t /\ pc[u] \in Handling /\ sd[u] \in Fds
        BY <3>1, <3>2 DEF Handling, TypeOK
      <4>2. sd[u] # sd[t]
        BY <4>1, <3>3, <3>8 DEF OneInv, HandlerHolds, Taken, IsAnswered
      <4> QED
        BY <2>13, <4>1, <4>2, <3>1, <3>6
           DEF Close, OneInv, HandlerHolds, Taken, IsAnswered
    <3>13. OneHandler'
      BY <3>1, <3>2 DEF OneInv, OneHandler, Handling
    <3>14. \A u \in Threads : ReaderHolds(u)'
      <4> SUFFICES ASSUME NEW u \in Threads, pc'[u] = "recv" PROVE ReaderHolds(u)'
        BY DEF ReaderHolds
      <4>1. u # t /\ pc[u] = "recv" /\ sd[u] \in Fds
        BY <3>1, <3>2 DEF TypeOK
      <4>2. fdt[sd[u]] = at[u] \/ Taken(at[u])
        BY <4>1 DEF OneInv, ReaderHolds
      <4>3. sd[u] = sd[t] => Taken(at[u])
        BY <4>2, <3>3, <3>4 DEF Taken
      <4> QED
        BY <2>13, <4>1, <4>2, <4>3, <3>1, <3>6 DEF Close, ReaderHolds, Taken
    <3>15. \A d \in Conns : StillOpen(d)'
      <4> SUFFICES ASSUME NEW d \in Conns, phase[d] = "in", ~IsAnswered(d)
                   PROVE  Queued(d)' \/ \E f \in Fds : fdt'[f] = d
        BY <2>13 DEF Close, StillOpen, IsAnswered
      <4>1. Queued(d) \/ \E f \in Fds : fdt[f] = d
        BY DEF OneInv, StillOpen
      <4>2. Queued(d) => Queued(d)'
        BY <2>13 DEF Close, Queued
      <4>3. ASSUME NEW f \in Fds, fdt[f] = d PROVE fdt'[f] = d
        BY <4>3, <3>3, <3>6, <3>5 DEF IsAnswered
      <4> QED
        BY <4>1, <4>2, <4>3
    <3>16. \A d \in Conns : StillAsked(d)'
      BY <2>13, <3>1, <3>2 DEF OneInv, Close, StillAsked, IsAnswered, InKernel, InThread
    <3> QED
      BY <3>9, <3>10, <3>11, <3>12, <3>13, <3>14, <3>15, <3>16 DEF OneInv
  <2>14. CASE UNCHANGED vars
    <3> USE <2>14 DEF vars, OneInv
    <3>1. OnePlace'
      BY DEF OnePlace, Queued
    <3>2. \A c \in Conns : NotYet(c)' /\ OneExchange(c)'
      BY DEF NotYet, Queued, OneExchange
    <3>3. \A t \in Threads : HandlerHolds(t)' /\ ReaderHolds(t)'
      BY DEF HandlerHolds, ReaderHolds, Taken, IsAnswered
    <3>4. OneHandler'
      BY DEF OneHandler
    <3>5. \A c \in Conns : StillOpen(c)' /\ StillAsked(c)'
      BY DEF StillOpen, StillAsked, Queued, IsAnswered, InKernel, InThread
    <3> QED
      BY <3>1, <3>2, <3>3, <3>4, <3>5
  <2>15. \A c \in Conns : ~SendRest(c)
    BY DEF SendRest, OneInv, OneExchange
  <2> QED
    BY <2>1, <2>2, <2>3, <2>4, <2>5, <2>6, <2>7, <2>8, <2>9, <2>10, <2>11,
       <2>12, <2>13, <2>14, <2>15
       DEF Next, Environment, AcceptLoop, Step
<1> QED
  BY <1>1, <1>2, TypeCorrect, PTL DEF Spec

-----------------------------------------------------------------------------

\* However many clients, threads and descriptors there are, and however the
\* threads' stale numbers are reused, a client of one request gets its own reply.
THEOREM RepliesReachTheirClient ==
  ASSUME OneRequest PROVE Spec => []ResponseIntegrity
<1>1. OneInv => ResponseIntegrity
  <2> SUFFICES ASSUME OneInv, NEW c \in Conns, NEW i \in DOMAIN replies[c]
               PROVE  replies[c][i].conn = c /\ replies[c][i].nr = i
    BY DEF ResponseIntegrity
  <2>1. replies[c] \in {<<>>, <<Only(c)>>}
    BY DEF OneInv, OneExchange
  <2> QED
    BY <2>1 DEF Only
<1> QED
  BY <1>1, OneInvariant, PTL

\* A request that was sent is in one place while its client waits, in the kernel,
\* in one thread or in a reply: no thread loses it, and no two of them work on it.
THEOREM RequestNeverLost ==
  ASSUME OneRequest PROVE Spec => []RequestInOnePlace
<1>1. OneInv => RequestInOnePlace
  <2> SUFFICES ASSUME OneInv, up, NEW c \in Conns, asked[c] > 0, phase[c] = "in"
               PROVE  /\ InKernel(c) \/ InThread(c) \/ IsAnswered(c)
                      /\ ~(InKernel(c) /\ InThread(c))
                      /\ ~(InKernel(c) /\ IsAnswered(c))
                      /\ ~(InThread(c) /\ IsAnswered(c))
                      /\ \A t, u \in Threads :
                            /\ {pc[t], pc[u]} \subseteq {"analyze", "send"}
                            /\ req[t].conn = c
                            /\ req[u].conn = c
                            => t = u
    BY DEF RequestInOnePlace
  <2>1. asked[c] = 1
    BY DEF OneInv, TypeOK, OneRequest
  <2>2. InKernel(c) \/ InThread(c) \/ IsAnswered(c)
    BY <2>1 DEF OneInv, StillAsked
  <2>3. ASSUME InThread(c) PROVE ~InKernel(c) /\ ~IsAnswered(c)
    BY <2>3 DEF InThread, InKernel, IsAnswered, OneInv, HandlerHolds, Handling, Taken
  <2>4. ~(InKernel(c) /\ IsAnswered(c))
    BY DEF InKernel, IsAnswered, OneInv, OneExchange
  <2>5. ASSUME NEW t \in Threads, NEW u \in Threads,
               {pc[t], pc[u]} \subseteq {"analyze", "send"},
               req[t].conn = c, req[u].conn = c
        PROVE  t = u
    BY <2>5 DEF OneInv, OneHandler, Handling
  <2> QED
    BY <2>2, <2>3, <2>4, <2>5
<1> QED
  BY <1>1, OneInvariant, PTL

\* A descriptor is taken from a connection only when its client has a reply or has
\* left, whichever thread calls close() on the number.
THEOREM NoConnectionCutShort ==
  ASSUME OneRequest PROVE Spec => ClosedAfterReply
<1> DEFINE Cut == \A f \in Fds : fdt[f] # NoConn /\ fdt'[f] # fdt[f]
                    => IsAnswered(fdt[f]) \/ phase[fdt[f]] = "gone"
<1>1. OneInv /\ [Next]_vars => [Cut]_vars
  <2> SUFFICES ASSUME OneInv, Next, NEW f \in Fds, fdt[f] # NoConn, fdt'[f] # fdt[f]
               PROVE  IsAnswered(fdt[f]) \/ phase[fdt[f]] = "gone"
    OBVIOUS
  <2>1. PICK t \in Threads : Close(t)
    <3>1. ASSUME NEW g \in Fds, g \in FreeFds, fdt' = [fdt EXCEPT ![g] = Head(backlog)]
          PROVE  FALSE
      BY <3>1 DEF FreeFds, OneInv, TypeOK
    <3> QED
      BY <3>1 DEF Next, Environment, AcceptLoop, Step, Connect, SendRequest, SendRest,
         ClientClose, Accept, AcceptWithoutThread, AcceptFails, EnterRecv, RecvBadFd,
         RecvData, RecvEof, Analyze, Send
  <2>2. sd[t] = f /\ pc[t] = "close"
    BY <2>1 DEF Close, OneInv, TypeOK
  <2> QED
    BY <2>2 DEF OneInv, HandlerHolds, Handling
<1> QED
  BY <1>1, OneInvariant, PTL DEF Spec, ClosedAfterReply

-----------------------------------------------------------------------------
(***************************************************************************)
(* No piece of a request is answered twice, for clients of any number of   *)
(* requests in any number of pieces.                                       *)
(***************************************************************************)

\* The members of a sequence with one more, by their places.
LEMMA AppendPlaces ==
  ASSUME NEW S, NEW q \in Seq(S), NEW x \in S
  PROVE  /\ DOMAIN Append(q, x) = DOMAIN q \union {Len(q) + 1}
         /\ Len(q) + 1 \notin DOMAIN q
         /\ \A i \in DOMAIN q : Append(q, x)[i] = q[i]
         /\ Append(q, x)[Len(q) + 1] = x
<1>1. DOMAIN Append(q, x) = 1..(Len(q) + 1) /\ DOMAIN q = 1..Len(q) /\ Len(q) \in Nat
  OBVIOUS
<1>2. \A i \in 1..Len(q) : Append(q, x)[i] = q[i]
  OBVIOUS
<1>3. Append(q, x)[Len(q) + 1] = x
  OBVIOUS
<1> QED
  BY <1>1, <1>2, <1>3

\* A step that sends and reads nothing, and after which no thread is closer to a
\* reply, does not disturb the invariant.
LEMMA QuietStep ==
  ASSUME AnswerInv, TypeOK', UNCHANGED <<asked, due, pending, replies>>,
         \A t \in Threads : pc'[t] \in {"analyze", "send"} =>
           pc'[t] = pc[t] /\ req'[t] = req[t]
  PROVE  AnswerInv'
<1>1. \A t \in Threads : Carries(t)' => Carries(t) /\ req'[t] = req[t]
  BY DEF Carries
<1>2. OnlySent'
  BY <1>1 DEF AnswerInv, OnlySent, Sent
<1>3. OnceInKernel' /\ KernelOrAnswered' /\ AnsweredAtMostOnce'
  BY DEF AnswerInv, OnceInKernel, KernelOrAnswered, AnsweredAtMostOnce
<1>4. OnceInThreads' /\ KernelOrThread' /\ ThreadOrAnswered'
  BY <1>1 DEF AnswerInv, OnceInThreads, KernelOrThread, ThreadOrAnswered
<1> QED
  BY <1>2, <1>3, <1>4 DEF AnswerInv

\* One more piece in the kernel, or none, of which nothing has been sent before.
LEMMA ArriveStep ==
  ASSUME AnswerInv, TypeOK', NEW c \in Conns, NEW p \in Piece,
         UNCHANGED <<pc, req, replies>>,
         Arrive(c, p), p.conn = c, ~Sent(p), SentBy(p, asked', due'),
         \A q \in Piece : Sent(q) => SentBy(q, asked', due')
  PROVE  AnswerInv'
<1> USE ConnServerAssumption DEF ConnServerAssumption
<1>1. pending[c] \in Seq(Piece)
  BY DEF AnswerInv, TypeOK
<1>2. \A d \in Conns : \A i \in DOMAIN pending'[d] :
         \/ i \in DOMAIN pending[d] /\ pending'[d][i] = pending[d][i]
         \/ d = c /\ i = Len(pending[c]) + 1 /\ pending'[d][i] = p
  <2>1. pending' = pending \/ pending' = [pending EXCEPT ![c] = Append(pending[c], p)]
    BY DEF Arrive
  <2>2. CASE pending' = pending
    BY <2>2
  <2>3. CASE pending' = [pending EXCEPT ![c] = Append(pending[c], p)]
    <3>1. pending'[c] = Append(pending[c], p)
      BY <2>3 DEF AnswerInv, TypeOK
    <3>2. \A d \in Conns : d # c => pending'[d] = pending[d]
      BY <2>3 DEF AnswerInv, TypeOK
    <3>3. /\ DOMAIN pending'[c] = DOMAIN pending[c] \union {Len(pending[c]) + 1}
          /\ \A i \in DOMAIN pending[c] : pending'[c][i] = pending[c][i]
          /\ pending'[c][Len(pending[c]) + 1] = p
      BY <3>1, <1>1, AppendPlaces
    <3> QED
      BY <3>2, <3>3
  <2> QED
    BY <2>1, <2>2, <2>3
<1>3. \A d \in Conns : \A i \in DOMAIN pending[d] :
         pending[d][i] \in Piece /\ pending[d][i].conn = d /\ Sent(pending[d][i])
  <2>1. \A d \in Conns : pending[d] \in Seq(Piece)
    BY DEF AnswerInv, TypeOK
  <2>2. \A d \in Conns : \A i \in DOMAIN pending[d] : pending[d][i] \in Piece
    BY <2>1
  <2> QED
    BY <2>2 DEF AnswerInv, OnlySent
<1>4. \A t \in Threads : Carries(t) => req[t] \in Piece /\ Sent(req[t])
  BY DEF AnswerInv, OnlySent, TypeOK, Handling, Carries
<1>5. \A d \in Conns : \A j \in DOMAIN replies[d] :
         replies[d][j] \in Piece /\ Sent(replies[d][j])
  <2>1. \A d \in Conns : replies[d] \in Seq(Piece)
    BY DEF AnswerInv, TypeOK
  <2>2. \A d \in Conns : \A j \in DOMAIN replies[d] : replies[d][j] \in Piece
    BY <2>1
  <2> QED
    BY <2>2 DEF AnswerInv, OnlySent
<1>6. \A t \in Threads : Carries(t)' = Carries(t)
  BY DEF Carries
<1>7. OnlySent'
  <2>1. ASSUME NEW d \in Conns, NEW i \in DOMAIN pending'[d]
        PROVE  pending'[d][i].conn = d /\ SentBy(pending'[d][i], asked', due')
    <3>1. CASE i \in DOMAIN pending[d] /\ pending'[d][i] = pending[d][i]
      BY <3>1, <1>3
    <3>2. CASE d = c /\ pending'[d][i] = p
      BY <3>2
    <3> QED
      BY <3>1, <3>2, <1>2
  <2>2. \A t \in Threads : Carries(t)' => SentBy(req[t], asked', due')
    BY <1>4, <1>6
  <2>3. \A d \in Conns : \A j \in DOMAIN replies[d] : SentBy(replies[d][j], asked', due')
    BY <1>5
  <2> QED
    BY <2>1, <2>2, <2>3 DEF OnlySent, Sent
<1>8. OnceInKernel'
  <2> SUFFICES ASSUME NEW d \in Conns, NEW i \in DOMAIN pending'[d],
                      NEW j \in DOMAIN pending'[d], pending'[d][i] = pending'[d][j]
               PROVE  i = j
    BY DEF OnceInKernel
  <2> QED
    BY <1>2, <1>3 DEF AnswerInv, OnceInKernel
<1>9. KernelOrThread'
  BY <1>2, <1>4, <1>6 DEF AnswerInv, KernelOrThread
<1>10. KernelOrAnswered'
  BY <1>2, <1>5 DEF AnswerInv, KernelOrAnswered
<1>11. OnceInThreads' /\ ThreadOrAnswered' /\ AnsweredAtMostOnce'
  BY <1>6 DEF AnswerInv, OnceInThreads, ThreadOrAnswered, AnsweredAtMostOnce
<1> QED
  BY <1>7, <1>8, <1>9, <1>10, <1>11 DEF AnswerInv

\* recv() moves what is in the kernel to the thread.
LEMMA RecvDataStep ==
  ASSUME AnswerInv, TypeOK', NEW t \in Threads, RecvData(t)
  PROVE  AnswerInv'
<1> DEFINE c == at[t]
           p == Head(pending[c])
<1>1. /\ c \in Conns /\ pending[c] \in Seq(Piece) /\ pending[c] # <<>>
      /\ 1 \in DOMAIN pending[c] /\ p = pending[c][1]
  BY DEF RecvData, AnswerInv, TypeOK
<1>2. /\ \A u \in Threads : u # t => pc'[u] = pc[u] /\ req'[u] = req[u]
      /\ pc[t] = "recv" /\ pc'[t] = "analyze" /\ req'[t] = p
  BY DEF RecvData, AnswerInv, TypeOK
<1>3. \A d \in Conns : \A i \in DOMAIN pending'[d] :
         d # c /\ i \in DOMAIN pending[d] /\ pending'[d][i] = pending[d][i]
  <2>1. pending'[c] = <<>> /\ \A d \in Conns : d # c => pending'[d] = pending[d]
    BY <1>1 DEF RecvData, AnswerInv, TypeOK
  <2> QED
    BY <2>1
<1>4. UNCHANGED <<asked, due, replies>>
  BY DEF RecvData
<1>5. p.conn = c /\ Sent(p)
  BY <1>1 DEF AnswerInv, OnlySent
<1> HIDE DEF c, p
<1>6. \A u \in Threads : u # t => Carries(u)' = Carries(u)
  BY <1>2 DEF Carries
<1>7. OnlySent'
  <2>1. \A d \in Conns : \A i \in DOMAIN pending'[d] :
           pending'[d][i].conn = d /\ SentBy(pending'[d][i], asked', due')
    BY <1>3, <1>4 DEF AnswerInv, OnlySent, Sent
  <2>2. \A u \in Threads : Carries(u)' => SentBy(req'[u], asked', due')
    BY <1>2, <1>4, <1>5, <1>6 DEF AnswerInv, OnlySent, Sent
  <2>3. \A d \in Conns : \A j \in DOMAIN replies'[d] : SentBy(replies'[d][j], asked', due')
    BY <1>4 DEF AnswerInv, OnlySent, Sent
  <2> QED
    BY <2>1, <2>2, <2>3 DEF OnlySent, Sent
<1>8. AnsweredAtMostOnce'
  BY <1>4 DEF AnswerInv, AnsweredAtMostOnce
<1>9. OnceInKernel' /\ KernelOrAnswered'
  BY <1>3, <1>4 DEF AnswerInv, OnceInKernel, KernelOrAnswered
<1>10. \A u \in Threads : u # t /\ Carries(u) => req[u] # p
  BY <1>1 DEF AnswerInv, KernelOrThread
<1>11. OnceInThreads'
  BY <1>2, <1>6, <1>10 DEF AnswerInv, OnceInThreads
<1>12. KernelOrThread'
  <2> SUFFICES ASSUME NEW u \in Threads, NEW d \in Conns, NEW i \in DOMAIN pending'[d],
                      Carries(u)'
               PROVE  pending'[d][i] # req'[u]
    BY DEF KernelOrThread
  <2>1. CASE u = t
    <3>1. pending'[d][i].conn # p.conn
      BY <1>3, <1>5 DEF AnswerInv, OnlySent
    <3> QED
      BY <2>1, <3>1, <1>2
  <2>2. CASE u # t
    BY <2>2, <1>2, <1>3, <1>6 DEF AnswerInv, KernelOrThread
  <2> QED
    BY <2>1, <2>2
<1>13. ThreadOrAnswered'
  <2> SUFFICES ASSUME NEW u \in Threads, NEW d \in Conns, NEW j \in DOMAIN replies[d],
                      Carries(u)'
               PROVE  req'[u] # replies[d][j]
    BY <1>4 DEF ThreadOrAnswered
  <2>1. CASE u = t
    BY <2>1, <1>1, <1>2 DEF AnswerInv, KernelOrAnswered
  <2>2. CASE u # t
    BY <2>2, <1>2, <1>6 DEF AnswerInv, ThreadOrAnswered
  <2> QED
    BY <2>1, <2>2
<1> QED
  BY <1>7, <1>8, <1>9, <1>11, <1>12, <1>13 DEF AnswerInv

\* analyze_method ends the process, or the thread goes on to send().
LEMMA AnalyzeStep ==
  ASSUME AnswerInv, TypeOK', NEW t \in Threads, Analyze(t)
  PROVE  AnswerInv'
<1>1. UNCHANGED <<asked, due, pending, replies, req>>
  BY DEF Analyze, client
<1>2. /\ \A u \in Threads : u # t => pc'[u] = pc[u]
      /\ pc[t] = "analyze" /\ pc'[t] = "send"
  BY DEF Analyze, AnswerInv, TypeOK
<1>3. \A u \in Threads : Carries(u)' = Carries(u)
  BY <1>2 DEF Carries
<1>4. OnlySent'
  BY <1>1, <1>3 DEF AnswerInv, OnlySent, Sent
<1>5. OnceInKernel' /\ KernelOrAnswered' /\ AnsweredAtMostOnce'
  BY <1>1 DEF AnswerInv, OnceInKernel, KernelOrAnswered, AnsweredAtMostOnce
<1>6. OnceInThreads' /\ KernelOrThread' /\ ThreadOrAnswered'
  BY <1>1, <1>3 DEF AnswerInv, OnceInThreads, KernelOrThread, ThreadOrAnswered
<1> QED
  BY <1>4, <1>5, <1>6 DEF AnswerInv

\* send() delivers the reply to whatever the number names, or to nobody.
LEMMA SendStep ==
  ASSUME AnswerInv, TypeOK', NEW t \in Threads, Send(t)
  PROVE  AnswerInv'
<1> DEFINE c == fdt[sd[t]]
           r == req[t]
<1>1. UNCHANGED <<asked, due, pending, req>>
  BY DEF Send, client
<1>2. /\ \A u \in Threads : u # t => pc'[u] = pc[u]
      /\ pc[t] = "send" /\ pc'[t] = "close"
  BY DEF Send, AnswerInv, TypeOK
<1>3. Carries(t) /\ r \in Piece /\ Sent(r)
  BY <1>2 DEF AnswerInv, Carries, OnlySent, TypeOK, Handling
<1>4. \/ replies' = replies
      \/ c \in Conns /\ replies' = [replies EXCEPT ![c] = Append(replies[c], r)]
  <2>1. c \in Conns \union {NoConn}
    BY <1>2 DEF AnswerInv, TypeOK, Handling
  <2> QED
    BY <2>1 DEF Send
<1> HIDE DEF c
<1>5. \A d \in Conns : \A j \in DOMAIN replies'[d] :
         \/ j \in DOMAIN replies[d] /\ replies'[d][j] = replies[d][j]
         \/ d = c /\ j = Len(replies[c]) + 1 /\ replies'[d][j] = r
  <2>1. CASE replies' = replies
    BY <2>1
  <2>2. CASE c \in Conns /\ replies' = [replies EXCEPT ![c] = Append(replies[c], r)]
    <3>1. replies[c] \in Seq(Piece) /\ replies'[c] = Append(replies[c], r)
      BY <2>2 DEF AnswerInv, TypeOK
    <3>2. \A d \in Conns : d # c => replies'[d] = replies[d]
      BY <2>2 DEF AnswerInv, TypeOK
    <3>3. /\ DOMAIN replies'[c] = DOMAIN replies[c] \union {Len(replies[c]) + 1}
          /\ \A i \in DOMAIN replies[c] : replies'[c][i] = replies[c][i]
          /\ replies'[c][Len(replies[c]) + 1] = r
      BY <3>1, <1>3, AppendPlaces
    <3> QED
      BY <3>2, <3>3
  <2> QED
    BY <2>1, <2>2, <1>4
<1>6. \A d \in Conns : \A j \in DOMAIN replies[d] : replies[d][j] # r
  BY <1>3 DEF AnswerInv, ThreadOrAnswered
<1>7. \A u \in Threads : Carries(u)' => Carries(u) /\ req[u] # r
  <2>1. \A u \in Threads : Carries(u)' => Carries(u) /\ u # t
    BY <1>2 DEF Carries
  <2> QED
    BY <2>1, <1>3 DEF AnswerInv, OnceInThreads
<1>8. \A d \in Conns : \A i \in DOMAIN pending[d] : pending[d][i] # r
  BY <1>3 DEF AnswerInv, KernelOrThread
<1> HIDE DEF r
<1>9. OnlySent'
  <2>1. \A d \in Conns : \A i \in DOMAIN pending[d] :
           pending[d][i].conn = d /\ SentBy(pending[d][i], asked', due')
    BY <1>1 DEF AnswerInv, OnlySent, Sent
  <2>2. \A u \in Threads : Carries(u)' => SentBy(req[u], asked', due')
    BY <1>1, <1>7 DEF AnswerInv, OnlySent, Sent
  <2>3. \A d \in Conns : \A j \in DOMAIN replies'[d] : SentBy(replies'[d][j], asked', due')
    BY <1>1, <1>3, <1>5 DEF AnswerInv, OnlySent, Sent
  <2> QED
    BY <2>1, <2>2, <2>3, <1>1 DEF OnlySent, Sent
<1>10. OnceInKernel'
  BY <1>1 DEF AnswerInv, OnceInKernel
<1>11. OnceInThreads' /\ KernelOrThread'
  BY <1>1, <1>7 DEF AnswerInv, OnceInThreads, KernelOrThread
<1>12. KernelOrAnswered'
  BY <1>1, <1>5, <1>8 DEF AnswerInv, KernelOrAnswered
<1>13. ThreadOrAnswered'
  BY <1>1, <1>5, <1>7 DEF AnswerInv, ThreadOrAnswered
<1>14. AnsweredAtMostOnce'
  <2> SUFFICES ASSUME NEW d \in Conns, NEW e \in Conns, NEW i \in DOMAIN replies'[d],
                      NEW j \in DOMAIN replies'[e], replies'[d][i] = replies'[e][j]
               PROVE  d = e /\ i = j
    BY DEF AnsweredAtMostOnce
  <2> QED
    BY <1>5, <1>6 DEF AnswerInv, AnsweredAtMostOnce
<1> QED
  BY <1>9, <1>10, <1>11, <1>12, <1>13, <1>14 DEF AnswerInv

\* However many requests the clients send, in however many pieces, whichever of the
\* messages the server survives, and to whichever connection the replies go: no piece
\* is answered twice.  A request has at most as many replies as it came in pieces.
THEOREM NoSecondAnswer == Spec => []AnsweredAtMostOnce
<1>1. Init => AnswerInv
  BY TypeInit
     DEF Init, AnswerInv, OnlySent, OnceInKernel, OnceInThreads, Carries,
         KernelOrThread, KernelOrAnswered, ThreadOrAnswered, AnsweredAtMostOnce
<1>2. TypeOK' /\ AnswerInv /\ [Next]_vars => AnswerInv'
  <2> SUFFICES ASSUME TypeOK', AnswerInv, [Next]_vars PROVE AnswerInv'
    OBVIOUS
  <2> USE ConnServerAssumption DEF ConnServerAssumption
  <2>1. ASSUME NEW c \in Conns, Connect(c) \/ ClientClose(c) PROVE AnswerInv'
    BY <2>1, QuietStep DEF Connect, ClientClose, thread
  <2>2. ASSUME NEW c \in Conns, SendRequest(c) PROVE AnswerInv'
    <3>1. PICK rest \in 0..(MaxParts - 1) :
                /\ due' = [due EXCEPT ![c] = rest]
                /\ Arrive(c, [conn |-> c, nr |-> asked[c] + 1, left |-> rest])
      BY <2>2 DEF SendRequest
    <3> DEFINE p == [conn |-> c, nr |-> asked[c] + 1, left |-> rest]
    <3>2. /\ asked \in [Conns -> 0..MaxReqs] /\ asked[c] < MaxReqs
          /\ due \in [Conns -> 0..(MaxParts - 1)] /\ due[c] = 0
      BY <2>2 DEF SendRequest, AnswerInv, TypeOK
    <3>3. asked' = [asked EXCEPT ![c] = asked[c] + 1]
      BY <2>2 DEF SendRequest
    <3>4. p \in Piece /\ p.conn = c /\ p.nr = asked[c] + 1 /\ p.left = rest
      BY <3>2 DEF Piece
    <3>5. asked'[c] = asked[c] + 1 /\ due'[c] = rest
      BY <3>1, <3>2, <3>3
    <3> HIDE DEF p
    <3>6. ~Sent(p) /\ SentBy(p, asked', due')
      BY <3>2, <3>4, <3>5 DEF Sent, SentBy
    <3>7. ASSUME NEW q \in Piece, Sent(q) PROVE SentBy(q, asked', due')
      <4>1. q.conn \in Conns /\ q.nr \in 1..MaxReqs
        BY DEF Piece
      <4>2. CASE q.conn = c
        BY <4>1, <4>2, <3>2, <3>5, <3>7 DEF Sent, SentBy
      <4>3. CASE q.conn # c
        BY <4>1, <4>3, <3>1, <3>2, <3>3, <3>7 DEF Sent, SentBy
      <4> QED
        BY <4>2, <4>3
    <3>8. UNCHANGED <<pc, req, replies>>
      BY <2>2 DEF SendRequest, thread
    <3> QED
      BY <3>1, <3>4, <3>6, <3>7, <3>8, ArriveStep DEF p
  <2>3. ASSUME NEW c \in Conns, SendRest(c) PROVE AnswerInv'
    <3> DEFINE p == [conn |-> c, nr |-> asked[c], left |-> due[c] - 1]
    <3>1. /\ asked \in [Conns -> 0..MaxReqs] /\ asked[c] > 0
          /\ due \in [Conns -> 0..(MaxParts - 1)] /\ due[c] > 0
      BY <2>3 DEF SendRest, AnswerInv, TypeOK
    <3>2. p \in Piece /\ p.conn = c /\ p.nr = asked[c] /\ p.left = due[c] - 1
      BY <3>1 DEF Piece
    <3>3. /\ asked' = asked /\ due' = [due EXCEPT ![c] = due[c] - 1]
          /\ due'[c] = due[c] - 1
      BY <2>3, <3>1 DEF SendRest
    <3>4. Arrive(c, p) /\ UNCHANGED <<pc, req, replies>>
      BY <2>3 DEF SendRest, thread
    <3> HIDE DEF p
    <3>5. ~Sent(p) /\ SentBy(p, asked', due')
      BY <3>1, <3>2, <3>3 DEF Sent, SentBy
    <3>6. ASSUME NEW q \in Piece, Sent(q) PROVE SentBy(q, asked', due')
      <4>1. q.conn \in Conns /\ q.left \in 0..(MaxParts - 1)
        BY DEF Piece
      <4>2. CASE q.conn = c
        BY <4>1, <4>2, <3>1, <3>3, <3>6 DEF Sent, SentBy
      <4>3. CASE q.conn # c
        BY <4>1, <4>3, <3>1, <3>3, <3>6 DEF Sent, SentBy
      <4> QED
        BY <4>2, <4>3
    <3> QED
      BY <3>2, <3>4, <3>5, <3>6, ArriveStep
  <2>4. ASSUME NEW f \in Fds, NEW t \in Threads, Accept(f, t) PROVE AnswerInv'
    BY <2>4, QuietStep DEF Accept, client, AnswerInv, TypeOK
  <2>5. ASSUME NEW f \in Fds, AcceptWithoutThread(f) PROVE AnswerInv'
    BY <2>5, QuietStep DEF AcceptWithoutThread, client, thread
  <2>6. ASSUME NEW t \in Threads, AcceptFails(t) PROVE AnswerInv'
    BY <2>6, QuietStep DEF AcceptFails, client, AnswerInv, TypeOK
  <2>7. ASSUME NEW t \in Threads, EnterRecv(t) PROVE AnswerInv'
    BY <2>7, QuietStep DEF EnterRecv, client, AnswerInv, TypeOK
  <2>8. ASSUME NEW t \in Threads, RecvBadFd(t) PROVE AnswerInv'
    BY <2>8, QuietStep DEF RecvBadFd, Finish, client, AnswerInv, TypeOK
  <2>9. ASSUME NEW t \in Threads, RecvData(t) PROVE AnswerInv'
    BY <2>9, RecvDataStep
  <2>10. ASSUME NEW t \in Threads, RecvEof(t) PROVE AnswerInv'
    BY <2>10, QuietStep DEF RecvEof, Finish, client, AnswerInv, TypeOK
  <2>11. ASSUME NEW t \in Threads, Analyze(t) PROVE AnswerInv'
    BY <2>11, AnalyzeStep
  <2>12. ASSUME NEW t \in Threads, Send(t) PROVE AnswerInv'
    BY <2>12, SendStep
  <2>13. ASSUME NEW t \in Threads, Close(t) PROVE AnswerInv'
    BY <2>13, QuietStep DEF Close, client, AnswerInv, TypeOK
  <2>14. CASE UNCHANGED vars
    BY <2>14, QuietStep DEF vars, client, thread
  <2> QED
    BY <2>1, <2>2, <2>3, <2>4, <2>5, <2>6, <2>7, <2>8, <2>9, <2>10, <2>11,
       <2>12, <2>13, <2>14
       DEF Next, Environment, AcceptLoop, Step
<1>3. AnswerInv => AnsweredAtMostOnce
  BY DEF AnswerInv
<1> QED
  BY <1>1, <1>2, <1>3, TypeCorrect, PTL DEF Spec

-----------------------------------------------------------------------------
(***************************************************************************)
(* Which descriptors are left open.                                        *)
(***************************************************************************)

\* What a step has to keep, seen from one descriptor that names a connection.
LEMMA LeakByDescriptor ==
  ASSUME OneInv', \A c \in Conns : UnreadInBacklog(c)',
         \A f \in Fds : up' /\ fdt'[f] # NoConn =>
            /\ ReaderStays(f)'
            /\ WillClose(f)' \/ (phase'[fdt'[f]] = "gone" /\ asked'[fdt'[f]] = 0)
  PROVE  LeakInv'
<1>1. \A f \in Fds : ReaderStays(f)'
  BY DEF ReaderStays
<1>2. OnlyLeaversLeak'
  BY DEF OnlyLeaversLeak
<1> QED
  BY <1>1, <1>2 DEF LeakInv

\* A handler has the only descriptor of its connection.
LEMMA HandlerCloses ==
  ASSUME OneInv, NEW t \in Threads, pc[t] \in Handling, NEW f \in Fds,
         fdt[f] # NoConn, req[t].conn = fdt[f]
  PROVE  sd[t] = f /\ WillClose(f)
<1>1. sd[t] \in Fds /\ fdt[sd[t]] = fdt[f]
  BY DEF OneInv, TypeOK, HandlerHolds
<1>2. sd[t] = f
  BY <1>1 DEF OneInv, OnePlace
<1> QED
  BY <1>2 DEF WillClose

\* The clients and the accept loop, when pthread_create does not fail.
LEMMA ClientsLeakNothing ==
  ASSUME OneRequest, LeakInv, OneInv',
         \/ Environment
         \/ \E f \in Fds, t \in Threads : Accept(f, t)
         \/ \E t \in Threads : AcceptFails(t)
  PROVE  LeakInv'
<1> USE ConnServerAssumption DEF ConnServerAssumption, client, thread
<1>1. OneInv /\ TypeOK /\ TypeOK'
  BY DEF LeakInv, OneInv
<1>2. ASSUME NEW c \in Conns, Connect(c) PROVE LeakInv'
  <2>1. phase[c] = "out" /\ \A d \in Conns : d # c => phase'[d] = phase[d]
    BY <1>1, <1>2 DEF Connect, TypeOK
  <2>2. \A d \in Conns : UnreadInBacklog(d)'
    <3>1. asked[c] = 0
      BY <1>1, <2>1 DEF OneInv, NotYet
    <3>2. \A d \in Conns : Queued(d)' => Queued(d) \/ d = c
      <4>1. backlog \in Seq(Conns) /\ backlog' = Append(backlog, c)
        BY <1>1, <1>2 DEF Connect, TypeOK
      <4>2. \A d : Member(Append(backlog, c), d) <=> Member(backlog, d) \/ d = c
        BY <4>1, AppendMembers
      <4> QED
        BY <4>1, <4>2 DEF Queued, Member
    <3> QED
      BY <1>2, <3>1, <3>2 DEF LeakInv, UnreadInBacklog, Taken, Connect
  <2>3. ASSUME NEW f \in Fds, up', fdt'[f] # NoConn
        PROVE  /\ ReaderStays(f)'
               /\ WillClose(f)' \/ (phase'[fdt'[f]] = "gone" /\ asked'[fdt'[f]] = 0)
    <3>1. fdt[f] \in Conns /\ fdt' = fdt /\ up /\ fdt[f] # c
      BY <1>1, <1>2, <2>1, <2>3 DEF Connect, TypeOK, OneInv, NotYet
    <3>2. ReaderStays(f)'
      BY <1>2, <2>3, <3>1 DEF Connect, LeakInv, ReaderStays, Taken
    <3>3. WillClose(f) => WillClose(f)'
      BY <1>2 DEF Connect, WillClose
    <3> QED
      BY <1>2, <2>1, <2>3, <3>1, <3>2, <3>3 DEF Connect, LeakInv, OnlyLeaversLeak
  <2> QED
    BY <2>2, <2>3, LeakByDescriptor
<1>3. ASSUME NEW c \in Conns, SendRequest(c) PROVE LeakInv'
  <2>1. phase[c] = "in" /\ pending[c] \in Seq(Piece)
    BY <1>1, <1>3 DEF SendRequest, TypeOK
  <2>2. \A d \in Conns : d # c => asked'[d] = asked[d] /\ pending'[d] = pending[d]
    BY <1>1, <1>3 DEF SendRequest, Arrive, TypeOK
  <2>3. Alive(c) => pending'[c] # <<>>
    <3>1. PICK rest \in 0..(MaxParts - 1) :
                Arrive(c, [conn |-> c, nr |-> asked[c] + 1, left |-> rest])
      BY <1>3 DEF SendRequest
    <3>2. \A x \in Piece : Append(pending[c], x) # <<>>
      BY <2>1
    <3>3. [conn |-> c, nr |-> asked[c] + 1, left |-> rest] \in Piece
      BY <1>1, <1>3 DEF SendRequest, TypeOK, Piece
    <3> QED
      BY <1>1, <3>1, <3>2, <3>3 DEF Arrive, TypeOK
  <2>4. \A d \in Conns : UnreadInBacklog(d)'
    BY <1>3, <2>2, <2>3 DEF LeakInv, UnreadInBacklog, Taken, Queued, Alive, SendRequest
  <2>5. ASSUME NEW f \in Fds, up', fdt'[f] # NoConn
        PROVE  /\ ReaderStays(f)'
               /\ WillClose(f)' \/ (phase'[fdt'[f]] = "gone" /\ asked'[fdt'[f]] = 0)
    <3>1. fdt[f] \in Conns /\ fdt' = fdt /\ up /\ phase' = phase
      BY <1>1, <1>3, <2>5 DEF SendRequest, TypeOK
    <3>2. ReaderStays(f)'
      <4>1. CASE fdt[f] = c
        BY <4>1, <2>3, <3>1 DEF Alive, ReaderStays, Taken
      <4>2. CASE fdt[f] # c
        BY <4>2, <1>3, <2>2, <3>1 DEF SendRequest, LeakInv, ReaderStays, Taken
      <4> QED
        BY <4>1, <4>2
    <3>3. WillClose(f) => WillClose(f)'
      BY <1>3 DEF SendRequest, WillClose
    <3> QED
      BY <2>1, <2>2, <2>5, <3>1, <3>2, <3>3 DEF LeakInv, OnlyLeaversLeak
  <2> QED
    BY <2>4, <2>5, LeakByDescriptor
<1>4. ASSUME NEW c \in Conns, ClientClose(c) PROVE LeakInv'
  <2>1. \A d \in Conns : UnreadInBacklog(d)'
    BY <1>4 DEF ClientClose, LeakInv, UnreadInBacklog, Queued, Taken
  <2>2. ASSUME NEW f \in Fds, up', fdt'[f] # NoConn
        PROVE  /\ ReaderStays(f)'
               /\ WillClose(f)' \/ (phase'[fdt'[f]] = "gone" /\ asked'[fdt'[f]] = 0)
    <3>1. fdt[f] \in Conns /\ fdt' = fdt /\ up
      BY <1>1, <1>4, <2>2 DEF ClientClose, TypeOK
    <3>2. ReaderStays(f)'
      BY <1>4, <2>2 DEF ClientClose, LeakInv, ReaderStays, Taken
    <3>3. WillClose(f) => WillClose(f)'
      BY <1>4 DEF ClientClose, WillClose
    <3>4. phase[fdt[f]] = "gone" => phase'[fdt[f]] = "gone"
      BY <1>1, <1>4, <3>1 DEF ClientClose, TypeOK
    <3> QED
      BY <1>4, <2>2, <3>1, <3>2, <3>3, <3>4 DEF ClientClose, LeakInv, OnlyLeaversLeak
  <2> QED
    BY <2>1, <2>2, LeakByDescriptor
<1>5. ASSUME NEW g \in Fds, NEW t \in Threads, Accept(g, t) PROVE LeakInv'
  <2>1. /\ pc[t] = "free" /\ pc'[t] = "loop" /\ sd'[t] = g
        /\ \A u \in Threads : u # t => pc'[u] = pc[u] /\ sd'[u] = sd[u]
        /\ UNCHANGED <<at, req, up, phase, asked, pending>>
    BY <1>1, <1>5 DEF Accept, IdleThreads, TypeOK
  <2>2. fdt'[g] = Head(backlog) /\ \A f \in Fds : f # g => fdt'[f] = fdt[f]
    BY <1>1, <1>5 DEF Accept, TypeOK
  <2>3. /\ Head(backlog) \in Conns /\ Queued(Head(backlog))
        /\ \A d : Queued(d)' => Queued(d)
    <3>1. backlog \in Seq(Conns) /\ backlog # <<>> /\ backlog' = Tail(backlog)
      BY <1>1, <1>5 DEF Accept, TypeOK
    <3>2. Distinct(backlog)
      BY <1>1 DEF Distinct, OneInv, OnePlace
    <3> QED
      BY <3>1, <3>2, TailMembers DEF Queued, Member
  <2>4. \A d \in Conns : UnreadInBacklog(d)'
    BY <2>1, <2>3 DEF LeakInv, UnreadInBacklog, Taken
  <2>5. ASSUME NEW f \in Fds, up', fdt'[f] # NoConn
        PROVE  /\ ReaderStays(f)'
               /\ WillClose(f)' \/ (phase'[fdt'[f]] = "gone" /\ asked'[fdt'[f]] = 0)
    <3>1. CASE f = g
      <4>1. ~Taken(fdt[f])'
        BY <3>1, <2>1, <2>2, <2>3, <2>5 DEF LeakInv, UnreadInBacklog, Taken
      <4> QED
        BY <3>1, <4>1, <2>1 DEF ReaderStays, WillClose
    <3>2. CASE f # g
      <4>1. ReaderStays(f)'
        BY <3>2, <2>1, <2>2, <2>5 DEF LeakInv, ReaderStays, Taken, Handling
      <4>2. WillClose(f) => WillClose(f)'
        BY <3>2, <2>1, <2>2 DEF WillClose, Handling
      <4> QED
        BY <3>2, <4>1, <4>2, <2>1, <2>2, <2>5 DEF LeakInv, OnlyLeaversLeak
    <3> QED
      BY <3>1, <3>2
  <2> QED
    BY <2>4, <2>5, LeakByDescriptor
<1>6. ASSUME NEW t \in Threads, AcceptFails(t) PROVE LeakInv'
  <2>1. /\ pc[t] = "free"
        /\ \A u \in Threads : u # t => pc'[u] = pc[u] /\ sd'[u] = sd[u]
        /\ UNCHANGED <<at, req, up, phase, asked, pending, backlog, fdt>>
    BY <1>1, <1>6 DEF AcceptFails, IdleThreads, TypeOK
  <2>2. \A d \in Conns : UnreadInBacklog(d)'
    BY <2>1 DEF LeakInv, UnreadInBacklog, Taken, Queued
  <2>3. ASSUME NEW f \in Fds, up', fdt'[f] # NoConn
        PROVE  /\ ReaderStays(f)'
               /\ WillClose(f)' \/ (phase'[fdt'[f]] = "gone" /\ asked'[fdt'[f]] = 0)
    <3>1. ReaderStays(f)'
      BY <2>1, <2>3 DEF LeakInv, ReaderStays, Taken, Handling
    <3>2. WillClose(f) => WillClose(f)'
      BY <2>1 DEF WillClose, Handling
    <3> QED
      BY <2>1, <2>3, <3>1, <3>2 DEF LeakInv, OnlyLeaversLeak
  <2> QED
    BY <2>2, <2>3, LeakByDescriptor
<1>7. \A c \in Conns : ~SendRest(c)
  BY DEF SendRest, LeakInv, OneInv, OneExchange
<1> QED
  BY <1>2, <1>3, <1>4, <1>5, <1>6, <1>7 DEF Environment

\* The threads.
LEMMA ThreadsLeakNothing ==
  ASSUME OneRequest, LeakInv, OneInv', NEW t \in Threads, Step(t)
  PROVE  LeakInv'
<1> USE ConnServerAssumption DEF ConnServerAssumption, client, thread
<1>1. OneInv /\ TypeOK /\ TypeOK'
  BY DEF LeakInv, OneInv
<1>2. CASE EnterRecv(t)
  <2>1. /\ pc[t] = "loop" /\ pc'[t] = "recv" /\ at'[t] = Named(t)
        /\ \A u \in Threads : u # t => pc'[u] = pc[u] /\ at'[u] = at[u]
        /\ UNCHANGED <<sd, req, up, phase, asked, pending, backlog, fdt>>
    BY <1>1, <1>2 DEF EnterRecv, TypeOK
  <2>2. \A d \in Conns : UnreadInBacklog(d)'
    BY <2>1 DEF LeakInv, UnreadInBacklog, Taken, Queued
  <2>3. ASSUME NEW f \in Fds, up', fdt'[f] # NoConn
        PROVE  /\ ReaderStays(f)'
               /\ WillClose(f)' \/ (phase'[fdt'[f]] = "gone" /\ asked'[fdt'[f]] = 0)
    <3>1. ReaderStays(f)'
      BY <2>1, <2>3 DEF LeakInv, ReaderStays, Taken, Handling
    <3>2. WillClose(f) => WillClose(f)'
      BY <2>1 DEF WillClose, Handling, Named
    <3> QED
      BY <2>1, <2>3, <3>1, <3>2 DEF LeakInv, OnlyLeaversLeak
  <2> QED
    BY <2>2, <2>3, LeakByDescriptor
<1>3. CASE RecvBadFd(t)
  <2>1. /\ pc[t] = "loop" /\ Named(t) = NoConn
        /\ \A u \in Threads : u # t =>
             pc'[u] = pc[u] /\ sd'[u] = sd[u] /\ at'[u] = at[u] /\ req'[u] = req[u]
        /\ UNCHANGED <<up, phase, asked, pending, backlog, fdt>>
    BY <1>1, <1>3 DEF RecvBadFd, Finish, TypeOK
  <2>2. \A d \in Conns : UnreadInBacklog(d)'
    BY <2>1 DEF LeakInv, UnreadInBacklog, Taken, Queued
  <2>3. ASSUME NEW f \in Fds, up', fdt'[f] # NoConn
        PROVE  /\ ReaderStays(f)'
               /\ WillClose(f)' \/ (phase'[fdt'[f]] = "gone" /\ asked'[fdt'[f]] = 0)
    <3>1. ReaderStays(f)'
      BY <2>1, <2>3 DEF LeakInv, ReaderStays, Taken, Handling
    <3>2. sd[t] # f
      BY <2>1, <2>3 DEF Named
    <3>3. WillClose(f) => WillClose(f)'
      BY <2>1, <3>2 DEF WillClose, Handling
    <3> QED
      BY <2>1, <2>3, <3>1, <3>3 DEF LeakInv, OnlyLeaversLeak
  <2> QED
    BY <2>2, <2>3, LeakByDescriptor
<1>4. CASE RecvData(t)
  <2> DEFINE c == at[t]
  <2>1. /\ pc[t] = "recv" /\ pc'[t] = "analyze" /\ req'[t] = Head(pending[c])
        /\ c \in Conns /\ pending[c] # <<>>
        /\ \A u \in Threads : u # t => pc'[u] = pc[u] /\ at'[u] = at[u] /\ req'[u] = req[u]
        /\ UNCHANGED <<sd, up, phase, asked, backlog, fdt>>
    BY <1>1, <1>4 DEF RecvData, TypeOK
  <2>2. \A d \in Conns : d # c => pending'[d] = pending[d]
    BY <1>1, <1>4 DEF RecvData, TypeOK
  <2>3. sd[t] \in Fds /\ fdt[sd[t]] = c /\ req'[t].conn = c
    <3>1. fdt[sd[t]] = c
      BY <1>1, <2>1 DEF OneInv, ReaderHolds, Taken
    <3>2. pending[c] = <<Only(c)>>
      BY <1>1, <2>1 DEF OneInv, OneExchange
    <3>3. req'[t].conn = c
      BY <2>1, <3>2 DEF Only
    <3> QED
      BY <1>1, <2>1, <3>1, <3>3 DEF TypeOK
  <2> HIDE DEF c
  <2>4. \A d \in Conns : UnreadInBacklog(d)'
    <3>1. ~Queued(c)
      BY <1>1, <2>3 DEF OneInv, OnePlace
    <3> QED
      BY <2>1, <2>2, <3>1 DEF LeakInv, UnreadInBacklog, Taken, Queued
  <2>5. ASSUME NEW f \in Fds, up', fdt'[f] # NoConn
        PROVE  /\ ReaderStays(f)'
               /\ WillClose(f)' \/ (phase'[fdt'[f]] = "gone" /\ asked'[fdt'[f]] = 0)
    <3>1. fdt[f] \in Conns
      BY <1>1, <2>1, <2>5 DEF TypeOK
    <3>2. CASE f = sd[t]
      BY <2>1, <2>3, <3>2 DEF ReaderStays, WillClose, Handling
    <3>3. CASE f # sd[t]
      <4>1. fdt[f] # c
        BY <1>1, <2>1, <2>3, <2>5, <3>3 DEF OneInv, OnePlace
      <4>2. ReaderStays(f)'
        BY <2>1, <2>2, <2>5, <3>1, <4>1 DEF LeakInv, ReaderStays, Taken, Handling
      <4>3. WillClose(f) => WillClose(f)'
        BY <2>1, <4>1, <3>3 DEF WillClose, Handling, c
      <4> QED
        BY <2>1, <2>5, <4>2, <4>3 DEF LeakInv, OnlyLeaversLeak
    <3> QED
      BY <3>2, <3>3
  <2> QED
    BY <2>4, <2>5, LeakByDescriptor
<1>5. CASE RecvEof(t)
  <2>1. /\ pc[t] = "recv" /\ at[t] \in Conns /\ pending[at[t]] = <<>> /\ phase[at[t]] = "gone"
        /\ \A u \in Threads : u # t =>
             pc'[u] = pc[u] /\ sd'[u] = sd[u] /\ at'[u] = at[u] /\ req'[u] = req[u]
        /\ UNCHANGED <<up, phase, asked, pending, backlog, fdt>>
    BY <1>1, <1>5 DEF RecvEof, Finish, TypeOK
  <2>2. \A d \in Conns : UnreadInBacklog(d)'
    BY <2>1 DEF LeakInv, UnreadInBacklog, Taken, Queued
  <2>3. ASSUME NEW f \in Fds, up', fdt'[f] # NoConn
        PROVE  /\ ReaderStays(f)'
               /\ WillClose(f)' \/ (phase'[fdt'[f]] = "gone" /\ asked'[fdt'[f]] = 0)
    <3>1. ReaderStays(f)'
      BY <2>1, <2>3 DEF LeakInv, ReaderStays, Taken, Handling
    <3>2. CASE fdt[f] # at[t]
      <4>1. WillClose(f) => WillClose(f)'
        BY <2>1, <3>2 DEF WillClose, Handling
      <4> QED
        BY <2>1, <2>3, <3>1, <4>1 DEF LeakInv, OnlyLeaversLeak
    <3>3. CASE fdt[f] = at[t] /\ asked[at[t]] = 0
      BY <2>1, <3>1, <3>3
    <3>4. CASE fdt[f] = at[t] /\ asked[at[t]] # 0
      <4>1. Taken(fdt[f])
        <5>1. asked[at[t]] \in 0..1
          BY <1>1, <2>1 DEF OneRequest, TypeOK
        <5> QED
          BY <5>1, <2>1, <3>4 DEF Taken
      <4>2. PICK u \in Threads : pc[u] \in Handling /\ req[u].conn = fdt[f]
        BY <4>1, <2>1, <2>3 DEF LeakInv, ReaderStays
      <4>3. sd[u] = f /\ u # t
        BY <1>1, <2>1, <2>3, <4>2, HandlerCloses DEF Handling
      <4> QED
        BY <2>1, <3>1, <4>2, <4>3 DEF WillClose
    <3> QED
      BY <3>2, <3>3, <3>4
  <2> QED
    BY <2>2, <2>3, LeakByDescriptor
<1>6. CASE Analyze(t) \/ Send(t)
  <2>1. /\ pc[t] \in Handling /\ pc'[t] \in Handling
        /\ \A u \in Threads : u # t => pc'[u] = pc[u]
        /\ UNCHANGED <<sd, at, req, phase, asked, pending, backlog, fdt>> /\ up
    BY <1>1, <1>6 DEF Analyze, Send, Handling, TypeOK
  <2>2. \A u \in Threads : pc[u] \in Handling <=> pc'[u] \in Handling
    BY <2>1
  <2>3. \A u \in Threads :
          (pc[u] = "recv" <=> pc'[u] = "recv") /\ (pc[u] = "loop" <=> pc'[u] = "loop")
    BY <2>1 DEF Handling
  <2>4. \A d \in Conns : UnreadInBacklog(d)'
    BY <2>1 DEF LeakInv, UnreadInBacklog, Taken, Queued
  <2>5. ASSUME NEW f \in Fds, up', fdt'[f] # NoConn
        PROVE  /\ ReaderStays(f)'
               /\ WillClose(f)' \/ (phase'[fdt'[f]] = "gone" /\ asked'[fdt'[f]] = 0)
    <3>1. ReaderStays(f)'
      BY <2>1, <2>2, <2>5 DEF LeakInv, ReaderStays, Taken
    <3>2. WillClose(f) => WillClose(f)'
      BY <2>1, <2>2, <2>3 DEF WillClose
    <3> QED
      BY <2>1, <2>5, <3>1, <3>2 DEF LeakInv, OnlyLeaversLeak
  <2> QED
    BY <2>4, <2>5, LeakByDescriptor
<1>7. CASE Close(t)
  <2>1. /\ pc[t] \in Handling
        /\ \A u \in Threads : u # t => pc'[u] = pc[u] /\ req'[u] = req[u]
        /\ UNCHANGED <<sd, at, up, phase, asked, pending, backlog>>
    BY <1>1, <1>7 DEF Close, Handling, TypeOK
  <2>2. sd[t] \in Fds /\ fdt'[sd[t]] = NoConn /\ \A f \in Fds : f # sd[t] => fdt'[f] = fdt[f]
    BY <1>1, <1>7 DEF Close, Handling, TypeOK
  <2>3. \A d \in Conns : UnreadInBacklog(d)'
    BY <2>1 DEF LeakInv, UnreadInBacklog, Taken, Queued
  <2>4. ASSUME NEW f \in Fds, up', fdt'[f] # NoConn
        PROVE  /\ ReaderStays(f)'
               /\ WillClose(f)' \/ (phase'[fdt'[f]] = "gone" /\ asked'[fdt'[f]] = 0)
    <3>1. f # sd[t] /\ fdt'[f] = fdt[f] /\ fdt[f] # NoConn
      BY <2>2, <2>4
    <3>2. req[t].conn # fdt[f]
      BY <1>1, <2>1, <3>1, HandlerCloses
    <3>3. ReaderStays(f)'
      BY <2>1, <2>4, <3>1, <3>2 DEF LeakInv, ReaderStays, Taken
    <3>4. WillClose(f) => WillClose(f)'
      BY <2>1, <3>1 DEF WillClose, Handling
    <3> QED
      BY <2>1, <2>4, <3>1, <3>3, <3>4 DEF LeakInv, OnlyLeaversLeak
  <2> QED
    BY <2>3, <2>4, LeakByDescriptor
<1> QED
  BY <1>2, <1>3, <1>4, <1>5, <1>6, <1>7 DEF Step

\* No accepted connection is left without a thread.
NoThreadFailure == [][\A f \in Fds : ~AcceptWithoutThread(f)]_vars

\* If pthread_create never fails, the only descriptors nobody will close are those of
\* clients that left without a word, with any number of threads that go round their
\* loops with numbers that are other clients' by now.
THEOREM LeaversLeak ==
  ASSUME OneRequest PROVE Spec /\ NoThreadFailure => []OnlyLeaversLeak
<1> DEFINE HasThread == \A f \in Fds : ~AcceptWithoutThread(f)
<1>1. Init => LeakInv
  <2>1. Init => OneInv
    BY ConnServerAssumption, TypeInit
       DEF ConnServerAssumption, OneRequest, Init, OneInv, OnePlace, NotYet, Queued,
           OneExchange, HandlerHolds, OneHandler, ReaderHolds, StillOpen, StillAsked,
           Handling, IsAnswered
  <2> QED
    BY <2>1 DEF Init, LeakInv, ReaderStays, UnreadInBacklog, Queued, OnlyLeaversLeak
<1>2. LeakInv /\ OneInv' /\ [Next]_vars /\ [HasThread]_vars => LeakInv'
  <2> SUFFICES ASSUME LeakInv, OneInv', [Next]_vars, [HasThread]_vars PROVE LeakInv'
    OBVIOUS
  <2>1. CASE UNCHANGED vars
    <3> USE <2>1 DEF vars, client, thread
    <3>1. \A f \in Fds : ReaderStays(f)'
      BY DEF LeakInv, ReaderStays, Taken
    <3>2. \A c \in Conns : UnreadInBacklog(c)'
      BY DEF LeakInv, UnreadInBacklog, Taken, Queued
    <3>3. OnlyLeaversLeak'
      BY DEF LeakInv, OnlyLeaversLeak, WillClose
    <3> QED
      BY <3>1, <3>2, <3>3 DEF LeakInv
  <2>2. CASE HasThread /\ Next
    BY <2>2, ClientsLeakNothing, ThreadsLeakNothing DEF Next, AcceptLoop
  <2> QED
    BY <2>1, <2>2
<1>3. LeakInv => OnlyLeaversLeak
  BY DEF LeakInv
<1>4. Spec => []OneInv
  BY OneInvariant
<1> QED
  BY <1>1, <1>2, <1>3, <1>4, PTL DEF Spec, NoThreadFailure

-----------------------------------------------------------------------------
(***************************************************************************)
(* With as many threads and descriptors as there are connections in all,   *)
(* pthread_create has always a thread to give: each connection is accepted *)
(* once, and accept() only fails when all of them have been.               *)
(***************************************************************************)

EnoughOfAll ==
  /\ IsFiniteSet(Conns) /\ IsFiniteSet(Threads) /\ IsFiniteSet(Fds)
  /\ Cardinality(Conns) =< Cardinality(Threads)
  /\ Cardinality(Conns) =< Cardinality(Fds)

\* The connections that are still to be accepted are some of them all.
LEMMA AcceptedCount ==
  ASSUME EnoughOfAll, Waiting # {}
  PROVE  /\ IsFiniteSet(Conns \ Waiting)
         /\ Cardinality(Conns \ Waiting) \in Nat
         /\ Cardinality(Conns \ Waiting) < Cardinality(Conns)
<1>1. IsFiniteSet(Conns) /\ Cardinality(Conns) \in Nat
  BY FS_CardinalityType DEF EnoughOfAll
<1>2. (Conns \ Waiting) \in SUBSET Conns /\ Conns \ Waiting # Conns
  BY DEF Waiting
<1>3. /\ IsFiniteSet(Conns \ Waiting)
      /\ Cardinality(Conns \ Waiting) =< Cardinality(Conns)
      /\ Cardinality(Conns) # Cardinality(Conns \ Waiting)
  BY <1>1, <1>2, FS_Subset
<1>4. Cardinality(Conns \ Waiting) \in Nat
  BY <1>3, FS_CardinalityType
<1> QED
  BY <1>1, <1>3, <1>4

\* The threads that run are finitely many.
LEMMA BusyCount ==
  ASSUME EnoughOfAll
  PROVE  /\ IsFiniteSet(BusyThreads) /\ Cardinality(BusyThreads) \in Nat
<1>1. BusyThreads \in SUBSET Threads
  BY DEF BusyThreads
<1>2. IsFiniteSet(BusyThreads)
  BY <1>1, FS_Subset DEF EnoughOfAll
<1> QED
  BY <1>2, FS_CardinalityType

\* accept() fails only when no connection is to come any more.
LEMMA FailsLast ==
  ASSUME EnoughOfAll, OneInv, FreeFds = {}
  PROVE  Waiting = {}
<1> SUFFICES ASSUME Waiting # {} PROVE FALSE
  OBVIOUS
<1> USE ConnServerAssumption DEF ConnServerAssumption
<1>1. \A f \in Fds : fdt[f] \in Conns \ Waiting
  BY DEF FreeFds, OneInv, TypeOK, OnePlace, NotYet, Waiting
<1> DEFINE named == [f \in Fds |-> fdt[f]]
<1>2. named \in Injection(Fds, Conns \ Waiting)
  <2>1. named \in [Fds -> Conns \ Waiting]
    BY <1>1
  <2>2. \A f, g \in Fds : named[f] = named[g] => f = g
    BY <1>1 DEF OneInv, OnePlace, Waiting
  <2> HIDE DEF named
  <2> QED
    BY <2>1, <2>2 DEF Injection, IsInjective
<1>3. Cardinality(Fds) =< Cardinality(Conns \ Waiting)
  BY <1>2, AcceptedCount, FS_Injection
<1>4. Cardinality(Conns) =< Cardinality(Fds)
  BY DEF EnoughOfAll
<1>5. /\ Cardinality(Conns \ Waiting) \in Nat
      /\ Cardinality(Conns \ Waiting) < Cardinality(Conns)
  BY AcceptedCount
<1>6. Cardinality(Conns) \in Nat /\ Cardinality(Fds) \in Nat
  BY FS_CardinalityType DEF EnoughOfAll
<1> QED
  BY <1>3, <1>4, <1>5, <1>6

\* There is a thread for every connection that comes.
LEMMA ThreadForEach ==
  ASSUME EnoughOfAll, OneInv, ThreadPerConn, backlog # <<>>
  PROVE  IdleThreads # {}
<1>1. Waiting # {}
  <2>1. backlog \in Seq(Conns) /\ Distinct(backlog)
    BY DEF OneInv, TypeOK, OnePlace, Distinct
  <2>2. Queued(Head(backlog)) /\ Head(backlog) \in Conns
    BY <2>1, TailMembers DEF Queued, Member
  <2> QED
    BY <2>2 DEF Waiting
<1>2. Cardinality(BusyThreads) < Cardinality(Threads)
  <2>1. /\ Cardinality(BusyThreads) =< Cardinality(Conns \ Waiting)
        /\ Cardinality(Conns \ Waiting) < Cardinality(Conns)
        /\ Cardinality(Conns) =< Cardinality(Threads)
    BY <1>1, AcceptedCount DEF ThreadPerConn, EnoughOfAll
  <2>2. /\ Cardinality(BusyThreads) \in Nat /\ Cardinality(Conns \ Waiting) \in Nat
        /\ Cardinality(Conns) \in Nat /\ Cardinality(Threads) \in Nat
    BY <1>1, BusyCount, AcceptedCount, FS_CardinalityType DEF EnoughOfAll
  <2> QED
    BY <2>1, <2>2
<1>3. BusyThreads # Threads
  BY <1>2, BusyCount
<1> QED
  BY <1>3 DEF BusyThreads

\* A step that accepts nothing and starts no thread.
LEMMA NothingAccepted ==
  ASSUME EnoughOfAll, ThreadPerConn, Waiting' = Waiting, BusyThreads' \subseteq BusyThreads
  PROVE  ThreadPerConn'
<1>1. IsFiniteSet(BusyThreads) /\ Cardinality(BusyThreads) \in Nat
  BY BusyCount
<1>2. IsFiniteSet(BusyThreads') /\ Cardinality(BusyThreads') =< Cardinality(BusyThreads)
  BY <1>1, FS_Subset
<1>3. Cardinality(BusyThreads') \in Nat
  BY <1>2, FS_CardinalityType
<1> SUFFICES ASSUME Waiting # {}
             PROVE  Cardinality(BusyThreads') =< Cardinality(Conns \ Waiting)
  BY DEF ThreadPerConn
<1>4. Cardinality(Conns \ Waiting) \in Nat
  BY AcceptedCount
<1>5. Cardinality(BusyThreads) =< Cardinality(Conns \ Waiting)
  BY DEF ThreadPerConn
<1> QED
  BY <1>1, <1>2, <1>3, <1>4, <1>5

\* The step of accept(): one connection more is accepted and one thread more runs.
LEMMA OneAccepted ==
  ASSUME EnoughOfAll, OneInv, ThreadPerConn, NEW f \in Fds, NEW t \in Threads, Accept(f, t)
  PROVE  ThreadPerConn'
<1> DEFINE c == Head(backlog)
<1>1. /\ c \in Conns /\ Queued(c)
      /\ \A d : Queued(d)' <=> Queued(d) /\ d # c
  <2>1. backlog \in Seq(Conns) /\ backlog # <<>> /\ backlog' = Tail(backlog)
    BY DEF Accept, OneInv, TypeOK
  <2>2. Distinct(backlog)
    BY DEF Distinct, OneInv, OnePlace
  <2>3. /\ \A d : Member(Tail(backlog), d) <=> Member(backlog, d) /\ d # c
        /\ Member(backlog, c)
    BY <2>1, <2>2, TailMembers
  <2>4. c \in Conns
    BY <2>1
  <2> QED
    BY <2>1, <2>3, <2>4 DEF Queued, Member
<1> HIDE DEF c
<1>2. phase' = phase
  BY DEF Accept, client
<1>3. phase[c] # "out"
  BY <1>1 DEF OneInv, NotYet
<1>4. c \in Waiting /\ Waiting' = Waiting \ {c}
  BY <1>1, <1>2, <1>3 DEF Waiting
<1>5. Conns \ Waiting' = (Conns \ Waiting) \union {c}
  BY <1>1, <1>4
<1>6. BusyThreads' = BusyThreads \union {t} /\ t \notin BusyThreads
  BY DEF Accept, BusyThreads, IdleThreads, OneInv, TypeOK
<1>7. /\ IsFiniteSet(Conns \ Waiting)
      /\ Cardinality(Conns \ Waiting) \in Nat
      /\ Cardinality(BusyThreads) =< Cardinality(Conns \ Waiting)
  BY <1>4, AcceptedCount DEF ThreadPerConn
<1>8. Cardinality(Conns \ Waiting') = Cardinality(Conns \ Waiting) + 1
  BY <1>4, <1>5, <1>7, FS_AddElement
<1>9. Cardinality(BusyThreads') = Cardinality(BusyThreads) + 1
  BY <1>6, BusyCount, FS_AddElement
<1>10. Cardinality(BusyThreads') =< Cardinality(Conns \ Waiting')
  BY <1>7, <1>8, <1>9, BusyCount
<1> QED
  BY <1>10 DEF ThreadPerConn

\* Then the only descriptors that stay open are those of clients that left without a
\* word, whatever else happens.
THEOREM EnoughThreadsLeak ==
  ASSUME OneRequest, EnoughOfAll PROVE Spec => []OnlyLeaversLeak
<1>1. Init => ThreadPerConn
  <2> SUFFICES ASSUME Init PROVE ThreadPerConn
    OBVIOUS
  <2>1. BusyThreads = {} /\ Conns \ Waiting = {}
    BY DEF Init, BusyThreads, IdleThreads, Waiting
  <2> QED
    BY <2>1, FS_EmptySet DEF ThreadPerConn
<1>2. OneInv /\ OneInv' /\ ThreadPerConn /\ [Next]_vars => ThreadPerConn'
  <2> SUFFICES ASSUME OneInv, OneInv', ThreadPerConn, [Next]_vars PROVE ThreadPerConn'
    OBVIOUS
  <2> USE DEF client, thread
  <2>1. ASSUME NEW c \in Conns, Connect(c) PROVE ThreadPerConn'
    <3>1. \A d \in Conns : Queued(d)' <=> Queued(d) \/ d = c
      <4>1. backlog \in Seq(Conns) /\ backlog' = Append(backlog, c)
        BY <2>1 DEF Connect, OneInv, TypeOK
      <4>2. \A d : Member(Append(backlog, c), d) <=> Member(backlog, d) \/ d = c
        BY <4>1, AppendMembers
      <4> QED
        BY <4>1, <4>2 DEF Queued, Member
    <3>2. \A d \in Conns : d # c => phase'[d] = phase[d]
      BY <2>1 DEF Connect, OneInv, TypeOK
    <3>3. Waiting' = Waiting
      BY <2>1, <3>1, <3>2 DEF Connect, Waiting
    <3>4. BusyThreads' = BusyThreads
      BY <2>1 DEF Connect, BusyThreads, IdleThreads
    <3> QED
      BY <3>3, <3>4, NothingAccepted
  <2>2. ASSUME NEW c \in Conns, SendRequest(c) \/ SendRest(c) PROVE ThreadPerConn'
    <3>1. Waiting' = Waiting
      BY <2>2 DEF SendRequest, SendRest, Waiting, Queued
    <3>2. BusyThreads' = BusyThreads
      BY <2>2 DEF SendRequest, SendRest, BusyThreads, IdleThreads
    <3> QED
      BY <3>1, <3>2, NothingAccepted
  <2>3. ASSUME NEW c \in Conns, ClientClose(c) PROVE ThreadPerConn'
    <3>1. \A d \in Conns : phase'[d] = "out" <=> phase[d] = "out"
      BY <2>3 DEF ClientClose, OneInv, TypeOK
    <3>2. Waiting' = Waiting
      BY <2>3, <3>1 DEF ClientClose, Waiting, Queued
    <3>3. BusyThreads' = BusyThreads
      BY <2>3 DEF ClientClose, BusyThreads, IdleThreads
    <3> QED
      BY <3>2, <3>3, NothingAccepted
  <2>4. ASSUME NEW f \in Fds, NEW t \in Threads, Accept(f, t) PROVE ThreadPerConn'
    BY <2>4, OneAccepted
  <2>5. ASSUME NEW f \in Fds, AcceptWithoutThread(f) PROVE ThreadPerConn'
    BY <2>5, ThreadForEach DEF AcceptWithoutThread
  <2>6. ASSUME NEW t \in Threads, AcceptFails(t) PROVE ThreadPerConn'
    <3>1. Waiting' = Waiting /\ Waiting = {}
      BY <2>6, FailsLast DEF AcceptFails, Waiting, Queued
    <3> QED
      BY <3>1 DEF ThreadPerConn
  <2>7. ASSUME NEW t \in Threads, Step(t) PROVE ThreadPerConn'
    <3>1. UNCHANGED <<phase, backlog>>
      BY <2>7 DEF Step, EnterRecv, RecvBadFd, RecvData, RecvEof, Analyze, Send, Close
    <3>2. Waiting' = Waiting
      BY <3>1 DEF Waiting, Queued
    <3>3. pc[t] # "free" /\ \A u \in Threads : u # t => pc'[u] = pc[u]
      BY <2>7 DEF Step, EnterRecv, RecvBadFd, RecvData, RecvEof, Analyze, Send, Close,
                  Finish, OneInv, TypeOK
    <3>4. BusyThreads' \subseteq BusyThreads
      BY <3>3 DEF BusyThreads, IdleThreads
    <3> QED
      BY <3>2, <3>4, NothingAccepted
  <2>8. CASE UNCHANGED vars
    BY <2>8, NothingAccepted DEF vars, Waiting, Queued, BusyThreads, IdleThreads
  <2> QED
    BY <2>1, <2>2, <2>3, <2>4, <2>5, <2>6, <2>7, <2>8 DEF Next, Environment, AcceptLoop
<1>3. OneInv /\ ThreadPerConn => \A f \in Fds : ~AcceptWithoutThread(f)
  BY ThreadForEach DEF AcceptWithoutThread
<1>4. Spec => []OneInv
  BY OneInvariant
<1>5. Spec => NoThreadFailure
  BY <1>1, <1>2, <1>3, <1>4, PTL DEF Spec, NoThreadFailure
<1> QED
  BY <1>5, LeaversLeak, PTL
=============================================================================
