---------------------------- MODULE ThreadsProofs ----------------------------
(***************************************************************************)
(* Theorems about memory that threads share without a lock: the array that *)
(* one thread leaves to another (RecvBuffer), the slots of the select      *)
(* server (SelectServer) and the scripts (LuaRun).  The three have nothing *)
(* to do with each other, as in MCThreads.                                 *)
(***************************************************************************)
EXTENDS LuaRun, RecvBuffer, SelectServer, FiniteSetTheorems, WellFoundedInduction, TLAPS

-----------------------------------------------------------------------------
(***************************************************************************)
(* RecvBuffer, for an array of any size.  The largest of a set is what the *)
(* code never computes: the invariant names it for each byte of the array  *)
(* and for the messages, so that it need not be looked for.                *)
(***************************************************************************)

LEMMA MaxIs ==
  ASSUME NEW S \in SUBSET Int, NEW x \in S, \A y \in S : y =< x
  PROVE  Max(S) = x
<1>1. \E z \in S : \A y \in S : z >= y
  OBVIOUS
<1>2. Max(S) \in S /\ \A y \in S : Max(S) >= y
  BY <1>1 DEF Max
<1> DEFINE m == Max(S)
<1>3. m \in Int /\ x \in Int /\ m >= x /\ x >= m
  BY <1>2
<1> HIDE DEF m
<1>4. m = x
  BY <1>3
<1>5. QED
  BY <1>4 DEF m

LEMMA MinIs ==
  ASSUME NEW S \in SUBSET Int, NEW x \in S, \A y \in S : x =< y
  PROVE  Min(S) = x
<1>1. \E z \in S : \A y \in S : z =< y
  OBVIOUS
<1>2. Min(S) \in S /\ \A y \in S : Min(S) =< y
  BY <1>1 DEF Min
<1> DEFINE m == Min(S)
<1>3. m \in Int /\ x \in Int /\ m =< x /\ x =< m
  BY <1>2
<1> HIDE DEF m
<1>4. m = x
  BY <1>3
<1>5. QED
  BY <1>4 DEF m

-----------------------------------------------------------------------------

\* A byte belongs to the last message that was long enough for it.
LastAtByte(b) ==
  IF client_message[b] = 0 THEN \A m \in DOMAIN received : received[m] < b
  ELSE /\ client_message[b] \in DOMAIN received
       /\ received[client_message[b]] >= b
       /\ \A m \in DOMAIN received : received[m] >= b => m =< client_message[b]

\* One of the messages is the longest, and strlen finds its end.
Longest(n) ==
  /\ \A m \in DOMAIN received : received[m] =< n
  /\ \E m \in DOMAIN received : received[m] = n

BytesInv ==
  /\ client_message \in [Bytes -> 0..MaxMessages]
  /\ received \in Seq(Bytes)
  /\ Len(received) =< MaxMessages
  /\ running \in BOOLEAN
  /\ \A b \in Bytes : LastAtByte(b)

\* What analyze_method takes for the message.
SeenInv ==
  IF received = <<>> THEN seen = <<>>
  ELSE \E n \in Bytes : Longest(n) /\ seen = [b \in 1..n |-> client_message[b]]

ArrayInv == BytesInv /\ SeenInv

\* strlen finds the first of the NULs.
LEMMA StrLenFinds ==
  ASSUME RecvBufferAssumption, NEW message, NEW n \in Bytes,
         \A b \in Bytes : message[b] = 0 <=> b > n
  PROVE  StrLen(message) = n
<1> USE DEF RecvBufferAssumption, Bytes
<1> DEFINE zeros == {b \in Bytes : message[b] = 0}
           S == {b - 1 : b \in zeros} \union {MAX_WRITE_SIZE}
<1>1. S \in SUBSET Int
  OBVIOUS
<1>2. n \in S
  <2>1. CASE n = MAX_WRITE_SIZE
    BY <2>1
  <2>2. CASE n < MAX_WRITE_SIZE
    <3>1. n + 1 \in zeros
      BY <2>2
    <3>2. QED
      BY <3>1
  <2>3. QED
    BY <2>1, <2>2
<1>3. \A y \in S : n =< y
  OBVIOUS
<1> HIDE DEF S
<1>4. Min(S) = n
  BY <1>1, <1>2, <1>3, MinIs
<1>5. QED
  BY <1>4 DEF S, StrLen

LEMMA InitArray == RecvBufferAssumption /\ BufferInit => ArrayInv
<1> SUFFICES ASSUME RecvBufferAssumption, BufferInit PROVE ArrayInv
  OBVIOUS
<1>1. received = <<>> /\ seen = <<>> /\ DOMAIN received = {} /\ Len(received) = 0
  BY DEF BufferInit
<1>2. client_message = [b \in Bytes |-> 0] /\ running = FALSE
  BY DEF BufferInit
<1>3. client_message \in [Bytes -> 0..MaxMessages]
  BY <1>2 DEF RecvBufferAssumption
<1>4. \A b \in Bytes : LastAtByte(b)
  BY <1>1, <1>2 DEF LastAtByte
<1>5. QED
  <2>1. received \in Seq(Bytes) /\ Len(received) =< MaxMessages /\ running \in BOOLEAN
    <3>1. <<>> \in Seq(Bytes)
      OBVIOUS
    <3>2. 0 =< MaxMessages
      BY DEF RecvBufferAssumption
    <3>3. running \in BOOLEAN
      BY <1>2
    <3>4. QED
      BY <1>1, <3>1, <3>2, <3>3
  <2>2. BytesInv
    BY <1>3, <1>4, <2>1 DEF BytesInv
  <2>3. SeenInv
    BY <1>1 DEF SeenInv
  <2>4. QED
    BY <2>2, <2>3 DEF ArrayInv

LEMMA StepReceive ==
  ASSUME RecvBufferAssumption, ArrayInv, NEW length \in Bytes, Receive(length)
  PROVE  ArrayInv'
<1> USE DEF RecvBufferAssumption, Bytes
<1> DEFINE k == Len(received) + 1
<1>1. /\ received \in Seq(Bytes) /\ Len(received) < MaxMessages
      /\ received' = Append(received, length)
      /\ client_message' = [b \in Bytes |-> IF b =< length THEN k ELSE client_message[b]]
      /\ seen' = [b \in 1..StrLen(client_message') |-> client_message'[b]]
      /\ running' = running
  BY DEF Receive, ArrayInv, BytesInv
<1>2. /\ received' \in Seq(Bytes) /\ Len(received') = k /\ k =< MaxMessages /\ k \in Nat
      /\ received'[k] = length
      /\ \A m \in 1..(k - 1) : received'[m] = received[m]
      /\ DOMAIN received' = 1..k /\ DOMAIN received = 1..(k - 1)
  BY <1>1
<1>3. client_message' \in [Bytes -> 0..MaxMessages]
  BY <1>1, <1>2 DEF ArrayInv, BytesInv
<1>4. ASSUME NEW b \in Bytes PROVE LastAtByte(b)'
  <2>1. LastAtByte(b)
    BY DEF ArrayInv, BytesInv
  <2>2. \A m \in 1..(k - 1) : received[m] \in Int
    BY <1>1, <1>2
  <2>3. CASE b =< length
    <3>1. client_message'[b] = k
      BY <1>1, <2>3
    <3>2. QED
      BY <1>2, <2>3, <3>1 DEF LastAtByte
  <2>4. CASE b > length
    <3>1. client_message'[b] = client_message[b]
      BY <1>1, <2>4
    <3>2. CASE client_message[b] = 0
      BY <1>2, <2>1, <2>4, <3>1, <3>2 DEF LastAtByte
    <3>3. CASE client_message[b] # 0
      <4> DEFINE x == client_message[b]
      <4>1. x \in 1..(k - 1) /\ received[x] >= b
        BY <1>2, <2>1, <3>3 DEF LastAtByte
      <4>2. received'[x] >= b
        BY <1>2, <4>1
      <4>3. ASSUME NEW m \in 1..k, received'[m] >= b PROVE m =< x
        <5>1. m # k
          BY <1>2, <2>4, <4>3
        <5>2. m \in 1..(k - 1) /\ received[m] >= b
          BY <1>2, <4>3, <5>1
        <5>3. QED
          BY <1>2, <2>1, <3>3, <5>2 DEF LastAtByte
      <4>4. QED
        BY <1>2, <3>1, <3>3, <4>1, <4>2, <4>3 DEF LastAtByte
    <3>4. QED
      BY <3>2, <3>3
  <2>5. QED
    BY <2>3, <2>4
<1>5. BytesInv'
  BY <1>1, <1>2, <1>3, <1>4 DEF ArrayInv, BytesInv
<1>6. PICK n \in Bytes : Longest(n)'
  <2>1. CASE received = <<>>
    <3>1. k = 1
      BY <2>1
    <3>2. Longest(length)'
      BY <1>2, <3>1 DEF Longest
    <3>3. QED
      BY <3>2
  <2>2. CASE received # <<>>
    <3>1. PICK n \in Bytes : Longest(n)
      BY <2>2 DEF ArrayInv, SeenInv
    <3>2. CASE n >= length
      <4>1. \A m \in 1..k : received'[m] =< n
        BY <1>1, <1>2, <3>1, <3>2 DEF Longest
      <4>2. \E m \in 1..k : received'[m] = n
        BY <1>1, <1>2, <3>1 DEF Longest
      <4>3. Longest(n)'
        BY <1>2, <4>1, <4>2 DEF Longest
      <4>4. QED
        BY <4>3
    <3>3. CASE n < length
      <4>1. \A m \in 1..(k - 1) : received[m] \in Int
        BY <1>1, <1>2
      <4>2. Longest(length)'
        <5>1. received'[k] = length /\ k \in DOMAIN received'
          BY <1>2
        <5>2. ASSUME NEW m \in 1..(k - 1) PROVE received'[m] =< length
          <6>1. received[m] =< n
            BY <1>2, <3>1 DEF Longest
          <6>2. QED
            BY <1>2, <3>3, <4>1, <6>1
        <5>3. QED
          BY <1>2, <5>1, <5>2 DEF Longest
      <4>3. QED
        BY <4>2
    <3>4. QED
      BY <3>2, <3>3
  <2>3. QED
    BY <2>1, <2>2
<1>7. StrLen(client_message') = n
  <2>1. \A m \in 1..k : received'[m] \in Int
    BY <1>2
  <2>2. \A m \in 1..k : received'[m] =< n
    BY <1>2, <1>6 DEF Longest
  <2>3. PICK m \in 1..k : received'[m] = n
    BY <1>2, <1>6 DEF Longest
  <2>4. ASSUME NEW b \in Bytes PROVE client_message'[b] = 0 <=> b > n
    <3>1. LastAtByte(b)'
      BY <1>4
    <3>2. CASE client_message'[b] = 0
      BY <1>2, <2>3, <3>1, <3>2 DEF LastAtByte
    <3>3. CASE client_message'[b] # 0
      BY <1>2, <2>1, <2>2, <3>1, <3>3 DEF LastAtByte
    <3>4. QED
      BY <3>2, <3>3
  <2>5. QED
    BY <2>4, StrLenFinds
<1>8. SeenInv'
  <2>1. received' # <<>>
    BY <1>2
  <2>2. seen' = [b \in 1..n |-> client_message'[b]]
    BY <1>1, <1>7
  <2>3. QED
    BY <1>6, <2>1, <2>2 DEF SeenInv
<1>9. QED
  BY <1>5, <1>8 DEF ArrayInv

LEMMA StepArray == RecvBufferAssumption /\ ArrayInv /\ [BufferNext]_bufferVars => ArrayInv'
<1> SUFFICES ASSUME RecvBufferAssumption, ArrayInv, [BufferNext]_bufferVars PROVE ArrayInv'
  OBVIOUS
<1> USE DEF ArrayInv, BytesInv, SeenInv, LastAtByte, Longest
<1>1. CASE StartThread \/ EndThread
  BY <1>1 DEF StartThread, EndThread
<1>2. CASE Clear
  BY <1>2 DEF Clear, RecvBufferAssumption, Bytes
<1>3. ASSUME NEW length \in Bytes, Receive(length) PROVE ArrayInv'
  BY <1>3, StepReceive
<1>4. CASE UNCHANGED bufferVars
  BY <1>4 DEF bufferVars
<1>5. QED
  BY <1>1, <1>2, <1>3, <1>4 DEF BufferNext

LEMMA ArrayInvSuffices == RecvBufferAssumption /\ ArrayInv => MessageSeen
<1> SUFFICES ASSUME RecvBufferAssumption, ArrayInv PROVE MessageSeen
  OBVIOUS
<1> USE DEF RecvBufferAssumption, Bytes
<1>1. CASE received = <<>>
  BY <1>1 DEF MessageSeen, BufferTypeOK, SeesLongest, ArrayInv, BytesInv, SeenInv
<1>2. CASE received # <<>>
  <2>1. PICK n \in Bytes : Longest(n) /\ seen = [b \in 1..n |-> client_message[b]]
    BY <1>2 DEF ArrayInv, SeenInv
  <2>2. Len(seen) = n /\ DOMAIN seen = 1..n
    BY <2>1
  <2>3. received \in Seq(Bytes) /\ DOMAIN received = 1..Len(received)
    BY DEF ArrayInv, BytesInv
  <2>4. Max({received[m] : m \in DOMAIN received}) = n
    <3> DEFINE S == {received[m] : m \in DOMAIN received}
    <3>1. S \in SUBSET Int /\ n \in S /\ \A y \in S : y =< n
      BY <2>1, <2>3 DEF Longest
    <3> HIDE DEF S
    <3>2. Max(S) = n
      BY <3>1, MaxIs
    <3>3. QED
      BY <3>2 DEF S
  <2>5. ASSUME NEW b \in 1..n
        PROVE  /\ seen[b] = Max({m \in DOMAIN received : received[m] >= b})
               /\ seen[b] \in 1..MaxMessages
    <3> DEFINE S == {m \in DOMAIN received : received[m] >= b}
               x == client_message[b]
    <3>1. b \in Bytes /\ seen[b] = x
      BY <2>1
    <3>2. LastAtByte(b) /\ x \in 0..MaxMessages
      BY <3>1 DEF ArrayInv, BytesInv
    <3>3. PICK m \in DOMAIN received : received[m] = n
      BY <2>1 DEF Longest
    <3>4. x # 0
      BY <2>3, <3>2, <3>3 DEF LastAtByte
    <3>5. S \in SUBSET Int /\ x \in S /\ \A y \in S : y =< x
      BY <2>3, <3>2, <3>4 DEF LastAtByte
    <3> HIDE DEF S
    <3>6. Max(S) = x
      BY <3>5, MaxIs
    <3>7. QED
      BY <3>1, <3>2, <3>4, <3>6 DEF S
  <2>6. seen \in Seq(1..MaxMessages)
    <3>1. seen \in [1..n -> 1..MaxMessages]
      BY <2>1, <2>5
    <3>2. QED
      BY <3>1
  <2>7. BufferTypeOK
    BY <2>6 DEF BufferTypeOK, ArrayInv, BytesInv
  <2>8. SeesLongest
    BY <2>2, <2>4, <2>5 DEF SeesLongest
  <2>9. QED
    BY <2>7, <2>8 DEF MessageSeen
<1>3. QED
  BY <1>1, <1>2

\* Whatever messages a stack sees, analyze_method is given each with what is left of the
\* longest before it (server.c:129).
THEOREM MessageWithRest ==
  ASSUME RecvBufferAssumption
  PROVE  BufferSpec => []MessageSeen
<1>1. BufferInit => ArrayInv
  BY InitArray
<1>2. ArrayInv /\ [BufferNext]_bufferVars => ArrayInv'
  BY StepArray
<1>3. ArrayInv => MessageSeen
  BY ArrayInvSuffices
<1>4. QED
  BY <1>1, <1>2, <1>3, PTL DEF BufferSpec

-----------------------------------------------------------------------------
(***************************************************************************)
(* SelectServer, for any number of clients, threads and slots.             *)
(***************************************************************************)

-----------------------------------------------------------------------------
(***************************************************************************)
(* The least free descriptor, and the least free slot.                     *)
(***************************************************************************)

\* A set of numbers has a least one.
LEMMA LeastOf ==
  ASSUME NEW S \in SUBSET Nat, S # {}
  PROVE  Min(S) \in S /\ \A n \in S : Min(S) =< n
<1>1. PICK m \in S : \A n \in S : ~(<<n, m>> \in OpToRel(<, Nat))
  BY NatLessThanWellFounded, WFMin
<1>2. ASSUME NEW n \in S PROVE m =< n
  <2>1. n \in Nat /\ m \in Nat /\ <<n, m>> \notin OpToRel(<, Nat)
    BY <1>1
  <2> QED
    BY <2>1 DEF OpToRel
<1> QED
  BY <1>2 DEF Min

\* As long as a client waits there is a free descriptor, since all that are open lead to
\* other clients.
LEMMA FreeFd ==
  ASSUME SelectServerAssumption, EnoughFds, SelectTypeOK, ConnectionsOnce, backlog # <<>>
  PROVE  /\ Head(backlog) \in Clients
         /\ Min(Fds \ Open) \in Fds \ Open
<1>1. /\ Head(backlog) \in Clients /\ Head(backlog) = backlog[1]
      /\ 1 \in 1..Len(backlog)
  BY DEF SelectTypeOK
<1>2. Fds \ Open # {}
  <2> SUFFICES ASSUME Fds \ Open = {} PROVE FALSE
    OBVIOUS
  <2>1. \A f \in Fds : fdt[f] \in Clients \ {Head(backlog)}
    BY <1>1 DEF SelectTypeOK, ConnectionsOnce, Open
  <2> DEFINE others == Clients \ {Head(backlog)}
  <2>2. IsFiniteSet(others) /\ Cardinality(others) = Cardinality(Clients) - 1
    BY <1>1, FS_RemoveElement DEF EnoughFds
  <2>3. IsFiniteSet(Fds) /\ Cardinality(Fds) = MaxFd
    BY FS_Interval DEF Fds, SelectServerAssumption
  <2>4. Cardinality(others) < Cardinality(Fds)
    BY <2>2, <2>3, FS_CardinalityType DEF EnoughFds, SelectServerAssumption
  <2>5. fdt \in [Fds -> others]
    BY <2>1 DEF SelectTypeOK
  <2>6. PICK f, g \in Fds : f # g /\ fdt[f] = fdt[g]
    BY <2>2, <2>3, <2>4, <2>5, FS_PigeonHole
  <2> QED
    BY <2>1, <2>6 DEF ConnectionsOnce, SelectServerAssumption
<1>3. Fds \ Open \in SUBSET Nat
  BY DEF Fds
<1> QED
  BY <1>1, <1>2, <1>3, LeastOf

\* The least free slot is a slot.
LEMMA FreeSlot ==
  ASSUME FreeSlots # {}
  PROVE  /\ Min(FreeSlots) \in Slots /\ client_socket[Min(FreeSlots)] = 0
         /\ \A s \in FreeSlots : Min(FreeSlots) =< s
<1>1. FreeSlots \in SUBSET Nat
  BY DEF FreeSlots, Slots
<1> QED
  BY <1>1, LeastOf DEF FreeSlots

-----------------------------------------------------------------------------
(***************************************************************************)
(* Types, and that a connection has one descriptor.                        *)
(***************************************************************************)

LEMMA TypeInit ==
  ASSUME SelectServerAssumption, SelectInit
  PROVE  TypeInv
<1>1. NULL \in Buffers /\ NoArg \in Args /\ NoClient \in Ports /\ 0 \in 0..MaxFd /\ 0 \in Slots
  BY DEF SelectServerAssumption, Slots, Ports, Buffers, NULL, Args, NoArg
<1>2. SelectTypeOK
  <2>1. /\ client \in [Clients -> {"new", "open", "left", "done"}]
        /\ inbox \subseteq asked /\ asked \subseteq Clients
        /\ got \in [Clients -> Buffers]
        /\ backlog \in Seq(Clients)
        /\ fdt \in [Fds -> Clients \union {NoClient}]
    BY <1>1 DEF SelectInit
  <2>2. /\ client_socket \in [Slots -> 0..MaxFd]
        /\ ret_sd \in [Slots -> 0..MaxFd]
        /\ finished_work \in [Slots -> BOOLEAN]
        /\ write_buffer \in [Slots -> Buffers]
    BY <1>1 DEF SelectInit
  <2>3. /\ tpc \in [SelectThreads -> {"none", "sd", "slot", "start", "mark", "alloc", "copy",
                                "finish", "gone"}]
        /\ arg \in [SelectThreads -> Args]
        /\ for \in [SelectThreads -> Ports]
    BY <1>1 DEF SelectInit
  <2> QED
    BY <1>1, <2>1, <2>2, <2>3 DEF SelectInit, SelectTypeOK
<1>3. ConnectionsOnce
  BY DEF SelectInit, ConnectionsOnce, Open
<1> QED
  BY <1>2, <1>3 DEF TypeInv, SelectInit

LEMMA SameConnections ==
  ASSUME ConnectionsOnce, UNCHANGED <<client, fdt, backlog>>
  PROVE  ConnectionsOnce'
BY DEF ConnectionsOnce, Open

LEMMA ClientsType ==
  ASSUME SelectServerAssumption, TypeInv, NEW c \in Clients, Arrive(c) \/ Ask(c) \/ Leave(c)
  PROVE  TypeInv'
<1> USE DEF TypeInv, server, kernel, local, slots, selected, _ret_queue, threads
<1>1. CASE Arrive(c)
  <2>1. SelectTypeOK'
    BY <1>1 DEF Arrive, SelectTypeOK
  <2>2. ConnectionsOnce'
    BY <1>1 DEF Arrive, ConnectionsOnce, SelectTypeOK, Open, SelectServerAssumption
  <2> QED
    BY <1>1, <2>1, <2>2 DEF Arrive
<1>2. CASE Ask(c)
  BY <1>2 DEF Ask, SelectTypeOK, ConnectionsOnce, Open
<1>3. CASE Leave(c)
  BY SMTT(20), <1>3 DEF Leave, SelectTypeOK, ConnectionsOnce, Open, SelectServerAssumption
<1> QED
  BY <1>1, <1>2, <1>3

LEMMA AcceptType ==
  ASSUME SelectServerAssumption, EnoughFds, TypeInv, Accept
  PROVE  TypeInv'
<1> USE DEF TypeInv, clients, selected, _ret_queue, threads, kernel, slots
<1>1. CASE ~acceptable
  <2>1. SelectTypeOK'
    BY SMTT(20), <1>1 DEF Accept, SelectTypeOK, Slots, SelectServerAssumption
  <2>2. ConnectionsOnce'
    BY <1>1, SameConnections DEF Accept
  <2> QED
    BY <1>1, <2>1, <2>2 DEF Accept
<1>2. CASE acceptable
  <2> DEFINE c == Head(backlog)
             f == Min(Fds \ Open)
  <2>1. /\ backlog # <<>> /\ fdt' = [fdt EXCEPT ![f] = c] /\ backlog' = Tail(backlog)
        /\ client_socket' = IF FreeSlots = {} THEN client_socket
                            ELSE [client_socket EXCEPT ![Min(FreeSlots)] = f]
        /\ address' = c
    BY <1>2 DEF Accept
  <2>2. c \in Clients /\ f \in Fds \ Open
    BY <2>1, FreeFd
  <2> HIDE DEF c, f
  <2>3. /\ Len(backlog') = Len(backlog) - 1
        /\ \A m \in 1..Len(backlog') : backlog'[m] = backlog[m + 1] /\ m + 1 \in 1..Len(backlog)
        /\ backlog' \in Seq(Clients)
        /\ c = backlog[1] /\ 1 \in 1..Len(backlog) /\ Len(backlog) \in Nat
    BY <2>1 DEF SelectTypeOK, c
  <2>4. SelectTypeOK'
    <3>1. client_socket' \in [Slots -> 0..MaxFd]
      BY <2>1, <2>2, FreeSlot DEF SelectTypeOK, Fds
    <3>2. fdt' \in [Fds -> Clients \union {NoClient}]
      BY <2>1, <2>2 DEF SelectTypeOK
    <3>3. i' \in Slots /\ address' \in Ports
      BY <2>1, <2>2 DEF Accept, Slots, Ports, SelectServerAssumption
    <3> QED
      BY <2>3, <3>1, <3>2, <3>3 DEF Accept, SelectTypeOK
  <2>5. ConnectionsOnce'
    <3>1. client' = client
      BY DEF Accept
    <3>2. \A g, h \in Fds : fdt'[g] # NoClient /\ fdt'[g] = fdt'[h] => g = h
      BY <2>1, <2>2, <2>3 DEF SelectTypeOK, ConnectionsOnce
    <3>3. \A g \in Open' : client[fdt'[g]] # "new"
      BY <2>1, <2>2, <2>3 DEF SelectTypeOK, ConnectionsOnce, Open
    <3>4. ASSUME NEW m \in 1..Len(backlog')
          PROVE  /\ client[backlog'[m]] # "new"
                 /\ \A g \in Fds : fdt'[g] # backlog'[m]
                 /\ \A n \in 1..Len(backlog') : backlog'[m] = backlog'[n] => m = n
      BY <2>1, <2>2, <2>3 DEF SelectTypeOK, ConnectionsOnce
    <3> QED
      BY <3>1, <3>2, <3>3, <3>4 DEF ConnectionsOnce
  <2> QED
    BY <2>4, <2>5 DEF Accept
<1> QED
  BY <1>1, <1>2 DEF SelectTypeOK

LEMMA LoopType ==
  ASSUME SelectServerAssumption, SelectTypeOK, \/ EndInner \/ Again
  PROVE  /\ main' \in {"select", "test"} /\ i' \in Slots /\ j' \in Slots /\ sd' \in 0..MaxFd
         /\ readfds' \subseteq Fds /\ writefds' \subseteq Fds /\ acceptable' \in BOOLEAN
<1>1. 0 \in Slots /\ 0 \in 0..MaxFd
  BY DEF Slots, SelectServerAssumption
<1>2. CASE Again
  BY <1>1, <1>2 DEF Again
<1>3. CASE j < CLIENT_SIZE - 1 /\ j' = j + 1 /\ main' = "test" /\ UNCHANGED <<i, sd, selected>>
  <2>1. j' \in Slots
    BY <1>3 DEF SelectTypeOK, Slots, SelectServerAssumption
  <2> QED
    BY <1>3, <2>1 DEF SelectTypeOK, selected
<1> QED
  BY <1>2, <1>3 DEF EndInner

LEMMA MainType ==
  ASSUME SelectServerAssumption, TypeInv,
         \/ Select \/ NoRead \/ ReadMessage \/ ReadEof \/ Test
         \/ \E t \in SelectThreads : Create(t)
  PROVE  TypeInv'
<1> USE DEF clients, kernel, local, slots, selected, _ret_queue, threads
<1>1. SelectTypeOK /\ ConnectionsOnce
  BY DEF TypeInv
<1>2. CASE Select
  <2>1. Watched \subseteq Fds /\ Readable \subseteq Fds
    BY <1>1 DEF SelectTypeOK, Watched, Readable, Fds
  <2>2. readfds' \subseteq Fds /\ writefds' \subseteq Fds /\ acceptable' \in BOOLEAN
    BY <1>2, <2>1 DEF Select
  <2>3. SelectTypeOK'
    BY <1>1, <1>2, <2>2 DEF Select, SelectTypeOK
  <2> QED
    BY <1>1, <1>2, <2>3, SameConnections DEF Select, TypeInv
<1>3. CASE NoRead
  <2>1. CASE main' = "test" /\ UNCHANGED <<local, selected>>
    BY <1>1, <1>3, <2>1, SameConnections DEF NoRead, TypeInv, SelectTypeOK
  <2>2. CASE i < CLIENT_SIZE - 1 /\ i' = i + 1 /\ UNCHANGED <<main, j, sd, selected>>
    <3>1. i' \in Slots
      BY <1>1, <2>2 DEF SelectTypeOK, Slots, SelectServerAssumption
    <3> QED
      BY <1>1, <1>3, <2>2, <3>1, SameConnections DEF NoRead, TypeInv, SelectTypeOK
  <2>3. CASE Again
    BY <1>1, <1>3, <2>3, LoopType, SameConnections DEF NoRead, TypeInv, SelectTypeOK
  <2> QED
    BY <1>3, <2>1, <2>2, <2>3 DEF NoRead
<1>4. CASE ReadMessage
  <2>1. sd' \in Fds
    BY <1>4 DEF ReadMessage, Open
  <2>2. msgArg' \in Args /\ sd' \in 0..MaxFd
    BY <1>1, <1>4, <2>1 DEF ReadMessage, SelectTypeOK, Args, Fds
  <2>3. SelectTypeOK'
    BY <1>1, <1>4, <2>2 DEF ReadMessage, SelectTypeOK
  <2> QED
    BY <1>1, <1>4, <2>1, <2>3, SameConnections DEF ReadMessage, TypeInv
<1>5. CASE ReadEof
  <2>1. sd' \in Fds
    BY <1>5 DEF ReadEof, Open
  <2>2. SelectTypeOK'
    <3>1. sd' \in 0..MaxFd /\ 0 \in 0..MaxFd
      BY <2>1 DEF Fds, SelectServerAssumption
    <3>2. /\ fdt' \in [Fds -> Clients \union {NoClient}]
          /\ client_socket' \in [Slots -> 0..MaxFd]
          /\ ret_sd' \in [Slots -> 0..MaxFd]
          /\ finished_work' \in [Slots -> BOOLEAN]
          /\ address' \in Ports
      BY <1>1, <1>5, <2>1, <3>1 DEF ReadEof, SelectTypeOK, Ports
    <3> QED
      BY <1>1, <1>5, <3>1, <3>2 DEF ReadEof, SelectTypeOK
  <2>3. ConnectionsOnce'
    BY <1>1, <1>5, <2>1 DEF ReadEof, SelectTypeOK, ConnectionsOnce, Open, SelectServerAssumption
  <2> QED
    BY <1>5, <2>2, <2>3 DEF ReadEof, TypeInv
<1>6. CASE Test
  <2>1. CASE main' = "flush" /\ UNCHANGED <<local, selected>>
    BY <1>1, <1>6, <2>1, SameConnections DEF Test, TypeInv, SelectTypeOK
  <2>2. CASE EndInner
    BY <1>1, <1>6, <2>2, LoopType, SameConnections DEF Test, TypeInv, SelectTypeOK
  <2> QED
    BY <1>6, <2>1, <2>2 DEF Test
<1>7. ASSUME NEW t \in SelectThreads, Create(t) PROVE TypeInv'
  <2>1. sd \in Fds
    BY <1>7 DEF Create, TypeInv
  <2>2. /\ msgArg' \in Args
        /\ tpc' \in [SelectThreads -> {"none", "sd", "slot", "start", "mark", "alloc", "copy",
                                 "finish", "gone"}]
        /\ for' \in [SelectThreads -> Ports]
    BY <1>1, <1>7, <2>1 DEF Create, SelectTypeOK, Args, Ports
  <2>3. SelectTypeOK'
    BY <1>1, <1>7, <2>2 DEF Create, SelectTypeOK
  <2> QED
    BY <1>1, <1>7, <2>3, SameConnections DEF Create, TypeInv
<1> QED
  BY <1>2, <1>3, <1>4, <1>5, <1>6, <1>7

LEMMA FlushType ==
  ASSUME SelectServerAssumption, TypeInv, Flush
  PROVE  TypeInv'
<1> DEFINE f == ret_sd[j]
           c == IF f \in Open THEN fdt[f] ELSE NoClient
<1>1. /\ c \in Clients \union {NoClient} /\ j \in Slots /\ 0 \in 0..MaxFd
      /\ SelectTypeOK /\ ConnectionsOnce
  BY SMTT(20) DEF TypeInv, SelectTypeOK, Open, SelectServerAssumption
<1>2. /\ fdt' = [k \in Fds |-> IF k = f THEN NoClient ELSE fdt[k]]
      /\ \/ c # NoClient /\ client[c] = "open" /\ got' = [got EXCEPT ![c] = write_buffer[j]]
            /\ client' = [client EXCEPT ![c] = "done"]
         \/ got' = got /\ client' = client
      /\ inbox' = inbox \ {c} /\ asked' = asked /\ backlog' = backlog
      /\ main = "flush" /\ EndInner
  BY DEF Flush
<1>3. /\ main' \in {"select", "test"} /\ i' \in Slots /\ j' \in Slots /\ sd' \in 0..MaxFd
      /\ readfds' \subseteq Fds /\ writefds' \subseteq Fds /\ acceptable' \in BOOLEAN
  BY <1>1, <1>2, LoopType
<1> HIDE DEF c
<1>4. SelectTypeOK'
  <2>1. /\ client' \in [Clients -> {"new", "open", "left", "done"}]
        /\ got' \in [Clients -> Buffers]
        /\ fdt' \in [Fds -> Clients \union {NoClient}]
        /\ inbox' \subseteq asked'
    BY <1>1, <1>2 DEF SelectTypeOK
  <2>2. /\ client_socket' \in [Slots -> 0..MaxFd]
        /\ ret_sd' \in [Slots -> 0..MaxFd]
        /\ finished_work' \in [Slots -> BOOLEAN]
    BY <1>1 DEF Flush, SelectTypeOK
  <2> QED
    BY <1>1, <1>3, <2>1, <2>2 DEF Flush, SelectTypeOK, threads
<1>5. \A d \in Clients : client[d] # "new" => client'[d] # "new"
  BY <1>1, <1>2 DEF SelectTypeOK
<1>6. ConnectionsOnce'
  <2>1. \A g \in Fds : fdt'[g] = fdt[g] \/ fdt'[g] = NoClient
    BY <1>2
  <2>2. \A g, h \in Fds : fdt'[g] # NoClient /\ fdt'[g] = fdt'[h] => g = h
    BY <1>1, <2>1 DEF ConnectionsOnce
  <2>3. \A g \in Open' : client'[fdt'[g]] # "new"
    BY <1>1, <1>5, <2>1 DEF ConnectionsOnce, Open, SelectTypeOK
  <2>4. ASSUME NEW m \in 1..Len(backlog)
        PROVE  /\ client'[backlog[m]] # "new"
               /\ \A g \in Fds : fdt'[g] # backlog[m]
               /\ \A n \in 1..Len(backlog) : backlog[m] = backlog[n] => m = n
    <3>1. backlog[m] \in Clients
      BY <1>1 DEF SelectTypeOK
    <3> QED
      BY <1>1, <1>5, <2>1, <3>1 DEF ConnectionsOnce, SelectServerAssumption
  <2> QED
    BY <1>2, <2>2, <2>3, <2>4 DEF ConnectionsOnce
<1> QED
  BY <1>3, <1>4, <1>6 DEF TypeInv

LEMMA ThreadType ==
  ASSUME SelectServerAssumption, TypeInv, NEW t \in SelectThreads, Thread(t)
  PROVE  TypeInv'
<1>1. SelectTypeOK /\ ConnectionsOnce /\ arg[t] \in Args /\ msgArg \in Args /\ for[t] \in Ports
  BY DEF TypeInv, SelectTypeOK
<1>2. /\ tpc' \in [SelectThreads -> {"none", "sd", "slot", "start", "mark", "alloc", "copy",
                               "finish", "gone"}]
      /\ UNCHANGED <<clients, kernel, main, local, slots, selected, msgArg, for, overlap>>
  BY <1>1 DEF Thread, ReadSd, ReadSlot, Busy, Mark, Alloc, Copy, Finish, WorkStep, SelectTypeOK
<1>3. arg' \in [SelectThreads -> Args]
  <2>1. /\ NoArg \in Args
        /\ [arg[t] EXCEPT !.sd = msgArg.sd] \in Args
        /\ [arg[t] EXCEPT !.slot = msgArg.slot, !.port = msgArg.port] \in Args
    <3>1. NoArg \in Args
      BY DEF NoArg, Args, Slots, Ports, SelectServerAssumption
    <3>2. [arg[t] EXCEPT !.sd = msgArg.sd] \in Args
      BY <1>1 DEF Args
    <3>3. [arg[t] EXCEPT !.slot = msgArg.slot, !.port = msgArg.port] \in Args
      BY <1>1 DEF Args
    <3> QED
      BY <3>1, <3>2, <3>3
  <2>2. CASE ReadSd(t)
    BY <1>1, <2>1, <2>2 DEF ReadSd, SelectTypeOK
  <2>3. CASE ReadSlot(t)
    BY <1>1, <2>1, <2>3 DEF ReadSlot, SelectTypeOK
  <2>4. CASE arg' = arg \/ arg' = [arg EXCEPT ![t] = NoArg]
    BY <1>1, <2>1, <2>4 DEF SelectTypeOK
  <2> QED
    BY <2>2, <2>3, <2>4 DEF Thread, Busy, Mark, Alloc, Copy, Finish, WorkStep
<1>4. /\ ret_sd' \in [Slots -> 0..MaxFd]
      /\ finished_work' \in [Slots -> BOOLEAN]
      /\ write_buffer' \in [Slots -> Buffers]
  <2>1. /\ arg[t].sd \in 0..MaxFd
        /\ [NULL EXCEPT !.state = "uninitialised"] \in Buffers
        /\ [state |-> "written", for |-> for[t], sd |-> arg[t].sd, port |-> arg[t].port]
             \in Buffers
    BY <1>1 DEF Args, NULL, Buffers, Ports, SelectServerAssumption
  <2>2. CASE Mark(t)
    BY <1>1, <2>1, <2>2 DEF Mark, SelectTypeOK
  <2>3. CASE Alloc(t)
    BY <1>1, <2>1, <2>3 DEF Alloc, SelectTypeOK
  <2>4. CASE Copy(t)
    BY <1>1, <2>1, <2>4 DEF Copy, SelectTypeOK
  <2>5. CASE ReadSd(t) \/ ReadSlot(t) \/ Busy(t) \/ Finish(t)
    BY <1>1, <2>5 DEF ReadSd, ReadSlot, Busy, Finish, SelectTypeOK, _ret_queue
  <2> QED
    BY <2>2, <2>3, <2>4, <2>5 DEF Thread
<1>5. SelectTypeOK'
  BY <1>1, <1>2, <1>3, <1>4 DEF SelectTypeOK, clients, kernel, local, slots, selected
<1> QED
  BY <1>1, <1>2, <1>5, SameConnections DEF TypeInv, clients, kernel, local

LEMMA TypeNext ==
  ASSUME SelectServerAssumption, EnoughFds, TypeInv, [SelectNext]_selectVars
  PROVE  TypeInv'
<1>1. CASE UNCHANGED selectVars
  BY <1>1 DEF selectVars, clients, kernel, local, slots, selected, _ret_queue, threads,
              TypeInv, SelectTypeOK, ConnectionsOnce, Open
<1> QED
  BY <1>1, ClientsType, AcceptType, MainType, FlushType, ThreadType DEF SelectNext, Main

-----------------------------------------------------------------------------
(***************************************************************************)
(* Calm times.                                                             *)
(***************************************************************************)

\* What CalmInv says of calm times.
CalmParts ==
  /\ CalmSlots
  /\ AllOpen
  /\ MarkedRight
  /\ MainRight
  /\ \A t \in SelectThreads : ThreadRight(t)
  /\ FirstRight
  /\ AloneRight
  /\ AloneOwn

\* Times that are calm were calm before, and a client that is alone was alone.
LEMMA CalmBefore ==
  ASSUME SelectTypeOK, [SelectNext]_selectVars
  PROVE  /\ Calm' => Calm
         /\ ~company' => ~company
<1>1. overlap => overlap'
  BY DEF SelectNext, Main, Thread, Arrive, Ask, Leave, Select, Accept, NoRead, ReadMessage, ReadEof,
         Create, Test, Flush, ReadSd, ReadSlot, Busy, Mark, Alloc, Copy, Finish, WorkStep,
         server, threads, selectVars
<1>2. company => company'
  BY DEF SelectNext, Main, Thread, Arrive, Ask, Leave, Select, Accept, NoRead, ReadMessage, ReadEof,
         Create, Test, Flush, ReadSd, ReadSlot, Busy, Mark, Alloc, Copy, Finish, WorkStep,
         clients, selectVars
<1>3. ASSUME NEW c \in Clients, client[c] = "left"
      PROVE  client'[c] = "left"
  <2>1. CASE client' = client
    BY <1>3, <2>1
  <2>2. ASSUME NEW d \in Clients, Arrive(d) \/ Leave(d) PROVE client'[c] = "left"
    BY <1>3, <2>2 DEF Arrive, Leave, SelectTypeOK
  <2>3. CASE Flush
    BY <1>3, <2>3 DEF Flush, SelectTypeOK
  <2> QED
    BY <2>1, <2>2, <2>3
       DEF SelectNext, Main, Thread, Ask, Select, Accept, NoRead, ReadMessage, ReadEof, Create, Test,
           ReadSd, ReadSlot, Busy, Mark, Alloc, Copy, Finish, WorkStep, clients, selectVars
<1> QED
  BY <1>1, <1>2, <1>3 DEF Calm

\* Steps of main that change nothing but where it is.
LEMMA MainMoves ==
  ASSUME CalmParts, MainRight',
         UNCHANGED <<clients, kernel, slots, msgArg, _ret_queue, threads>>
  PROVE  CalmParts'
<1> USE DEF clients, kernel, slots, _ret_queue, threads
<1>1. UNCHANGED <<Calm, Open, Watched>>
  BY DEF Calm, Open, Watched
<1>2. CalmSlots' /\ AllOpen' /\ MarkedRight'
  BY <1>1 DEF CalmParts, CalmSlots, AllOpen, MarkedRight
<1>3. FirstRight' /\ AloneRight' /\ AloneOwn'
  BY <1>1 DEF CalmParts, FirstRight, ReplyTo, AloneRight, AloneOwn
<1>4. \A t \in SelectThreads : ThreadRight(t)'
  BY <1>1 DEF CalmParts, ThreadRight, Working, Unmarked, SocketOf, SlotOf, PortOf, MessageRead,
              ReplyTo
<1> QED
  BY <1>2, <1>3, <1>4 DEF CalmParts

LEMMA MainMovesCalm ==
  ASSUME SelectTypeOK, CalmParts, Select \/ NoRead \/ Test
  PROVE  CalmParts'
<1>1. MainRight'
  <2>1. CASE main' \notin {"create", "flush"}
    BY <2>1 DEF MainRight
  <2>2. CASE Test /\ Ready
    <3>1. ret_sd[j] # 0 /\ finished_work[0]
      BY <2>2 DEF Ready, SelectTypeOK
    <3>2. main' = "flush" /\ UNCHANGED <<j, _ret_queue>>
      BY <2>2 DEF Test, local
    <3> QED
      BY <3>1, <3>2 DEF MainRight, _ret_queue
  <2> QED
    BY <2>1, <2>2 DEF Select, NoRead, Test, EndInner, Again
<1> QED
  BY <1>1, MainMoves DEF Select, NoRead, Test

LEMMA ClientsCalm ==
  ASSUME SelectServerAssumption, SelectTypeOK, CalmParts, Calm,
         NEW c \in Clients, Arrive(c) \/ Ask(c)
  PROVE  CalmParts'
<1> USE DEF server, kernel, local, slots, selected, _ret_queue, threads
<1>1. CASE Arrive(c)
  <2>1. /\ client[c] = "new" /\ client' = [client EXCEPT ![c] = "open"]
        /\ UNCHANGED <<asked, inbox, got, fdt, server>>
        /\ backlog' = Append(backlog, c)
        /\ ~company' => ~company /\ \A d \in Clients : client[d] # "open"
    BY <1>1 DEF Arrive, SelectTypeOK
  <2>2. UNCHANGED <<Open, Watched>>
    BY <2>1 DEF Open, Watched
  <2>3. CalmSlots' /\ MarkedRight' /\ MainRight'
    BY <2>1, <2>2 DEF CalmParts, CalmSlots, MarkedRight, MainRight, MessageRead, Working
  <2>4. AllOpen'
    BY <2>1, <2>2 DEF CalmParts, AllOpen, SelectTypeOK, Open
  <2>5. \A t \in SelectThreads : ThreadRight(t)'
    BY <2>1, <2>2 DEF CalmParts, ThreadRight, Working, Unmarked, SocketOf, SlotOf, PortOf,
                      MessageRead, ReplyTo
  <2>6. FirstRight'
    BY <2>1 DEF CalmParts, FirstRight, ReplyTo
  <2>7. AloneRight' /\ AloneOwn'
    BY <2>1, <2>2 DEF CalmParts, AloneRight, AloneOwn, SelectTypeOK
  <2> QED
    BY <2>3, <2>4, <2>5, <2>6, <2>7 DEF CalmParts
<1>2. CASE Ask(c)
  <2>1. /\ c \notin asked /\ asked' = asked \union {c} /\ inbox' = inbox \union {c}
        /\ UNCHANGED <<client, got, company, kernel, server>>
    BY <1>2 DEF Ask
  <2>2. UNCHANGED <<Calm, Open, Watched>>
    BY <2>1 DEF Calm, Open, Watched
  <2>3. \A d \in asked \ inbox : d \in asked' \ inbox'
    BY <2>1
  <2>4. CalmSlots' /\ AllOpen' /\ MarkedRight' /\ MainRight'
    BY <2>1, <2>2, <2>3 DEF CalmParts, CalmSlots, AllOpen, MarkedRight, MainRight, MessageRead,
                            Working
  <2>5. \A t \in SelectThreads : ThreadRight(t)'
    BY <2>1, <2>2, <2>3 DEF CalmParts, ThreadRight, Working, Unmarked, SocketOf, SlotOf, PortOf,
                            MessageRead, ReplyTo
  <2>6. FirstRight' /\ AloneRight' /\ AloneOwn'
    BY <2>1, <2>2 DEF CalmParts, FirstRight, ReplyTo, AloneRight, AloneOwn
  <2> QED
    BY <2>4, <2>5, <2>6 DEF CalmParts
<1> QED
  BY <1>1, <1>2

LEMMA AcceptCalm ==
  ASSUME SelectServerAssumption, EnoughFds, TypeInv, CalmParts, Calm, Accept
  PROVE  CalmParts'
<1> USE DEF clients, kernel, selected, _ret_queue, threads, slots
<1>1. MainRight'
  BY DEF Accept, MainRight
<1>2. CASE ~acceptable
  BY <1>1, <1>2, MainMoves DEF Accept, TypeInv, SelectTypeOK
<1>3. CASE acceptable
  <2> DEFINE c == Head(backlog)
             f == Min(Fds \ Open)
             z == Min(FreeSlots)
  <2>1. /\ backlog # <<>> /\ fdt' = [fdt EXCEPT ![f] = c] /\ backlog' = Tail(backlog)
        /\ client_socket' = IF FreeSlots = {} THEN client_socket
                            ELSE [client_socket EXCEPT ![z] = f]
        /\ address' = c
        /\ UNCHANGED <<clients, msgArg, _ret_queue, threads>>
    BY <1>3 DEF Accept
  <2>2. SelectTypeOK /\ ConnectionsOnce /\ c \in Clients /\ f \in Fds \ Open /\ f # 0
    BY <2>1, FreeFd DEF TypeInv, Fds
  <2>3. FreeSlots # {} => z \in Slots /\ client_socket[z] = 0 /\ \A s \in FreeSlots : z =< s
    BY FreeSlot
  <2>4. /\ Len(backlog') = Len(backlog) - 1
        /\ \A m \in 1..Len(backlog') : backlog'[m] = backlog[m + 1] /\ m + 1 \in 1..Len(backlog)
        /\ c = backlog[1] /\ 1 \in 1..Len(backlog) /\ Len(backlog) \in Nat
    BY <2>1, <2>2 DEF SelectTypeOK
  <2> HIDE DEF c, f, z
  <2>5. /\ Open' = Open \union {f} /\ fdt'[f] = c
        /\ \A g \in Open : fdt'[g] = fdt[g] /\ g # f /\ fdt[g] # c
    BY <2>1, <2>2, <2>4 DEF Open, SelectTypeOK, ConnectionsOnce, SelectServerAssumption
  <2>6. /\ \A s \in Slots : client_socket[s] # 0 =>
             client_socket[s] \in Open /\ client_socket'[s] = client_socket[s]
        /\ \A s \in Slots :
             client_socket'[s] = client_socket[s] \/ (s = z /\ client_socket'[s] = f)
    <3>1. \A s \in Slots :
            client_socket'[s] = IF FreeSlots # {} /\ s = z THEN f ELSE client_socket[s]
      BY <2>1, <2>2 DEF SelectTypeOK
    <3>2. \A s \in Slots : client_socket[s] # 0 => client_socket[s] \in Open
      BY DEF CalmParts, CalmSlots, Watched
    <3> QED
      BY <2>3, <3>1, <3>2
  <2>7. CalmSlots'
    BY <2>5, <2>6 DEF CalmParts, CalmSlots, Watched
  <2>8. AllOpen'
    BY <2>1, <2>4, <2>5 DEF CalmParts, AllOpen
  <2>9. \A s \in Slots : ret_sd[s] # 0 => ret_sd[s] = client_socket[s] /\ ret_sd[s] \in Open
    BY <2>6 DEF CalmParts, MarkedRight
  <2>10. MarkedRight'
    BY <2>1, <2>5, <2>6, <2>9 DEF CalmParts, MarkedRight
  <2>11. ASSUME NEW t \in SelectThreads PROVE ThreadRight(t)'
    <3>1. ThreadRight(t) /\ 0 \in Slots
      BY DEF CalmParts, Slots, SelectServerAssumption
    <3>2. SlotOf(t) \in Slots
      BY <2>2 DEF SlotOf, SelectTypeOK, Args
    <3>3. MessageRead(SlotOf(t), SocketOf(t)) => MessageRead(SlotOf(t), SocketOf(t))'
      <4>1. UNCHANGED <<SlotOf(t), SocketOf(t), inbox, asked, ret_sd>>
        BY <2>1 DEF SlotOf, SocketOf
      <4>2. \A g \in Open : g # 0
        BY DEF Open, Fds
      <4> QED
        BY <2>5, <2>6, <3>2, <4>1, <4>2 DEF MessageRead
    <3>4. /\ MessageRead(SlotOf(t), SocketOf(t)) => fdt'[SocketOf(t)] = fdt[SocketOf(t)]
          /\ ret_sd[0] # 0 => fdt'[ret_sd[0]] = fdt[ret_sd[0]]
      BY <2>5, <2>9, <3>1 DEF MessageRead
    <3> QED
      BY <2>1, <3>1, <3>3, <3>4 DEF ThreadRight, Working, Unmarked, SocketOf, SlotOf, PortOf, ReplyTo
  <2>12. FirstRight'
    <3>1. ret_sd[0] # 0 => fdt'[ret_sd[0]] = fdt[ret_sd[0]]
      BY <2>5, <2>9 DEF Slots, SelectServerAssumption
    <3> QED
      BY <2>1, <3>1 DEF CalmParts, FirstRight, ReplyTo
  <2>13. ASSUME ~company PROVE AloneRight'
    <3>1. Open = {}
      <4>1. client[c] = "open"
        BY <2>4 DEF CalmParts, AllOpen
      <4>2. \A g \in Open : fdt[g] \in Clients /\ client[fdt[g]] = "open"
        BY <2>2 DEF CalmParts, AllOpen, Open, SelectTypeOK
      <4> QED
        BY <2>2, <2>5, <2>13, <4>1, <4>2 DEF CalmParts, AloneRight
    <3>2. \A s \in Slots : client_socket[s] = 0
      BY <2>6, <3>1
    <3>3. 0 \in FreeSlots
      BY <3>2 DEF FreeSlots, Slots, SelectServerAssumption
    <3>4. z = 0
      BY <2>3, <3>3 DEF Slots
    <3> QED
      BY <2>1, <2>5, <2>6, <3>1, <3>2, <3>4 DEF CalmParts, AloneRight
  <2>14. AloneOwn'
    BY <2>1 DEF CalmParts, AloneOwn, Calm
  <2> QED
    BY <1>1, <2>1, <2>7, <2>8, <2>10, <2>11, <2>12, <2>13, <2>14 DEF CalmParts, AloneRight
<1> QED
  BY <1>2, <1>3

LEMMA ReadMessageCalm ==
  ASSUME SelectServerAssumption, TypeInv, CalmParts, Calm, Calm', ReadMessage
  PROVE  CalmParts'
<1>1. /\ sd' = client_socket[i] /\ sd' \in Open /\ fdt[sd'] \in inbox
      /\ inbox' = inbox \ {fdt[sd']} /\ msgArg' = [msgArg EXCEPT !.sd = sd']
      /\ overlap' = (overlap \/ \E t \in SelectThreads : Working(t))
      /\ main' = "create"
      /\ UNCHANGED <<client, asked, got, company, kernel, i, j, slots, _ret_queue, tpc, arg, for>>
  BY DEF ReadMessage, Working
<1> USE DEF kernel, slots, _ret_queue
<1>2. SelectTypeOK /\ UNCHANGED <<Open, Watched>>
  BY <1>1 DEF Open, Watched, TypeInv
<1>3. CalmSlots' /\ AllOpen' /\ MarkedRight'
  BY <1>1, <1>2 DEF CalmParts, CalmSlots, AllOpen, MarkedRight
<1>4. \A t \in SelectThreads : ~Working(t)'
  BY <1>1 DEF Calm, Working
<1>5. MainRight'
  <2>1. ret_sd[i] = 0
    BY <1>1, <1>2 DEF CalmParts, MarkedRight, SelectTypeOK
  <2>2. msgArg'.sd = sd'
    BY <1>1, <1>2 DEF SelectTypeOK, Args
  <2>3. MessageRead(i, sd)'
    BY <1>1, <1>2, <2>1 DEF MessageRead, SelectTypeOK
  <2> QED
    BY <1>1, <1>4, <2>2, <2>3 DEF MainRight
<1>6. FirstRight' /\ AloneRight' /\ AloneOwn'
  BY <1>1, <1>2 DEF CalmParts, FirstRight, ReplyTo, AloneRight, AloneOwn, Calm
<1> QED
  BY <1>3, <1>4, <1>5, <1>6 DEF CalmParts, ThreadRight

LEMMA CreateCalm ==
  ASSUME SelectServerAssumption, TypeInv, CalmParts, Calm, NEW t \in SelectThreads, Create(t)
  PROVE  CalmParts'
<1>1. /\ main = "create" /\ main' = "test"
      /\ msgArg' = [msgArg EXCEPT !.slot = i, !.port = address]
      /\ tpc' = [tpc EXCEPT ![t] = "sd"]
      /\ for' = [for EXCEPT ![t] = fdt[sd]]
      /\ UNCHANGED <<clients, kernel, local, slots, _ret_queue, arg, overlap>>
  BY DEF Create
<1> USE DEF clients, kernel, local, slots, _ret_queue
<1>2. SelectTypeOK /\ UNCHANGED <<Open, Watched>>
  BY <1>1 DEF Open, Watched, TypeInv
<1>3. CalmSlots' /\ AllOpen' /\ MarkedRight' /\ MainRight'
  BY <1>1, <1>2 DEF CalmParts, CalmSlots, AllOpen, MarkedRight, MainRight, Calm
<1>4. FirstRight' /\ AloneRight' /\ AloneOwn'
  BY <1>1, <1>2 DEF CalmParts, FirstRight, ReplyTo, AloneRight, AloneOwn, Calm
<1>5. /\ \A u \in SelectThreads : ~Working(u)
      /\ MessageRead(i, sd) /\ msgArg.sd = sd
      /\ ~company => fdt[sd] = address
  BY <1>1 DEF CalmParts, MainRight, AloneRight, MessageRead
<1>6. \A u \in SelectThreads \ {t} : ~Working(u)'
  BY <1>1, <1>2, <1>5 DEF Working, SelectTypeOK
<1>7. ThreadRight(t)'
  <2>1. /\ tpc'[t] = "sd" /\ for'[t] = fdt[sd]
        /\ msgArg'.sd = sd /\ msgArg'.slot = i /\ msgArg'.port = address
    BY <1>1, <1>2, <1>5 DEF SelectTypeOK, Args
  <2>2. SlotOf(t)' = i /\ SocketOf(t)' = sd /\ PortOf(t)' = address
    BY <2>1 DEF SlotOf, SocketOf, PortOf
  <2>3. MessageRead(i, sd)'
    BY <1>1, <1>2, <1>5 DEF MessageRead
  <2> QED
    BY <1>1, <1>5, <1>6, <2>1, <2>2, <2>3 DEF ThreadRight, Unmarked, MessageRead
<1> QED
  BY <1>3, <1>4, <1>6, <1>7 DEF CalmParts, ThreadRight

LEMMA FlushCalm ==
  ASSUME SelectServerAssumption, TypeInv, CalmParts, Calm, Flush
  PROVE  CalmParts'
<1> DEFINE f == ret_sd[j]
           c == fdt[f]
<1>1. SelectTypeOK /\ ConnectionsOnce /\ main = "flush" /\ j \in Slots /\ 0 \in Slots /\ f # 0
  <2>1. main = "flush" /\ f # 0
    BY DEF Flush, CalmParts, MainRight
  <2>2. j \in Slots /\ 0 \in Slots
    BY DEF TypeInv, SelectTypeOK, Slots, SelectServerAssumption
  <2> QED
    BY <2>1, <2>2 DEF TypeInv
<1>2. /\ f = client_socket[j] /\ f \in Open /\ c \in Clients /\ client[c] = "open"
      /\ c # NoClient
  <2>1. f = client_socket[j] /\ f \in Open
    BY <1>1 DEF CalmParts, MarkedRight, CalmSlots, Watched
  <2> QED
    BY <1>1, <2>1 DEF CalmParts, AllOpen, Open, SelectTypeOK
<1>3. /\ fdt' = [k \in Fds |-> IF k = f THEN NoClient ELSE fdt[k]]
      /\ got' = [got EXCEPT ![c] = write_buffer[j]]
      /\ client' = [client EXCEPT ![c] = "done"]
      /\ inbox' = inbox \ {c}
      /\ client_socket' = [client_socket EXCEPT ![j] = 0]
      /\ ret_sd' = [ret_sd EXCEPT ![j] = 0]
      /\ finished_work' = [finished_work EXCEPT ![j] = TRUE]
      /\ main' \in {"select", "test"}
      /\ UNCHANGED <<asked, company, backlog, address, msgArg, write_buffer, threads>>
  BY <1>2 DEF Flush, EndInner, Again
<1> HIDE DEF f, c
<1> USE DEF threads
<1>4. /\ Open' = Open \ {f}
      /\ \A g \in Open' : fdt'[g] = fdt[g] /\ fdt[g] # c
  BY <1>1, <1>2, <1>3 DEF Open, ConnectionsOnce, c
<1>5. \A s \in Slots \ {j} :
        /\ client_socket'[s] = client_socket[s] /\ client_socket[s] # f
        /\ ret_sd'[s] = ret_sd[s] /\ finished_work'[s] = finished_work[s]
  BY <1>1, <1>2, <1>3 DEF CalmParts, CalmSlots, SelectTypeOK
<1>6. client_socket'[j] = 0 /\ ret_sd'[j] = 0
  BY <1>1, <1>3 DEF SelectTypeOK
<1>7. \A s \in Slots \ {j} : client_socket[s] # 0 => client_socket[s] \in Open'
  BY <1>4, <1>5 DEF CalmParts, CalmSlots, Watched
<1>8. CalmSlots'
  BY <1>5, <1>6, <1>7 DEF CalmParts, CalmSlots, Watched
<1>9. AllOpen'
  <2>1. \A d \in Clients : client[d] = "open" /\ d # c => client'[d] = "open"
    BY <1>1, <1>3 DEF SelectTypeOK
  <2>2. \A g \in Open' : fdt[g] \in Clients /\ client[fdt[g]] = "open"
    BY <1>1, <1>4 DEF CalmParts, AllOpen, Open, SelectTypeOK
  <2>3. \A m \in 1..Len(backlog) :
          backlog[m] \in Clients /\ backlog[m] # c /\ client[backlog[m]] = "open"
    BY <1>1, <1>2 DEF CalmParts, AllOpen, ConnectionsOnce, SelectTypeOK, Open, c
  <2> QED
    BY <1>3, <1>4, <2>1, <2>2, <2>3 DEF AllOpen
<1>10. \A s \in Slots \ {j} : ret_sd[s] # 0 =>
         /\ ret_sd[s] = client_socket[s] /\ fdt'[ret_sd[s]] = fdt[ret_sd[s]]
         /\ fdt[ret_sd[s]] \in asked' \ inbox'
  BY <1>3, <1>4, <1>7 DEF CalmParts, MarkedRight
<1>11. MarkedRight'
  BY <1>5, <1>6, <1>10 DEF MarkedRight
<1>12. MainRight'
  BY <1>3 DEF MainRight
<1>13. ASSUME NEW t \in SelectThreads, Working(t) PROVE ThreadRight(t)'
  <2>1. ThreadRight(t) /\ SlotOf(t) \in Slots
    BY <1>1 DEF CalmParts, SlotOf, SelectTypeOK, Args
  <2>2. UNCHANGED <<SlotOf(t), SocketOf(t), PortOf(t), Working(t), Unmarked(t), tpc, for, company>>
    BY <1>3 DEF SlotOf, SocketOf, PortOf, Working, Unmarked
  <2>3. \A u \in SelectThreads : Working(u)' = Working(u)
    BY <1>3 DEF Working
  <2>4. ASSUME Unmarked(t)
        PROVE  MessageRead(SlotOf(t), SocketOf(t))' /\ fdt'[SocketOf(t)] = for[t]
    <3>1. /\ MessageRead(SlotOf(t), SocketOf(t)) /\ fdt[SocketOf(t)] = for[t]
          /\ SlotOf(t) # j
      BY <1>1, <1>13, <2>1, <2>4 DEF ThreadRight, MessageRead, f
    <3>2. SocketOf(t) \in Open' /\ client_socket'[SlotOf(t)] = SocketOf(t)
      BY <1>4, <1>5, <2>1, <3>1 DEF MessageRead
    <3> QED
      BY <1>3, <1>4, <1>5, <2>1, <2>2, <3>1, <3>2 DEF MessageRead
  <2>5. ASSUME SlotOf(t) = 0, tpc[t] \in {"mark", "alloc", "copy", "finish"}
        PROVE  j # 0 /\ ~finished_work'[0] /\ ret_sd'[0] = ret_sd[0]
    <3>1. ~finished_work[0]
      BY <1>13, <2>1, <2>5 DEF ThreadRight
    <3>2. j # 0
      BY <1>1, <3>1 DEF CalmParts, MainRight
    <3> QED
      BY <1>1, <1>5, <3>1, <3>2
  <2>6. ~Unmarked(t) => tpc[t] \in {"alloc", "copy", "finish"}
    BY <1>1, <1>13 DEF Working, Unmarked, SelectTypeOK
  <2>7. ASSUME SlotOf(t) = 0, ~Unmarked(t)
        PROVE  ret_sd'[0] # 0 /\ fdt'[ret_sd'[0]] = for[t]
    <3>1. ret_sd[0] # 0 /\ fdt[ret_sd[0]] = for[t]
      BY <1>13, <2>1, <2>7 DEF ThreadRight
    <3> QED
      BY <1>1, <1>10, <2>5, <2>6, <2>7, <3>1
  <2>8. \A d : ReplyTo(d) => ReplyTo(d)'
    BY <1>3 DEF ReplyTo
  <2> QED
    BY <1>13, <2>1, <2>2, <2>3, <2>4, <2>5, <2>7, <2>8 DEF ThreadRight
<1>14. ASSUME NEW t \in SelectThreads, ~Working(t) PROVE ThreadRight(t)'
  BY <1>3, <1>14 DEF ThreadRight, Working
<1>15. FirstRight'
  BY <1>1, <1>3, <1>5, <1>6, <1>10 DEF CalmParts, FirstRight, ReplyTo
<1>16. AloneRight'
  BY <1>1, <1>3, <1>4, <1>5, <1>6 DEF CalmParts, AloneRight, SelectTypeOK
<1>17. ASSUME ~company, NEW d \in Clients
       PROVE  \/ got'[d].state = "NULL"
              \/ got'[d].state = "written" /\ got'[d].for = d /\ got'[d].port = d
  <2>1. CASE d = c
    <3>1. j = 0
      BY <1>1, <1>2, <1>17 DEF CalmParts, AloneRight
    <3>2. ReplyTo(c)
      BY <1>1, <3>1 DEF CalmParts, FirstRight, MainRight, f, c
    <3>3. got'[c] = write_buffer[0]
      BY <1>1, <1>2, <1>3, <3>1 DEF SelectTypeOK
    <3> QED
      BY <1>17, <2>1, <3>2, <3>3 DEF ReplyTo
  <2>2. CASE d # c
    BY <1>1, <1>3, <1>17, <2>2 DEF CalmParts, AloneOwn, SelectTypeOK
  <2> QED
    BY <2>1, <2>2
<1>18. AloneOwn'
  BY <1>3, <1>17 DEF AloneOwn
<1> QED
  BY <1>8, <1>9, <1>11, <1>12, <1>13, <1>14, <1>15, <1>16, <1>18 DEF CalmParts

LEMMA ThreadCalm ==
  ASSUME SelectServerAssumption, TypeInv, CalmParts, Calm, NEW t \in SelectThreads, Thread(t)
  PROVE  CalmParts'
<1> DEFINE s == arg[t].slot
<1>1. /\ SelectTypeOK /\ 0 \in Slots /\ s \in Slots /\ arg[t] \in Args /\ msgArg \in Args
  <2>1. SelectTypeOK /\ arg[t] \in Args /\ msgArg \in Args
    BY DEF TypeInv, SelectTypeOK
  <2>2. 0 \in Slots /\ s \in Slots
    BY <2>1 DEF Args, Slots, SelectServerAssumption
  <2> QED
    BY <2>1, <2>2
<1>2. /\ UNCHANGED <<clients, kernel, main, local, slots, selected, msgArg, for, overlap>>
      /\ \A u \in SelectThreads \ {t} : tpc'[u] = tpc[u]
      /\ Working(t)
  BY <1>1
   DEF Thread, ReadSd, ReadSlot, Busy, Mark, Alloc, Copy, Finish, WorkStep, SelectTypeOK, Working
<1> USE DEF clients, kernel, slots, local
<1>3. /\ \A u \in SelectThreads : Working(u)' => u = t
      /\ ThreadRight(t)
      /\ main # "create"
  BY <1>2 DEF CalmParts, MainRight, ThreadRight, Working
<1>4. UNCHANGED <<Open, Watched, Calm>>
  BY <1>2 DEF Open, Watched, Calm
<1>5. CalmSlots' /\ AllOpen' /\ AloneRight' /\ AloneOwn'
  BY <1>2, <1>4 DEF CalmParts, CalmSlots, AllOpen, AloneRight, AloneOwn
<1>6. SUFFICES MarkedRight' /\ MainRight' /\ ThreadRight(t)' /\ FirstRight'
  BY <1>3, <1>5 DEF CalmParts, ThreadRight
<1>7. CASE ReadSd(t)
  <2>1. /\ tpc[t] = "sd" /\ tpc'[t] = "slot" /\ arg'[t].sd = msgArg.sd
        /\ UNCHANGED _ret_queue
    BY <1>1, <1>7 DEF ReadSd, SelectTypeOK, Args
  <2>2. /\ SlotOf(t)' = SlotOf(t) /\ SocketOf(t)' = SocketOf(t) /\ PortOf(t)' = PortOf(t)
    BY <1>2, <2>1 DEF SlotOf, SocketOf, PortOf
  <2>3. MarkedRight' /\ MainRight' /\ FirstRight'
    BY <1>2, <1>3, <2>1 DEF CalmParts, MarkedRight, MainRight, FirstRight, ReplyTo, _ret_queue
  <2> QED
    BY <1>2, <1>3, <1>4, <2>1, <2>2, <2>3
       DEF ThreadRight, Working, Unmarked, MessageRead, _ret_queue
<1>8. CASE ReadSlot(t)
  <2>1. /\ tpc[t] = "slot" /\ tpc'[t] = "start" /\ arg'[t].sd = arg[t].sd
        /\ arg'[t].slot = msgArg.slot /\ arg'[t].port = msgArg.port
        /\ UNCHANGED _ret_queue
    BY <1>1, <1>8 DEF ReadSlot, SelectTypeOK, Args
  <2>2. /\ SlotOf(t)' = SlotOf(t) /\ SocketOf(t)' = SocketOf(t) /\ PortOf(t)' = PortOf(t)
    BY <1>2, <2>1 DEF SlotOf, SocketOf, PortOf
  <2>3. MarkedRight' /\ MainRight' /\ FirstRight'
    BY <1>2, <1>3, <2>1 DEF CalmParts, MarkedRight, MainRight, FirstRight, ReplyTo, _ret_queue
  <2> QED
    BY <1>2, <1>3, <1>4, <2>1, <2>2, <2>3
       DEF ThreadRight, Working, Unmarked, MessageRead, _ret_queue
<1>9. CASE Busy(t)
  <2>1. /\ tpc[t] = "start" /\ tpc'[t] = "mark" /\ arg' = arg
        /\ finished_work' = [finished_work EXCEPT ![s] = FALSE]
        /\ UNCHANGED <<ret_sd, write_buffer>>
    BY <1>1, <1>9 DEF Busy, WorkStep, SelectTypeOK
  <2>2. /\ SlotOf(t) = s /\ SlotOf(t)' = s
        /\ SocketOf(t)' = SocketOf(t) /\ PortOf(t)' = PortOf(t)
    BY <2>1 DEF SlotOf, SocketOf, PortOf
  <2>3. ret_sd[s] = 0
    BY <1>2, <1>3, <2>1, <2>2 DEF ThreadRight, Unmarked, MessageRead
  <2>4. finished_work'[s] = FALSE /\ \A z \in Slots \ {s} : finished_work'[z] = finished_work[z]
    BY <1>1, <2>1 DEF SelectTypeOK
  <2>5. MarkedRight' /\ MainRight' /\ FirstRight'
    BY <1>1, <1>2, <1>3, <2>1, <2>3, <2>4
       DEF CalmParts, MarkedRight, MainRight, FirstRight, ReplyTo
  <2> QED
    BY <1>2, <1>3, <1>4, <2>1, <2>2, <2>4, <2>5 DEF ThreadRight, Working, Unmarked, MessageRead
<1>10. CASE Mark(t)
  <2>1. /\ tpc[t] = "mark" /\ tpc'[t] = "alloc" /\ arg' = arg
        /\ ret_sd' = [ret_sd EXCEPT ![s] = arg[t].sd]
        /\ UNCHANGED <<finished_work, write_buffer>>
    BY <1>1, <1>10 DEF Mark, WorkStep, SelectTypeOK
  <2>2. /\ SlotOf(t) = s /\ SlotOf(t)' = s
        /\ SocketOf(t) = arg[t].sd /\ PortOf(t)' = PortOf(t)
    BY <2>1 DEF SlotOf, SocketOf, PortOf
  <2>3. /\ MessageRead(s, arg[t].sd) /\ fdt[arg[t].sd] = for[t]
        /\ s = 0 => ~finished_work[0]
    BY <1>2, <1>3, <2>1, <2>2 DEF ThreadRight, Unmarked
  <2>4. /\ ret_sd'[s] = arg[t].sd /\ arg[t].sd # 0
        /\ \A z \in Slots \ {s} : ret_sd'[z] = ret_sd[z]
    BY <1>1, <2>1, <2>3 DEF SelectTypeOK, MessageRead, Open, Fds
  <2>5. MarkedRight' /\ MainRight' /\ FirstRight'
    BY <1>1, <1>2, <1>3, <2>1, <2>3, <2>4
       DEF CalmParts, MarkedRight, MainRight, FirstRight, ReplyTo, MessageRead
  <2> QED
    BY <1>2, <1>3, <1>4, <2>1, <2>2, <2>3, <2>4, <2>5 DEF ThreadRight, Working, Unmarked
<1>11. CASE Alloc(t) \/ Copy(t)
  <2>1. /\ \/ tpc[t] = "alloc" /\ tpc'[t] = "copy"
           \/ tpc[t] = "copy" /\ tpc'[t] = "finish"
              /\ write_buffer'[s].state = "written" /\ write_buffer'[s].for = for[t]
              /\ write_buffer'[s].port = arg[t].port
        /\ arg' = arg
        /\ \A z \in Slots \ {s} : write_buffer'[z] = write_buffer[z]
        /\ UNCHANGED <<finished_work, ret_sd>>
    BY <1>1, <1>11 DEF Alloc, Copy, WorkStep, SelectTypeOK
  <2>2. /\ SlotOf(t) = s /\ SlotOf(t)' = s /\ PortOf(t) = arg[t].port
        /\ SocketOf(t)' = SocketOf(t) /\ PortOf(t)' = PortOf(t)
    BY <2>1 DEF SlotOf, SocketOf, PortOf
  <2>3. s = 0 => ~finished_work[0] /\ ret_sd[0] # 0 /\ fdt[ret_sd[0]] = for[t]
    BY <1>2, <1>3, <2>1, <2>2 DEF ThreadRight, Unmarked
  <2>4. MarkedRight' /\ MainRight' /\ FirstRight'
    BY <1>1, <1>2, <1>3, <2>1, <2>3 DEF CalmParts, MarkedRight, MainRight, FirstRight, ReplyTo
  <2>5. tpc'[t] = "finish" /\ s = 0 => ReplyTo(for[t])'
    BY <1>2, <1>3, <2>1, <2>2 DEF ThreadRight, ReplyTo
  <2> QED
    BY <1>2, <1>3, <1>4, <2>1, <2>2, <2>3, <2>4, <2>5 DEF ThreadRight, Working, Unmarked
<1>12. CASE Finish(t)
  <2>1. /\ tpc[t] = "finish" /\ tpc'[t] = "gone"
        /\ finished_work' = [finished_work EXCEPT ![s] = TRUE]
        /\ UNCHANGED <<ret_sd, write_buffer>>
    BY <1>1, <1>12 DEF Finish, WorkStep, SelectTypeOK
  <2>2. SlotOf(t) = s
    BY <2>1 DEF SlotOf
  <2>3. s = 0 => ReplyTo(for[t]) /\ fdt[ret_sd[0]] = for[t]
    BY <1>2, <1>3, <2>1, <2>2 DEF ThreadRight, Unmarked
  <2>4. finished_work'[s] = TRUE /\ \A z \in Slots \ {s} : finished_work'[z] = finished_work[z]
    BY <1>1, <2>1 DEF SelectTypeOK
  <2>5. MarkedRight' /\ MainRight' /\ FirstRight'
    BY <1>1, <1>2, <1>3, <2>1, <2>3, <2>4
       DEF CalmParts, MarkedRight, MainRight, FirstRight, ReplyTo
  <2> QED
    BY <2>1, <2>5 DEF ThreadRight, Working
<1> QED
  BY <1>7, <1>8, <1>9, <1>10, <1>11, <1>12 DEF Thread

-----------------------------------------------------------------------------
(***************************************************************************)
(* The theorem.                                                            *)
(***************************************************************************)

LEMMA CalmInit ==
  ASSUME SelectServerAssumption, SelectInit
  PROVE  CalmParts
<1>1. /\ Open = {} /\ Watched = {} /\ backlog = <<>> /\ \A s \in Slots : client_socket[s] = 0
      /\ \A s \in Slots : ret_sd[s] = 0
      /\ \A c \in Clients : got[c].state = "NULL" /\ client[c] = "new"
      /\ main = "select" /\ 0 \in Slots /\ \A t \in SelectThreads : tpc[t] = "none"
  BY DEF SelectInit, Open, Watched, NULL, Slots, SelectServerAssumption
<1> QED
  BY <1>1 DEF CalmParts, CalmSlots, AllOpen, MarkedRight, MainRight, ThreadRight, Working,
              FirstRight, AloneRight, AloneOwn

LEMMA CalmNext ==
  ASSUME SelectServerAssumption, EnoughFds, TypeInv, CalmInv, [SelectNext]_selectVars
  PROVE  CalmInv'
<1> SUFFICES ASSUME Calm' PROVE CalmParts'
  BY DEF CalmInv, CalmParts
<1>1. SelectTypeOK /\ Calm /\ CalmParts
  BY CalmBefore DEF TypeInv, CalmInv, CalmParts
<1>2. CASE UNCHANGED selectVars
  <2>1. MainRight'
    BY <1>1, <1>2 DEF CalmParts, MainRight, MessageRead, Working, Open, selectVars, clients, kernel,
                      local, slots, _ret_queue, threads
  <2> QED
    BY <1>1, <1>2, <2>1, MainMoves DEF selectVars
<1>3. ASSUME NEW c \in Clients, Leave(c) PROVE FALSE
  BY <1>1, <1>3 DEF Leave, Calm, SelectTypeOK
<1>4. CASE ReadEof
  <2>1. sd' \in Open /\ client[fdt[sd']] = "left"
    BY <1>4 DEF ReadEof
  <2> QED
    BY <1>1, <2>1 DEF Calm, CalmParts, AllOpen
<1> QED
  BY <1>1, <1>2, <1>3, <1>4, MainMovesCalm, ClientsCalm, AcceptCalm, ReadMessageCalm, CreateCalm,
     FlushCalm, ThreadCalm DEF SelectNext, Main

\* In calm times the slots lead to open connections, each to its own, the client in the
\* first slot gets its own whole reply, and so does every client that comes alone, with its
\* port: for any number of clients, threads and slots (ncapi.c:255-300).
THEOREM SlotsAreRight ==
  ASSUME SelectServerAssumption, EnoughFds
  PROVE  SelectSpec => []SlotsRight
<1>1. SelectInit => TypeInv /\ CalmInv
  BY TypeInit, CalmInit DEF CalmInv, CalmParts
<1>2. TypeInv /\ CalmInv /\ [SelectNext]_selectVars => TypeInv' /\ CalmInv'
  BY TypeNext, CalmNext
<1>3. TypeInv /\ CalmInv => SlotsRight
  <2> SUFFICES ASSUME TypeInv, CalmInv PROVE SlotsRight
    OBVIOUS
  <2>1. CalmSlots /\ AloneOwn
    BY DEF CalmInv, CalmSlots, AloneOwn
  <2>2. FirstSlotOwn
    <3> SUFFICES ASSUME Calm, main = "flush", j = 0
                 PROVE  /\ write_buffer[0].state = "written"
                        /\ ret_sd[0] \in Open
                        /\ write_buffer[0].for = fdt[ret_sd[0]]
      BY DEF FirstSlotOwn
    <3>1. ret_sd[0] # 0 /\ finished_work[0] /\ 0 \in Slots
      BY DEF CalmInv, MainRight, Slots, SelectServerAssumption
    <3>2. ReplyTo(fdt[ret_sd[0]])
      BY <3>1 DEF CalmInv, FirstRight
    <3>3. ret_sd[0] \in Open
      BY <3>1 DEF CalmInv, MarkedRight, CalmSlots, Watched
    <3> QED
      BY <3>2, <3>3 DEF ReplyTo
  <2> QED
    BY <2>1, <2>2 DEF SlotsRight, TypeInv
<1> QED
  BY <1>1, <1>2, <1>3, PTL DEF SelectSpec

-----------------------------------------------------------------------------
(***************************************************************************)
(* LuaRun, for any number of threads, any calls and any sizes of table and *)
(* buffer.                                                                 *)
(***************************************************************************)

USE LuaRunAssumption

-----------------------------------------------------------------------------
(***************************************************************************)
(* Type correctness.                                                       *)
(***************************************************************************)

LEMMA BufferHasRoom == BufferCells > 1 /\ \A a \in Answers : Length[a] \in Nat \ {0}
<1>1. "success" \in Answers /\ "success" # "long_rows"
  BY DEF Answers
<1>2. Length["success"] \in Nat \ {0} /\ Length["success"] < BufferCells
  BY <1>1
<1>3. QED
  BY <1>2

LEMMA InitTypes == Init => TypeOK
<1> SUFFICES ASSUME Init PROVE TypeOK
  OBVIOUS
<1>1. call \in [Threads -> Calls \union {NoCall}]
  BY DEF Init
<1>2. response_buffer \in [1..BufferCells -> Cells]
  <2>1. NUL \in Cells /\ NoThread \in Cells
    BY DEF Cells
  <2>2. PICK n \in 0..(BufferCells - 1) :
          response_buffer = [k \in 1..BufferCells |-> IF k =< n THEN NoThread ELSE NUL]
    BY DEF Init
  <2>3. QED
    BY <2>1, <2>2
<1>3. pc \in [Threads -> PCs] /\ answer \in [Threads -> Answers \union {"none"}]
  BY DEF Init, PCs
<1>4. reply \in [Threads -> Seq(Cells)] /\ place \in [Threads -> Nat \ {0}]
  BY DEF Init
<1>5. QED
  BY <1>1, <1>2, <1>3, <1>4 DEF Init, TypeOK

LEMMA GotoTypes ==
  ASSUME TypeOK, NEW t \in Threads, NEW w \in PCs, Goto(t, w)
  PROVE  pc' \in [Threads -> PCs]
BY DEF TypeOK, Goto

\* strlen goes no further than one cell behind the buffer, for which the copy stays in it.
Placed == \A t \in Threads : pc[t] \in {"measure", "copy"} => place[t] =< BufferCells + 1

LEMMA StepTypes == TypeOK /\ Placed /\ [Next]_vars => TypeOK'
<1> SUFFICES ASSUME TypeOK, Placed, [Next]_vars PROVE TypeOK'
  OBVIOUS
<1> USE DEF TypeOK, format
<1>1. ASSUME NEW t \in Threads, NEW c \in Calls, Capilua(t, c) PROVE TypeOK'
  <2>1. pc' \in [Threads -> PCs]
    BY <1>1, GotoTypes DEF Capilua, PCs
  <2>2. call' \in [Threads -> Calls \union {NoCall}]
    BY <1>1 DEF Capilua
  <2>3. QED
    BY <1>1, <2>1, <2>2 DEF Capilua
<1>2. ASSUME NEW t \in Threads, NEW ok \in BOOLEAN, Prime(t, ok) PROVE TypeOK'
  <2>1. pc' \in [Threads -> PCs]
    BY <1>2, GotoTypes DEF Prime, PCs
  <2>2. primed' \in [Threads -> BOOLEAN]
    BY <1>2, Zenon DEF Prime
  <2>3. QED
    BY <1>2, <2>1, <2>2 DEF Prime
<1>3. ASSUME NEW t \in Threads, ScriptFails(t) \/ ScriptRuns(t) PROVE TypeOK'
  <2>1. pc' \in [Threads -> PCs]
    BY <1>3, GotoTypes DEF ScriptFails, ScriptRuns, PCs
  <2>2. QED
    BY <1>3, <2>1 DEF ScriptFails, ScriptRuns
<1>4. ASSUME NEW t \in Threads, CallsOutside(t) PROVE TypeOK'
  BY <1>4 DEF CallsOutside, Die
<1>5. ASSUME NEW t \in Threads, MysqlInitFails(t) PROVE TypeOK'
  BY <1>5 DEF MysqlInitFails
<1>6. ASSUME NEW t \in Threads, NEW ok \in BOOLEAN, Connect(t, ok) PROVE TypeOK'
  <2>1. pc' \in [Threads -> PCs]
    BY <1>6, GotoTypes DEF Connect, PCs
  <2>2. connected' \in [Threads -> BOOLEAN]
    BY <1>6, Zenon DEF Connect
  <2>3. QED
    BY <1>6, <2>1, <2>2 DEF Connect
<1>7. ASSUME NEW t \in Threads, QueryWorks(t) PROVE TypeOK'
  <2>1. pc' \in [Threads -> PCs]
    BY <1>7, GotoTypes DEF QueryWorks, PCs
  <2>2. rows' \in 0..MaxRows
    <3>1. CASE call[t].script = "POST_testforme"
      BY <1>7, <3>1 DEF QueryWorks, RowsAfter
    <3>2. CASE call[t].script = "DELETE_testforme"
      BY <1>7, <3>2 DEF QueryWorks, RowsAfter
    <3>3. CASE call[t].script \notin {"POST_testforme", "DELETE_testforme"}
      BY <1>7, <3>3 DEF QueryWorks, RowsAfter
    <3>4. QED
      BY <3>1, <3>2, <3>3
  <2>3. answer' \in [Threads -> Answers \union {"none"}]
    <3>1. AnswersTo(call[t]) \subseteq Answers
      BY DEF AnswersTo, Answers
    <3>2. PICK a \in AnswersTo(call[t]) : answer' = [answer EXCEPT ![t] = a]
      BY <1>7 DEF QueryWorks
    <3>3. QED
      BY <3>1, <3>2
  <2>4. changes' \subseteq Threads
    BY <1>7 DEF QueryWorks
  <2>5. QED
    BY <1>7, <2>1, <2>2, <2>3, <2>4 DEF QueryWorks
<1>8. ASSUME NEW t \in Threads, QueryRefused(t) PROVE TypeOK'
  <2>1. CASE Selects(call[t])
    BY <1>8, <2>1 DEF QueryRefused
  <2>2. CASE ~Selects(call[t])
    <3>1. pc' \in [Threads -> PCs]
      BY <1>8, <2>2, GotoTypes DEF QueryRefused, PCs
    <3>2. answer' \in [Threads -> Answers \union {"none"}]
      BY <1>8, <2>2 DEF QueryRefused, Answers
    <3>3. QED
      BY <1>8, <2>2, <3>1, <3>2 DEF QueryRefused
  <2>3. QED
    BY <2>1, <2>2
<1>9. ASSUME NEW t \in Threads, Format(t) PROVE TypeOK'
  <2>1. ASSUME Disturb(t) PROVE alone' \in [Threads -> BOOLEAN]
    BY <2>1, Zenon DEF Disturb
  <2>2. t \in Cells /\ NUL \in Cells
    BY DEF Cells
  <2>3. CASE FormatHead(t)
    <3>1. pc' \in [Threads -> PCs]
      BY <2>3, GotoTypes DEF FormatHead, PCs
    <3>2. /\ response_buffer' = [response_buffer EXCEPT ![1] = t]
          /\ place' = [place EXCEPT ![t] = 2]
      BY <2>3 DEF FormatHead
    <3>3. response_buffer' \in [1..BufferCells -> Cells]
      BY <2>2, <3>2
    <3>4. place' \in [Threads -> Nat \ {0}]
      BY <3>2
    <3>5. QED
      BY <2>1, <2>3, <3>1, <3>3, <3>4 DEF FormatHead
  <2>4. ASSUME NEW cell \in Cells, Put(t, cell)
        PROVE  /\ response_buffer' \in [1..BufferCells -> Cells]
               /\ alone' \in [Threads -> BOOLEAN]
               /\ overrun' \in BOOLEAN /\ dead' \in BOOLEAN
    <3>1. response_buffer' \in [1..BufferCells -> Cells]
      BY <2>4 DEF Put
    <3>2. overrun' \in BOOLEAN /\ dead' \in BOOLEAN
      <4>1. (place[t] > BufferCells) \in BOOLEAN
        OBVIOUS
      <4>2. QED
        BY <2>4, <4>1, Zenon DEF Put
    <3>3. QED
      BY <2>1, <2>4, <3>1, <3>2 DEF Put
  <2>5. CASE FormatMessage(t)
    <3>1. place' \in [Threads -> Nat \ {0}]
      BY <2>5 DEF FormatMessage
    <3>2. QED
      BY <2>2, <2>4, <2>5, <3>1 DEF FormatMessage, Put
  <2>6. CASE FormatEnd(t)
    <3>1. pc' \in [Threads -> PCs]
      BY <2>6, GotoTypes DEF FormatEnd, PCs
    <3>2. place' \in [Threads -> Nat \ {0}]
      <4>1. place' = [place EXCEPT ![t] = 1]
        BY <2>6 DEF FormatEnd
      <4>2. QED
        BY <4>1
    <3>3. QED
      BY <2>2, <2>4, <2>6, <3>1, <3>2 DEF FormatEnd, Put
  <2>7. CASE Measure(t)
    <3>1. pc' \in [Threads -> PCs]
      BY <2>7, GotoTypes DEF Measure, PCs
    <3>2. place' \in [Threads -> Nat \ {0}]
      <4>1. place' = [place EXCEPT ![t] = place[t] + 1] \/ place' = place
        BY <2>7 DEF Measure
      <4>2. place[t] + 1 \in Nat \ {0}
        OBVIOUS
      <4>3. QED
        BY <4>1, <4>2
    <3>3. QED
      BY <2>7, <3>1, <3>2 DEF Measure
  <2>8. CASE Push(t)
    <3>1. pc' \in [Threads -> PCs]
      BY <2>8, GotoTypes DEF Push, PCs
    <3>2. reply' \in [Threads -> Seq(Cells)]
      <4> DEFINE k == Len(reply[t]) + 1
      <4>1. CASE k < place[t] /\ response_buffer[k] # NUL
        <5>1. reply[t] \in Seq(Cells) /\ k \in Nat \ {0} /\ place[t] \in Nat \ {0}
          OBVIOUS
        <5>2. place[t] =< BufferCells + 1
          BY <2>8 DEF Push, At, Placed
        <5>3. k \in 1..BufferCells
          BY <4>1, <5>1, <5>2
        <5>6. response_buffer[k] \in Cells
          BY <5>3
        <5>7. \A c \in Cells : Append(reply[t], c) \in Seq(Cells)
          BY <5>1
        <5>4. reply' = [reply EXCEPT ![t] = Append(@, response_buffer[k])]
          BY <2>8, <4>1 DEF Push
        <5> HIDE DEF k
        <5>5. QED
          BY <5>4, <5>6, <5>7
      <4>2. CASE ~(k < place[t] /\ response_buffer[k] # NUL)
        BY <2>8, <4>2 DEF Push
      <4>3. QED
        BY <4>1, <4>2
    <3>3. QED
      BY <2>8, <3>1, <3>2 DEF Push
  <2>9. QED
    BY <1>9, <2>3, <2>5, <2>6, <2>7, <2>8 DEF Format
<1>10. CASE UNCHANGED vars
  BY <1>10 DEF vars
<1>11. QED
  BY <1>1, <1>2, <1>3, <1>4, <1>5, <1>6, <1>7, <1>8, <1>9, <1>10 DEF Next, Step

-----------------------------------------------------------------------------
(***************************************************************************)
(* What a step of one thread leaves to the others.                         *)
(***************************************************************************)

Does(t) == (\E c \in Calls : Capilua(t, c)) \/ Step(t)

LEMMA OthersStay ==
  ASSUME TypeOK, NEW t \in Threads, Does(t), NEW u \in Threads, u # t
  PROVE  /\ pc'[u] = pc[u] /\ call'[u] = call[u]
         /\ answer'[u] = answer[u] /\ reply'[u] = reply[u]
         /\ u \in changes' <=> u \in changes
         /\ u \in refused => u \in refused'
<1> USE DEF TypeOK, Goto, format
<1>1. CASE \E c \in Calls : Capilua(t, c)
  BY <1>1 DEF Capilua
<1>2. ASSUME NEW ok \in BOOLEAN, Prime(t, ok) \/ Connect(t, ok)
      PROVE  pc'[u] = pc[u] /\ UNCHANGED <<call, answer, reply, changes, refused>>
  BY <1>2 DEF Prime, Connect
<1>3. CASE ScriptFails(t) \/ ScriptRuns(t)
  BY <1>3 DEF ScriptFails, ScriptRuns
<1>4. CASE CallsOutside(t) \/ MysqlInitFails(t)
  BY <1>4 DEF CallsOutside, Die, MysqlInitFails
<1>5. CASE QueryWorks(t)
  BY <1>5 DEF QueryWorks
<1>6. CASE QueryRefused(t)
  <2>1. CASE Selects(call[t])
    BY <1>6, <2>1 DEF QueryRefused
  <2>2. CASE ~Selects(call[t])
    BY <1>6, <2>2 DEF QueryRefused
  <2>3. QED
    BY <2>1, <2>2
<1>7. CASE Format(t)
  BY <1>7 DEF Format, FormatHead, FormatMessage, FormatEnd, Put, Measure, Push
<1>8. QED
  BY <1>1, <1>2, <1>3, <1>4, <1>5, <1>6, <1>7 DEF Does, Step

PastQuery == {"head", "message", "measure", "copy", "replied"}
AtTable   == {"connect", "query"} \union PastQuery

\* Outside format_response_C the buffer, the replies and who was alone stay as they are, and
\* who has an answer keeps it.
LEMMA OutsideFormat ==
  ASSUME TypeOK, NEW t \in Threads, Does(t), ~Format(t)
  PROVE  /\ UNCHANGED <<response_buffer, place, reply, alone>>
         /\ \A u \in Threads :
              \/ pc'[u] = pc[u] /\ answer'[u] = answer[u]
              \/ pc[u] \notin PastQuery /\ pc'[u] \notin PastQuery \ {"head"}
<1> USE DEF TypeOK, Goto, At, PastQuery, format
<1>1. CASE \E c \in Calls : Capilua(t, c)
  BY <1>1 DEF Capilua
<1>2. CASE \E ok \in BOOLEAN : Prime(t, ok) \/ Connect(t, ok)
  BY <1>2 DEF Prime, Connect
<1>3. CASE ScriptFails(t) \/ ScriptRuns(t)
  BY <1>3 DEF ScriptFails, ScriptRuns
<1>4. CASE CallsOutside(t) \/ MysqlInitFails(t)
  BY <1>4 DEF CallsOutside, Die, MysqlInitFails
<1>5. CASE QueryWorks(t)
  BY <1>5 DEF QueryWorks
<1>6. CASE QueryRefused(t)
  <2>1. CASE Selects(call[t])
    BY <1>6, <2>1 DEF QueryRefused
  <2>2. CASE ~Selects(call[t])
    BY <1>6, <2>2 DEF QueryRefused
  <2>3. QED
    BY <2>1, <2>2
<1>7. QED
  BY <1>1, <1>2, <1>3, <1>4, <1>5, <1>6 DEF Does, Step

\* Each step of format_response_C is that of one thread and goes one place on.
LEMMA StepPlaced == TypeOK /\ Placed /\ [Next]_vars => Placed'
<1> SUFFICES ASSUME TypeOK, Placed, [Next]_vars PROVE Placed'
  OBVIOUS
<1> USE DEF TypeOK, Placed
<1>1. ASSUME NEW t \in Threads, Does(t), ~Format(t) PROVE Placed'
  BY <1>1, OutsideFormat DEF PastQuery
<1>2. ASSUME NEW t \in Threads, FormatHead(t) \/ FormatMessage(t) PROVE Placed'
  BY <1>2 DEF FormatHead, FormatMessage, At, Goto
<1>3. ASSUME NEW t \in Threads, FormatEnd(t) PROVE Placed'
  BY <1>3, BufferHasRoom DEF FormatEnd, Goto
<1>4. ASSUME NEW t \in Threads, Measure(t) PROVE Placed'
  <2>1. CASE place[t] =< BufferCells /\ response_buffer[place[t]] # NUL
    <3>1. pc' = pc /\ place' = [place EXCEPT ![t] = place[t] + 1]
      BY <1>4, <2>1 DEF Measure
    <3>2. place[t] + 1 =< BufferCells + 1
      BY <2>1
    <3>3. QED
      BY <3>1, <3>2
  <2>2. CASE ~(place[t] =< BufferCells /\ response_buffer[place[t]] # NUL)
    BY <1>4, <2>2 DEF Measure, Goto, At
  <2>3. QED
    BY <2>1, <2>2
<1>5. ASSUME NEW t \in Threads, Push(t) PROVE Placed'
  BY <1>5 DEF Push, Goto
<1>6. CASE UNCHANGED vars
  BY <1>6 DEF vars, format
<1>7. QED
  BY <1>1, <1>2, <1>3, <1>4, <1>5, <1>6 DEF Next, Does, Format

LEMMA InitPlaced == Init => Placed
BY DEF Init, Placed

\* Each thread of the server is at a place of execute_script, with a call, an answer and a
\* reply of the kinds there are (run_lua.c).
THEOREM TypeCorrect == Spec => []TypeOK
BY InitTypes, StepTypes, InitPlaced, StepPlaced, PTL DEF Spec

-----------------------------------------------------------------------------
(***************************************************************************)
(* The table changes as asked.                                             *)
(***************************************************************************)

\* Who is past the call of its script has a call that the script accepts.
CallsAccepted ==
  \A t \in Threads : pc[t] \in AtTable => Missing(t) = 0 /\ Accepts(call[t])

\* Only who is past its query has changed the table, and that with a script that does.
ChangesBehind ==
  \A t \in Threads : t \in changes => pc[t] \in PastQuery /\ ~Selects(call[t])

\* The answer tells who has changed the table and whom the database has refused.
AnswersTrue ==
  \A t \in Threads :
    pc[t] \in PastQuery => /\ answer[t] = "success" <=> t \in changes
                           /\ answer[t] = "exception" => t \in refused

\* Who is past its query has its answer, the others have none.
Answered ==
  \A t \in Threads : IF pc[t] \in PastQuery THEN answer[t] \in Answers ELSE answer[t] = "none"

QueryInv == TypeOK /\ Placed /\ CallsAccepted /\ ChangesBehind /\ AnswersTrue /\ Answered

\* What QueryInv says of one thread.
QueryInvOf(t) ==
  /\ pc[t] \in AtTable => Missing(t) = 0 /\ Accepts(call[t])
  /\ t \in changes => pc[t] \in PastQuery /\ ~Selects(call[t])
  /\ pc[t] \in PastQuery => /\ answer[t] = "success" <=> t \in changes
                            /\ answer[t] = "exception" => t \in refused
  /\ IF pc[t] \in PastQuery THEN answer[t] \in Answers ELSE answer[t] = "none"

LEMMA QueryInvEach == QueryInv <=> TypeOK /\ Placed /\ \A t \in Threads : QueryInvOf(t)
BY DEF QueryInv, CallsAccepted, ChangesBehind, AnswersTrue, Answered, QueryInvOf

LEMMA QueryStepOwn ==
  ASSUME TypeOK, NEW t \in Threads, QueryInvOf(t), Step(t)
  PROVE  QueryInvOf(t)'
<1> USE DEF TypeOK, QueryInvOf, Goto, At, PastQuery, AtTable, Missing, format
<1>1. ASSUME NEW ok \in BOOLEAN, Prime(t, ok) PROVE QueryInvOf(t)'
  BY <1>1 DEF Prime
<1>2. ASSUME NEW ok \in BOOLEAN, Connect(t, ok) PROVE QueryInvOf(t)'
  BY <1>2 DEF Connect
<1>3. CASE ScriptFails(t)
  BY <1>3 DEF ScriptFails
<1>4. CASE ScriptRuns(t)
  BY <1>4 DEF ScriptRuns
<1>5. CASE CallsOutside(t)
  BY <1>5 DEF CallsOutside, Die
<1>6. CASE MysqlInitFails(t)
  BY <1>6 DEF MysqlInitFails
<1>7. CASE QueryWorks(t)
  <2>1. PICK a \in AnswersTo(call[t]) : answer' = [answer EXCEPT ![t] = a]
    BY <1>7 DEF QueryWorks
  <2>2. pc[t] = "query" /\ pc'[t] = "head" /\ call' = call /\ t \notin changes
    BY <1>7 DEF QueryWorks
  <2>3. a # "exception" /\ (a = "success" <=> ~Selects(call[t])) /\ a \in Answers
    BY DEF AnswersTo, Answers
  <2>4. t \in changes' <=> ~Selects(call[t])
    BY <1>7, <2>2 DEF QueryWorks
  <2>5. QED
    BY <2>1, <2>2, <2>3, <2>4
<1>8. CASE QueryRefused(t)
  <2>1. CASE Selects(call[t])
    BY <1>8, <2>1 DEF QueryRefused
  <2>2. CASE ~Selects(call[t])
    BY <1>8, <2>2 DEF QueryRefused, Answers
  <2>3. QED
    BY <2>1, <2>2
<1>9. CASE Format(t)
  BY <1>9 DEF Format, FormatHead, FormatMessage, FormatEnd, Put, Measure, Push
<1>10. QED
  BY <1>1, <1>2, <1>3, <1>4, <1>5, <1>6, <1>7, <1>8, <1>9 DEF Step

LEMMA InitQuery == Init => QueryInv
BY InitTypes, InitPlaced
   DEF Init, QueryInv, CallsAccepted, ChangesBehind, AnswersTrue, Answered, PastQuery, AtTable

LEMMA StepQuery == QueryInv /\ [Next]_vars => QueryInv'
<1> SUFFICES ASSUME QueryInv, [Next]_vars PROVE QueryInv'
  OBVIOUS
<1>1. TypeOK /\ TypeOK' /\ Placed' /\ \A u \in Threads : QueryInvOf(u)
  BY StepTypes, StepPlaced, QueryInvEach DEF QueryInv
<1>2. SUFFICES ASSUME NEW u \in Threads PROVE QueryInvOf(u)'
  BY <1>1 DEF QueryInv, CallsAccepted, ChangesBehind, AnswersTrue, Answered, QueryInvOf
<1>3. ASSUME NEW t \in Threads, Does(t), u # t PROVE QueryInvOf(u)'
  BY <1>1, <1>3, OthersStay DEF QueryInvOf, Missing
<1>4. ASSUME NEW c \in Calls, Capilua(u, c) PROVE QueryInvOf(u)'
  BY <1>1, <1>4 DEF Capilua, TypeOK, QueryInvOf, Goto, At, PastQuery, AtTable
<1>5. CASE Step(u)
  BY <1>1, <1>5, QueryStepOwn
<1>6. CASE UNCHANGED vars
  BY <1>1, <1>6 DEF vars, QueryInvOf, Missing
<1>7. QED
  BY <1>3, <1>4, <1>5, <1>6 DEF Next, Does

THEOREM QueriesInvariant == Spec => []QueryInv
BY InitQuery, StepQuery, PTL DEF Spec

\* A sequence of one to four values is its values.
LEMMA FewArguments ==
  ASSUME NEW s \in Seq(Kinds)
  PROVE  /\ Len(s) = 1 => s = <<s[1]>>
         /\ Len(s) = 3 => s = <<s[1], s[2], s[3]>>
         /\ Len(s) = 4 => s = <<s[1], s[2], s[3], s[4]>>
OBVIOUS

LEMMA QueryInvSuffices == QueryInv => ChangesAsAsked
<1> SUFFICES ASSUME QueryInv, NEW t \in changes
             PROVE  LET c == call[t]
                    IN /\ c.nargs = Len(c.args)
                       /\ \/ /\ c.script = "DELETE_testforme"
                             /\ c.args = <<"pair", "pair", "pair", "pair">>
                          \/ /\ c.script = "PUT_testforme"
                             /\ c.args \in {<<b, "pair", "pair">> : b \in {"object", "nested"}}
                          \/ /\ c.script = "POST_testforme"
                             /\ c.args \in {<<"object">>, <<"xml">>}
  BY DEF ChangesAsAsked
<1> DEFINE c == call[t]
<1>1. t \in Threads /\ Missing(t) = 0 /\ Accepts(c) /\ ~Selects(c)
  BY QueryInvEach DEF QueryInvOf, AtTable, TypeOK
<1>2. c \in Calls /\ IsCall(c)
  <2>1. c \in Calls \union {NoCall}
    BY <1>1 DEF QueryInv, TypeOK
  <2>2. c # NoCall
    BY <1>1 DEF NoCall, Accepts
  <2>3. QED
    BY <2>1, <2>2
<1>3. c.nargs = Len(c.args)
  BY <1>1, <1>2 DEF Missing, IsCall
<1>4. c.script \in {"POST_testforme", "PUT_testforme", "DELETE_testforme"}
  BY <1>1, <1>2 DEF IsCall, Scripts, Accepts, Selects
<1>5. /\ Len(c.args) = Len(Takes(c.script))
      /\ \A k \in DOMAIN c.args : c.args[k] \in Takes(c.script)[k]
  BY <1>1, <1>4 DEF Accepts
<1>6. c.args \in Seq(Kinds)
  BY <1>2 DEF IsCall
<1> HIDE DEF c
<1>7. CASE c.script = "DELETE_testforme"
  <2>1. Takes(c.script) = [k \in 1..4 |-> {"pair"}]
    BY <1>7 DEF Takes
  <2>2. Len(Takes(c.script)) = 4
    BY <2>1
  <2>3. Len(c.args) = 4
    BY <1>5, <2>2
  <2>4. \A k \in 1..4 : c.args[k] = "pair"
    BY <1>5, <1>6, <2>1, <2>3
  <2>5. c.args = <<c.args[1], c.args[2], c.args[3], c.args[4]>>
    BY <1>6, <2>3, FewArguments
  <2>6. QED
    BY <1>3, <1>7, <2>4, <2>5 DEF c
<1>8. CASE c.script = "PUT_testforme"
  <2>1. Takes(c.script) = <<{"object", "nested"}, {"pair"}, {"pair"}>>
    BY <1>8 DEF Takes
  <2>2. Len(c.args) = 3
    BY <1>5, <2>1
  <2>3. c.args[1] \in {"object", "nested"} /\ c.args[2] = "pair" /\ c.args[3] = "pair"
    <3>1. DOMAIN c.args = 1..3
      BY <1>6, <2>2
    <3>2. /\ c.args[1] \in Takes(c.script)[1]
          /\ c.args[2] \in Takes(c.script)[2]
          /\ c.args[3] \in Takes(c.script)[3]
      BY <1>5, <3>1
    <3>3. QED
      BY <2>1, <3>2
  <2>4. c.args = <<c.args[1], "pair", "pair">>
    BY <1>6, <2>2, <2>3, FewArguments
  <2>5. c.args \in {<<b, "pair", "pair">> : b \in {"object", "nested"}}
    BY <2>3, <2>4
  <2>6. QED
    BY <1>3, <1>8, <2>5 DEF c
<1>9. CASE c.script = "POST_testforme"
  <2>1. Takes(c.script) = <<{"object", "xml"}>>
    BY <1>9 DEF Takes
  <2>2. Len(c.args) = 1
    BY <1>5, <2>1
  <2>3. c.args[1] \in {"object", "xml"}
    BY <1>5, <1>6, <2>1, <2>2
  <2>4. c.args = <<c.args[1]>>
    BY <1>6, <2>2, FewArguments
  <2>5. c.args \in {<<"object">>, <<"xml">>}
    BY <2>3, <2>4
  <2>6. QED
    BY <1>3, <1>9, <2>5 DEF c
<1>10. QED
  BY <1>4, <1>7, <1>8, <1>9

\* A request changes the table only through a script that got all it was announced
\* (execute_script of run_lua.c, the scripts).
THEOREM TableChangesAsAsked == Spec => []ChangesAsAsked
BY QueriesInvariant, QueryInvSuffices, PTL

-----------------------------------------------------------------------------
(***************************************************************************)
(* Replies.                                                                *)
(***************************************************************************)

\* u has got as far as its answer, whose text has a cell k.
HasText(u, k) == pc[u] \in PastQuery /\ k =< Length[answer[u]]

\* What is in the buffer is of a response of its time, in its place.
CellsTrue ==
  \A k \in 1..BufferCells : response_buffer[k] \in Threads => HasText(response_buffer[k], k)

\* How far t has got, and that what it has written is not that of an earlier request again.
WrittenOf(t) ==
  /\ pc[t] = "message" => 1 < place[t] /\ place[t] =< Length[answer[t]] + 1
  /\ pc[t] = "copy" => 1 < place[t]
  /\ pc[t] \in {"message", "measure", "copy"} => response_buffer[1] \in Threads
  /\ \A k \in 1..BufferCells :
       response_buffer[k] = NoThread =>
         /\ pc[t] = "message" => place[t] =< k
         /\ pc[t] \in {"measure", "copy"} => Length[answer[t]] + 1 < k

\* What t replies, as far as it has copied it.
RepliedOf(t) ==
  /\ pc[t] \notin {"copy", "replied"} => reply[t] = <<>>
  /\ pc[t] = "replied" => reply[t] # <<>>
  /\ reply[t] # <<>> => reply[t][1] \in Threads
  /\ \A k \in 1..Len(reply[t]) :
       \/ reply[t][k] \in Threads /\ HasText(reply[t][k], k)
       \/ reply[t][k] = NoThread /\ Length[answer[t]] + 1 < k

\* The cells of t's own response, and the NUL if there is room for it.
OwnText(t) ==
  /\ \A k \in 1..Shown(t) : response_buffer[k] = t
  /\ Shown(t) < BufferCells => response_buffer[Shown(t) + 1] = NUL

\* Who is not disturbed finds in the buffer what it has written there.
OwnOf(t) ==
  alone[t] =>
    /\ pc[t] = "message" =>
         \A k \in 1..BufferCells : k < place[t] => response_buffer[k] = t
    /\ pc[t] = "measure" => OwnText(t) /\ place[t] =< Shown(t) + 1
    /\ pc[t] = "copy" => OwnText(t) /\ place[t] = Shown(t) + 1 /\ Len(reply[t]) =< Shown(t)
    /\ pc[t] = "replied" => Len(reply[t]) = Shown(t)
    /\ \A k \in 1..Len(reply[t]) : reply[t][k] = t

\* As long as no response is too long, the last cell is never written but with a NUL.
LastIsNul ==
  (\A t \in Threads : answer[t] # "long_rows") => response_buffer[BufferCells] = NUL

BufferInvOf(t) == WrittenOf(t) /\ RepliedOf(t) /\ OwnOf(t)

BufferInv == CellsTrue /\ (\A t \in Threads : BufferInvOf(t)) /\ LastIsNul /\ EndsInside

LEMMA Lengths ==
  ASSUME QueryInv, NEW t \in Threads, pc[t] \in PastQuery
  PROVE  /\ answer[t] \in Answers
         /\ Length[answer[t]] \in Nat \ {0}
         /\ Length[answer[t]] < BufferCells <=> answer[t] # "long_rows"
         /\ Shown(t) \in 1..BufferCells
         /\ Shown(t) =< Length[answer[t]]
         /\ Shown(t) < BufferCells => Shown(t) = Length[answer[t]]
<1>1. answer[t] \in Answers
  BY DEF QueryInv, Answered
<1>2. QED
  BY <1>1, BufferHasRoom DEF Shown

LEMMA InitBuffer == Init => BufferInv
<1> SUFFICES ASSUME Init PROVE BufferInv
  OBVIOUS
<1>1. PICK n \in 0..(BufferCells - 1) :
        response_buffer = [k \in 1..BufferCells |-> IF k =< n THEN NoThread ELSE NUL]
  BY DEF Init
<1>2. \A t \in Threads : pc[t] = "idle" /\ reply[t] = <<>>
  BY DEF Init
<1>3. CellsTrue /\ LastIsNul
  BY <1>1, BufferHasRoom DEF CellsTrue, LastIsNul
<1>4. EndsInside /\ \A t \in Threads : BufferInvOf(t)
  BY <1>2 DEF EndsInside, BufferInvOf, WrittenOf, RepliedOf, OwnOf
<1>5. QED
  BY <1>3, <1>4 DEF BufferInv

-----------------------------------------------------------------------------

\* Outside format_response_C nothing changes for those in it.
LEMMA OutsideKeepsBuffer ==
  ASSUME QueryInv, QueryInv', BufferInv, NEW t \in Threads, Does(t), ~Format(t)
  PROVE  BufferInv'
<1> USE DEF PastQuery
<1>1. UNCHANGED <<response_buffer, place, reply, alone>>
  BY OutsideFormat DEF QueryInv
<1>2. \A u \in Threads : \/ pc'[u] = pc[u] /\ answer'[u] = answer[u]
                         \/ pc[u] \notin PastQuery /\ pc'[u] \notin PastQuery \ {"head"}
  BY OutsideFormat DEF QueryInv
<1>3. \A u \in Threads, k \in Nat : HasText(u, k) => HasText(u, k)'
  BY <1>2 DEF HasText
<1>4. CellsTrue'
  BY <1>1, <1>3 DEF BufferInv, CellsTrue
<1>5. ASSUME NEW u \in Threads PROVE BufferInvOf(u)'
  <2>1. BufferInvOf(u)
    BY DEF BufferInv
  <2>2. RepliedOf(u)'
    BY <1>1, <1>2, <1>3, <2>1 DEF BufferInvOf, RepliedOf, QueryInv, TypeOK
  <2>3. WrittenOf(u)' /\ OwnOf(u)'
    BY <1>1, <1>2, <2>1 DEF BufferInvOf, WrittenOf, OwnOf, OwnText, Shown
  <2>4. QED
    BY <2>2, <2>3 DEF BufferInvOf
<1>6. (\A u \in Threads : answer'[u] # "long_rows") => \A u \in Threads : answer[u] # "long_rows"
  BY <1>2 DEF QueryInv, Answered
<1>7. LastIsNul' /\ EndsInside'
  BY <1>1, <1>2, <1>6 DEF BufferInv, LastIsNul, EndsInside
<1>8. QED
  BY <1>4, <1>5, <1>7 DEF BufferInv

\* A write of t leaves what the others have found true, and disturbs those who format.
LEMMA WriteKeepsOthers ==
  ASSUME QueryInv, BufferInv, NEW t \in Threads, NEW n \in Nat \ {0}, NEW cell,
         response_buffer' = IF n > BufferCells THEN response_buffer
                            ELSE [response_buffer EXCEPT ![n] = cell],
         \/ cell = t /\ n =< Length[answer[t]]
         \/ cell = NUL /\ n > 1,
         Disturb(t),
         UNCHANGED <<answer, reply>>,
         pc[t] \in PastQuery, pc'[t] \in PastQuery,
         \A u \in Threads \ {t} : pc'[u] = pc[u] /\ place'[u] = place[u]
  PROVE  CellsTrue' /\ LastIsNul' /\ \A u \in Threads \ {t} : BufferInvOf(u)'
<1> USE BufferHasRoom
<1>1. /\ response_buffer \in [1..BufferCells -> Cells]
      /\ TypeOK
  BY DEF QueryInv, TypeOK
<1>2. \A k \in 1..BufferCells :
        response_buffer'[k] = IF k = n THEN cell ELSE response_buffer[k]
  BY <1>1
<1>3. \A u \in Threads, k \in Nat : HasText(u, k) => HasText(u, k)'
  BY DEF HasText
<1>4. Length[answer[t]] \in Nat /\ (Length[answer[t]] < BufferCells <=> answer[t] # "long_rows")
  BY Lengths
<1>5. CellsTrue'
  <2>1. SUFFICES ASSUME NEW k \in 1..BufferCells, NEW u \in Threads, response_buffer'[k] = u
                 PROVE  HasText(u, k)'
    BY DEF CellsTrue
  <2>2. CASE k = n
    BY <1>2, <1>4, <2>1, <2>2 DEF HasText
  <2>3. CASE k # n
    BY <1>2, <1>3, <2>1, <2>3 DEF BufferInv, CellsTrue
  <2>4. QED
    BY <2>2, <2>3
<1>6. LastIsNul'
  <2>1. SUFFICES ASSUME \A u \in Threads : answer[u] # "long_rows"
                 PROVE  response_buffer'[BufferCells] = NUL
    BY DEF LastIsNul
  <2>2. response_buffer[BufferCells] = NUL
    BY <2>1 DEF BufferInv, LastIsNul
  <2>3. QED
    BY <1>2, <1>4, <2>1, <2>2
<1>7. ASSUME NEW u \in Threads \ {t} PROVE BufferInvOf(u)'
  <2>1. BufferInvOf(u)
    BY DEF BufferInv
  <2>2. RepliedOf(u)'
    BY <1>1, <1>3, <2>1 DEF BufferInvOf, RepliedOf, TypeOK
  <2>3. WrittenOf(u)'
    <3>1. \A k \in 1..BufferCells : response_buffer'[k] = NoThread => response_buffer[k] = NoThread
      BY <1>2
    <3>2. response_buffer[1] \in Threads => response_buffer'[1] \in Threads
      BY <1>2
    <3>3. QED
      BY <2>1, <3>1, <3>2 DEF BufferInvOf, WrittenOf
  <2>4. OwnOf(u)'
    <3>1. alone'[u] => alone[u] /\ ~Formatting(u)
      BY Zenon DEF Disturb
    <3>2. QED
      BY <2>1, <3>1 DEF BufferInvOf, OwnOf, Formatting, Shown
  <2>5. QED
    BY <2>2, <2>3, <2>4 DEF BufferInvOf
<1>8. QED
  BY <1>5, <1>6, <1>7

LEMMA HeadKeepsBuffer ==
  ASSUME QueryInv, BufferInv, NEW t \in Threads, FormatHead(t)
  PROVE  BufferInv'
<1>1. /\ pc[t] = "head" /\ pc' = [pc EXCEPT ![t] = "message"]
      /\ place' = [place EXCEPT ![t] = 2]
      /\ response_buffer' = [response_buffer EXCEPT ![1] = t]
      /\ UNCHANGED <<answer, reply>>
      /\ Disturb(t)
  BY DEF FormatHead, At, Goto
<1>2. TypeOK /\ BufferInvOf(t) /\ EndsInside
  BY DEF QueryInv, BufferInv
<1>3. Length[answer[t]] \in Nat \ {0}
  BY <1>1, Lengths DEF PastQuery
<1>4. CellsTrue' /\ LastIsNul' /\ \A u \in Threads \ {t} : BufferInvOf(u)'
  <2>1. response_buffer' = IF 1 > BufferCells THEN response_buffer
                           ELSE [response_buffer EXCEPT ![1] = t]
    BY <1>1, BufferHasRoom
  <2>2. \A u \in Threads \ {t} : pc'[u] = pc[u] /\ place'[u] = place[u]
    BY <1>1, <1>2 DEF TypeOK
  <2>3. pc[t] \in PastQuery /\ pc'[t] \in PastQuery
    BY <1>1, <1>2 DEF PastQuery, TypeOK
  <2>4. 1 =< Length[answer[t]] /\ 1 \in Nat \ {0}
    BY <1>3
  <2>5. QED
    BY <1>1, <2>1, <2>2, <2>3, <2>4, WriteKeepsOthers
<1>5. pc'[t] = "message" /\ place'[t] = 2
  BY <1>1, <1>2 DEF TypeOK
<1>6. \A k \in 1..BufferCells : response_buffer'[k] = IF k = 1 THEN t ELSE response_buffer[k]
  BY <1>1, <1>2 DEF TypeOK
<1>7. WrittenOf(t)'
  BY <1>1, <1>3, <1>5, <1>6, BufferHasRoom DEF WrittenOf
<1>8. RepliedOf(t)'
  BY <1>1, <1>2, <1>5 DEF BufferInvOf, RepliedOf
<1>9. OwnOf(t)'
  <2>1. reply'[t] = <<>>
    BY <1>1, <1>2 DEF BufferInvOf, RepliedOf
  <2>2. QED
    BY <1>5, <1>6, <2>1 DEF OwnOf
<1>10. EndsInside'
  BY <1>1, <1>2 DEF EndsInside, TypeOK
<1>11. QED
  BY <1>4, <1>7, <1>8, <1>9, <1>10 DEF BufferInv, BufferInvOf

LEMMA MessageKeepsBuffer ==
  ASSUME QueryInv, BufferInv, NEW t \in Threads, FormatMessage(t)
  PROVE  BufferInv'
<1> DEFINE n == place[t]
<1>1. /\ pc[t] = "message" /\ pc' = pc
      /\ place' = [place EXCEPT ![t] = n + 1]
      /\ n =< Length[answer[t]]
      /\ response_buffer' = IF n > BufferCells THEN response_buffer
                            ELSE [response_buffer EXCEPT ![n] = t]
      /\ UNCHANGED <<answer, reply>>
      /\ Disturb(t)
  BY DEF FormatMessage, At, Put
<1>2. TypeOK /\ BufferInvOf(t) /\ EndsInside /\ n \in Nat \ {0}
  BY DEF QueryInv, BufferInv, TypeOK
<1>3. Length[answer[t]] \in Nat \ {0}
  BY <1>1, Lengths DEF PastQuery
<1>4. CellsTrue' /\ LastIsNul' /\ \A u \in Threads \ {t} : BufferInvOf(u)'
  <2>1. \A u \in Threads \ {t} : pc'[u] = pc[u] /\ place'[u] = place[u]
    BY <1>1, <1>2 DEF TypeOK
  <2>2. pc[t] \in PastQuery /\ pc'[t] \in PastQuery
    BY <1>1 DEF PastQuery
  <2>3. QED
    BY <1>1, <1>2, <2>1, <2>2, WriteKeepsOthers
<1>5. pc'[t] = "message" /\ place'[t] = n + 1
  BY <1>1, <1>2 DEF TypeOK
<1>6. \A k \in 1..BufferCells : response_buffer'[k] = IF k = n THEN t ELSE response_buffer[k]
  BY <1>1, <1>2 DEF TypeOK
<1>7. WrittenOf(t)'
  BY <1>1, <1>2, <1>3, <1>5, <1>6, BufferHasRoom DEF BufferInvOf, WrittenOf
<1>8. RepliedOf(t)' /\ reply'[t] = <<>>
  BY <1>1, <1>2, <1>5 DEF BufferInvOf, RepliedOf
<1>9. OwnOf(t)'
  <2>1. alone'[t] => alone[t]
    BY <1>1, Zenon DEF Disturb
  <2>2. QED
    BY <1>1, <1>2, <1>5, <1>6, <1>8, <2>1 DEF OwnOf, BufferInvOf
<1>10. EndsInside'
  BY <1>1, <1>2 DEF EndsInside, TypeOK
<1>11. QED
  BY <1>4, <1>7, <1>8, <1>9, <1>10 DEF BufferInv, BufferInvOf

LEMMA EndKeepsBuffer ==
  ASSUME QueryInv, BufferInv, NEW t \in Threads, FormatEnd(t)
  PROVE  BufferInv'
<1> DEFINE n == place[t]
<1>1. /\ pc[t] = "message" /\ pc' = [pc EXCEPT ![t] = "measure"]
      /\ place' = [place EXCEPT ![t] = 1]
      /\ n > Length[answer[t]]
      /\ response_buffer' = IF n > BufferCells THEN response_buffer
                            ELSE [response_buffer EXCEPT ![n] = NUL]
      /\ UNCHANGED <<answer, reply>>
      /\ Disturb(t)
  BY DEF FormatEnd, At, Put, Goto
<1>2. TypeOK /\ BufferInvOf(t) /\ EndsInside /\ n \in Nat \ {0}
  BY DEF QueryInv, BufferInv, TypeOK
<1>3. /\ Length[answer[t]] \in Nat \ {0}
      /\ Shown(t) \in 1..BufferCells
      /\ Shown(t) =< Length[answer[t]]
      /\ Shown(t) < BufferCells => Shown(t) = Length[answer[t]]
  BY <1>1, Lengths DEF PastQuery
<1>4. n = Length[answer[t]] + 1
  BY <1>1, <1>2, <1>3 DEF BufferInvOf, WrittenOf
<1>5. CellsTrue' /\ LastIsNul' /\ \A u \in Threads \ {t} : BufferInvOf(u)'
  <2>1. \A u \in Threads \ {t} : pc'[u] = pc[u] /\ place'[u] = place[u]
    BY <1>1, <1>2 DEF TypeOK
  <2>2. pc[t] \in PastQuery /\ pc'[t] \in PastQuery
    BY <1>1, <1>2 DEF PastQuery, TypeOK
  <2>3. n > 1
    BY <1>3, <1>4
  <2>4. QED
    BY <1>1, <1>2, <2>1, <2>2, <2>3, WriteKeepsOthers
<1>6. pc'[t] = "measure" /\ place'[t] = 1 /\ Shown(t)' = Shown(t)
  BY <1>1, <1>2 DEF TypeOK, Shown
<1>7. \A k \in 1..BufferCells : response_buffer'[k] = IF k = n THEN NUL ELSE response_buffer[k]
  BY <1>1, <1>2 DEF TypeOK
<1>8. WrittenOf(t)'
  BY <1>1, <1>2, <1>3, <1>4, <1>6, <1>7, BufferHasRoom DEF BufferInvOf, WrittenOf
<1>9. RepliedOf(t)' /\ reply'[t] = <<>>
  BY <1>1, <1>2, <1>6 DEF BufferInvOf, RepliedOf
<1>10. OwnOf(t)'
  <2>1. alone'[t] => alone[t]
    BY <1>1, Zenon DEF Disturb
  <2>2. alone[t] => \A k \in 1..BufferCells : k < n => response_buffer[k] = t
    BY <1>1, <1>2 DEF BufferInvOf, OwnOf
  <2>3. alone[t] => OwnText(t)'
    BY <1>3, <1>4, <1>6, <1>7, <2>2 DEF OwnText
  <2>4. QED
    BY <1>3, <1>6, <1>9, <2>1, <2>3 DEF OwnOf
<1>11. EndsInside'
  BY <1>1, <1>2, BufferHasRoom DEF EndsInside, TypeOK
<1>12. QED
  BY <1>5, <1>8, <1>9, <1>10, <1>11 DEF BufferInv, BufferInvOf

\* A step of t that writes nothing leaves the others as they are.
LEMMA ReadKeepsOthers ==
  ASSUME BufferInv, NEW t \in Threads,
         UNCHANGED <<response_buffer, answer, alone>>,
         pc[t] \in PastQuery, pc'[t] \in PastQuery,
         \A u \in Threads \ {t} : pc'[u] = pc[u] /\ place'[u] = place[u] /\ reply'[u] = reply[u]
  PROVE  CellsTrue' /\ LastIsNul' /\ \A u \in Threads \ {t} : BufferInvOf(u)'
<1>1. \A u \in Threads, k \in Int : HasText(u, k) => HasText(u, k)'
  BY DEF HasText
<1>2. CellsTrue' /\ LastIsNul'
  BY <1>1 DEF BufferInv, CellsTrue, LastIsNul
<1>3. ASSUME NEW u \in Threads \ {t} PROVE BufferInvOf(u)'
  <2>1. BufferInvOf(u)
    BY DEF BufferInv
  <2>2. RepliedOf(u)'
    BY <1>1, <2>1 DEF BufferInvOf, RepliedOf
  <2>3. WrittenOf(u)' /\ OwnOf(u)'
    BY <2>1 DEF BufferInvOf, WrittenOf, OwnOf, OwnText, Shown
  <2>4. QED
    BY <2>2, <2>3 DEF BufferInvOf
<1>4. QED
  BY <1>2, <1>3

LEMMA MeasureKeepsBuffer ==
  ASSUME QueryInv, BufferInv, NEW t \in Threads, Measure(t)
  PROVE  BufferInv'
<1> DEFINE n == place[t]
           goesOn == n =< BufferCells /\ response_buffer[n] # NUL
<1>1. /\ pc[t] = "measure"
      /\ UNCHANGED <<response_buffer, answer, alone, reply>>
      /\ goesOn => pc' = pc /\ place' = [place EXCEPT ![t] = n + 1]
      /\ ~goesOn => place' = place /\ pc' = [pc EXCEPT ![t] = "copy"]
  BY DEF Measure, At, Goto
<1>2. TypeOK /\ BufferInvOf(t) /\ EndsInside /\ LastIsNul /\ n \in Nat \ {0}
  BY DEF QueryInv, BufferInv, TypeOK
<1>3. /\ Shown(t) \in 1..BufferCells
      /\ Shown(t)' = Shown(t)
  BY <1>1, Lengths DEF PastQuery, Shown
<1>4. /\ goesOn => pc'[t] = "measure" /\ place'[t] = n + 1
      /\ ~goesOn => pc'[t] = "copy" /\ place'[t] = n
      /\ \A u \in Threads \ {t} : pc'[u] = pc[u] /\ place'[u] = place[u]
  BY <1>1, <1>2 DEF TypeOK
<1> HIDE DEF goesOn
<1>5. CellsTrue' /\ LastIsNul' /\ \A u \in Threads \ {t} : BufferInvOf(u)'
  <2>1. pc[t] \in PastQuery /\ pc'[t] \in PastQuery
    BY <1>1, <1>4 DEF PastQuery
  <2>2. QED
    BY <1>1, <1>4, <2>1, ReadKeepsOthers
<1>6. response_buffer[1] \in Threads /\ reply[t] = <<>>
  BY <1>1, <1>2 DEF BufferInvOf, WrittenOf, RepliedOf
<1>7. ~goesOn => n > 1
  BY <1>2, <1>6, BufferHasRoom DEF goesOn
<1>8. WrittenOf(t)'
  BY <1>1, <1>2, <1>4, <1>6, <1>7 DEF BufferInvOf, WrittenOf
<1>9. RepliedOf(t)' /\ reply'[t] = <<>>
  BY <1>1, <1>4, <1>6 DEF RepliedOf
<1>10. OwnOf(t)'
  <2>1. SUFFICES ASSUME alone[t] PROVE OwnOf(t)'
    BY <1>1 DEF OwnOf
  <2>2. OwnText(t) /\ n =< Shown(t) + 1
    BY <1>1, <1>2, <2>1 DEF BufferInvOf, OwnOf
  <2>3. OwnText(t)'
    BY <1>1, <1>3, <2>2 DEF OwnText
  <2>4. goesOn => n + 1 =< Shown(t) + 1
    BY <1>2, <1>3, <2>2 DEF OwnText, goesOn
  <2>5. ~goesOn => n = Shown(t) + 1
    BY <1>2, <1>3, <2>2 DEF OwnText, goesOn
  <2>6. QED
    BY <1>3, <1>4, <1>9, <2>3, <2>4, <2>5 DEF OwnOf
<1>11. EndsInside'
  <2>1. SUFFICES ASSUME \A u \in Threads : answer[u] # "long_rows"
                 PROVE  \A u \in Threads :
                          pc'[u] \in {"measure", "copy"} => place'[u] =< BufferCells
    BY <1>1 DEF EndsInside
  <2>2. response_buffer[BufferCells] = NUL /\ n =< BufferCells
    BY <1>1, <1>2, <2>1 DEF EndsInside, LastIsNul
  <2>3. place'[t] =< BufferCells
    BY <1>2, <1>4, <2>2, BufferHasRoom DEF goesOn
  <2>4. QED
    BY <1>2, <1>4, <2>1, <2>3 DEF EndsInside
<1>12. QED
  BY <1>5, <1>8, <1>9, <1>10, <1>11 DEF BufferInv, BufferInvOf

LEMMA PushKeepsBuffer ==
  ASSUME QueryInv, BufferInv, NEW t \in Threads, Push(t)
  PROVE  BufferInv'
<1> DEFINE k == Len(reply[t]) + 1
           copies == k < place[t] /\ response_buffer[k] # NUL
<1>1. /\ pc[t] = "copy"
      /\ UNCHANGED <<response_buffer, answer, alone, place>>
      /\ copies => pc' = pc /\ reply' = [reply EXCEPT ![t] = Append(reply[t], response_buffer[k])]
      /\ ~copies => reply' = reply /\ pc' = [pc EXCEPT ![t] = "replied"]
  BY DEF Push, At, Goto
<1>2. /\ TypeOK /\ Placed /\ CellsTrue /\ BufferInvOf(t) /\ EndsInside
      /\ reply[t] \in Seq(Cells) /\ k \in Nat \ {0} /\ place[t] \in Nat \ {0}
  BY DEF QueryInv, BufferInv, TypeOK
<1>3. /\ Shown(t) \in 1..BufferCells
      /\ Shown(t)' = Shown(t)
      /\ Length[answer[t]] \in Nat
  BY <1>1, Lengths DEF PastQuery, Shown
<1>4. /\ copies => pc'[t] = "copy" /\ reply'[t] = Append(reply[t], response_buffer[k])
      /\ ~copies => pc'[t] = "replied" /\ reply'[t] = reply[t]
      /\ \A u \in Threads \ {t} : pc'[u] = pc[u] /\ reply'[u] = reply[u]
  BY <1>1, <1>2 DEF TypeOK
<1>5. copies => k \in 1..BufferCells /\ response_buffer[k] \in Cells \ {NUL}
  <2>1. place[t] =< BufferCells + 1
    BY <1>1, <1>2 DEF Placed
  <2>2. QED
    BY <1>2, <2>1, BufferHasRoom DEF TypeOK
<1>6. response_buffer[1] \in Threads /\ place[t] > 1
  BY <1>1, <1>2 DEF BufferInvOf, WrittenOf
<1> HIDE DEF copies
<1>7. CellsTrue' /\ LastIsNul' /\ \A u \in Threads \ {t} : BufferInvOf(u)'
  <2>1. pc[t] \in PastQuery /\ pc'[t] \in PastQuery
    BY <1>1, <1>4 DEF PastQuery
  <2>2. QED
    BY <1>1, <1>4, <2>1, ReadKeepsOthers
<1>8. WrittenOf(t)'
  BY <1>1, <1>2, <1>4 DEF BufferInvOf, WrittenOf
<1>9. \A u \in Threads, m \in Nat : HasText(u, m) => HasText(u, m)'
  BY <1>1, <1>4 DEF HasText, PastQuery
<1>10. RepliedOf(t)'
  <2>1. CASE copies
    <3>1. /\ Len(reply'[t]) = k /\ reply'[t][k] = response_buffer[k]
          /\ \A m \in 1..(k - 1) : reply'[t][m] = reply[t][m]
      BY <1>2, <1>4, <2>1
    <3>2. reply'[t][1] \in Threads
      BY <1>2, <1>6, <3>1 DEF BufferInvOf, RepliedOf
    <3>3. \/ reply'[t][k] \in Threads /\ HasText(reply'[t][k], k)
          \/ reply'[t][k] = NoThread /\ Length[answer[t]] + 1 < k
      BY <1>1, <1>2, <1>5, <2>1, <3>1 DEF CellsTrue, BufferInvOf, WrittenOf, Cells
    <3>4. ASSUME NEW m \in 1..(k - 1)
          PROVE  \/ reply'[t][m] \in Threads /\ HasText(reply'[t][m], m)
                 \/ reply'[t][m] = NoThread /\ Length[answer[t]] + 1 < m
      <4>1. m \in 1..Len(reply[t])
        BY <1>2
      <4>2. \/ reply[t][m] \in Threads /\ HasText(reply[t][m], m)
            \/ reply[t][m] = NoThread /\ Length[answer[t]] + 1 < m
        BY <1>2, <4>1 DEF BufferInvOf, RepliedOf
      <4>3. QED
        BY <3>1, <4>2
    <3>5. \A m \in 1..k : \/ reply'[t][m] \in Threads /\ HasText(reply'[t][m], m)
                          \/ reply'[t][m] = NoThread /\ Length[answer[t]] + 1 < m
      BY <1>2, <3>3, <3>4
    <3>6. pc'[t] = "copy"
      BY <1>4, <2>1
    <3> HIDE DEF k
    <3>7. QED
      BY <1>1, <1>2, <1>9, <3>1, <3>2, <3>5, <3>6 DEF RepliedOf
  <2>2. CASE ~copies
    <3>1. reply[t] # <<>>
      BY <1>2, <1>6, <2>2 DEF copies
    <3>2. \A m \in 1..Len(reply[t]) : m \in Nat
      BY <1>2
    <3>3. QED
      BY <1>1, <1>2, <1>4, <1>9, <2>2, <3>1, <3>2 DEF BufferInvOf, RepliedOf
  <2>3. QED
    BY <2>1, <2>2
<1>11. OwnOf(t)'
  <2>1. SUFFICES ASSUME alone[t] PROVE OwnOf(t)'
    BY <1>1 DEF OwnOf
  <2>2. /\ OwnText(t) /\ place[t] = Shown(t) + 1 /\ Len(reply[t]) =< Shown(t)
        /\ \A m \in 1..Len(reply[t]) : reply[t][m] = t
    BY <1>1, <1>2, <2>1 DEF BufferInvOf, OwnOf
  <2>3. OwnText(t)' /\ place'[t] = Shown(t)' + 1
    BY <1>1, <1>3, <2>2 DEF OwnText
  <2>4. CASE copies
    <3>1. /\ Len(reply'[t]) = k /\ reply'[t][k] = response_buffer[k]
          /\ \A m \in 1..(k - 1) : reply'[t][m] = reply[t][m]
      BY <1>2, <1>4, <2>4
    <3>2. k =< Shown(t) /\ response_buffer[k] = t
      BY <1>2, <1>3, <2>2, <2>4 DEF OwnText, copies
    <3>3. \A m \in 1..k : reply'[t][m] = t
      BY <1>2, <2>2, <3>1, <3>2
    <3>4. pc'[t] = "copy"
      BY <1>4, <2>4
    <3> HIDE DEF k
    <3>5. QED
      BY <1>3, <2>3, <3>1, <3>2, <3>3, <3>4 DEF OwnOf
  <2>5. CASE ~copies
    <3>1. Len(reply[t]) = Shown(t)
      BY <1>2, <1>3, <2>2, <2>5 DEF OwnText, copies
    <3>2. QED
      BY <1>3, <1>4, <2>2, <2>5, <3>1 DEF OwnOf
  <2>6. QED
    BY <2>4, <2>5
<1>12. EndsInside'
  BY <1>1, <1>2, <1>4 DEF EndsInside
<1>13. QED
  BY <1>7, <1>8, <1>10, <1>11, <1>12 DEF BufferInv, BufferInvOf

LEMMA StepBuffer == QueryInv /\ QueryInv' /\ BufferInv /\ [Next]_vars => BufferInv'
<1> SUFFICES ASSUME QueryInv, QueryInv', BufferInv, [Next]_vars PROVE BufferInv'
  OBVIOUS
<1>1. ASSUME NEW t \in Threads, Does(t) PROVE BufferInv'
  <2>1. CASE ~Format(t)
    BY <1>1, <2>1, OutsideKeepsBuffer
  <2>2. CASE Format(t)
    BY <2>2, HeadKeepsBuffer, MessageKeepsBuffer, EndKeepsBuffer, MeasureKeepsBuffer,
       PushKeepsBuffer DEF Format
  <2>3. QED
    BY <2>1, <2>2
<1>2. CASE UNCHANGED vars
  BY <1>2 DEF vars, format, BufferInv, CellsTrue, HasText, BufferInvOf, WrittenOf, RepliedOf,
     OwnOf, OwnText, Shown, LastIsNul, EndsInside
<1>3. QED
  BY <1>1, <1>2 DEF Next, Does

LEMMA BufferInvSuffices == QueryInv /\ BufferInv => RepliesRight
<1> SUFFICES ASSUME QueryInv, BufferInv PROVE RepliesRight
  OBVIOUS
<1>1. TypeOK /\ \A t \in Threads : QueryInvOf(t) /\ BufferInvOf(t) /\ reply[t] \in Seq(Cells)
  BY QueryInvEach DEF BufferInv, TypeOK
<1>2. OwnReply
  <2>1. SUFFICES ASSUME NEW t \in Threads, pc[t] = "replied", alone[t]
                 PROVE  reply[t] = [k \in 1..Shown(t) |-> t]
    BY DEF OwnReply
  <2>2. Len(reply[t]) = Shown(t) /\ \A k \in 1..Len(reply[t]) : reply[t][k] = t
    BY <1>1, <2>1 DEF BufferInvOf, OwnOf
  <2>3. reply[t] = [k \in 1..Len(reply[t]) |-> reply[t][k]]
    BY <1>1
  <2>4. QED
    BY <2>2, <2>3
<1>3. PartsInPlace
  <2>1. SUFFICES ASSUME NEW t \in Threads
        PROVE  /\ pc[t] = "failed" => t \notin changes
               /\ pc[t] = "replied" => reply[t] # <<>> /\ reply[t][1] \in Threads
               /\ \A k \in DOMAIN reply[t] :
                    LET u == reply[t][k]
                    IN \/ u \in Threads /\ k =< Length[answer[u]] /\ Truthful(u)
                       \/ u = NoThread /\ k > Length[answer[t]] + 1
    BY DEF PartsInPlace
  <2>2. pc[t] = "failed" => t \notin changes
    BY <1>1 DEF QueryInvOf, PastQuery
  <2>3. pc[t] = "replied" => reply[t] # <<>> /\ reply[t][1] \in Threads
    BY <1>1 DEF BufferInvOf, RepliedOf
  <2>4. ASSUME NEW k \in DOMAIN reply[t]
        PROVE  \/ /\ reply[t][k] \in Threads
                  /\ k =< Length[answer[reply[t][k]]]
                  /\ Truthful(reply[t][k])
               \/ reply[t][k] = NoThread /\ k > Length[answer[t]] + 1
    <3>1. k \in 1..Len(reply[t])
      BY <1>1, <2>4
    <3>2. CASE reply[t][k] \in Threads /\ HasText(reply[t][k], k)
      BY <1>1, <3>2 DEF HasText, QueryInvOf, Truthful
    <3>3. CASE reply[t][k] = NoThread /\ Length[answer[t]] + 1 < k
      <4>1. Length[answer[t]] \in Nat
        <5>1. pc[t] \in PastQuery
          BY <1>1, <3>1 DEF BufferInvOf, RepliedOf, PastQuery
        <5>2. QED
          BY <5>1, Lengths
      <4>2. QED
        BY <3>1, <3>3, <4>1
    <3>4. QED
      BY <1>1, <3>1, <3>2, <3>3 DEF BufferInvOf, RepliedOf
  <2>5. QED
    BY <2>2, <2>3, <2>4
<1>4. EndsInside
  BY DEF BufferInv
<1>5. QED
  BY <1>1, <1>2, <1>3, <1>4 DEF RepliesRight

\* A reply is the request's own if nobody disturbed it in format_response_C; if somebody
\* did, each of its parts is what a response of that time has in that place, and strlen and
\* the copy stay inside the buffer unless a response was too long by itself (run_lua.c:80-83).
THEOREM RepliesOwnOrInPlace == Spec => []RepliesRight
<1>1. Spec => [](QueryInv /\ BufferInv)
  BY InitQuery, StepQuery, InitBuffer, StepBuffer, PTL DEF Spec
<1>2. QED
  BY <1>1, BufferInvSuffices, PTL

-----------------------------------------------------------------------------
(***************************************************************************)
(* What ends the process.                                                  *)
(***************************************************************************)

LEMMA MissingIsInt == ASSUME TypeOK, NEW t \in Threads PROVE Missing(t) \in Int
<1>1. call[t] \in Calls \union {NoCall}
  BY DEF TypeOK
<1>2. call[t].nargs \in Nat /\ Len(call[t].args) \in Nat
  BY <1>1 DEF IsCall, NoCall
<1>3. QED
  BY <1>2 DEF Missing

LEMMA StepDies == TypeOK /\ DiesOnlyInTrouble /\ [Next]_vars => DiesOnlyInTrouble'
<1> SUFFICES ASSUME TypeOK, DiesOnlyInTrouble, [Next]_vars, dead' PROVE Trouble'
  BY DEF DiesOnlyInTrouble
<1>1. ASSUME NEW t \in Threads, CallsOutside(t) PROVE Trouble'
  <2>1. Missing(t) > 1
    BY <1>1, MissingIsInt DEF CallsOutside
  <2>2. QED
    BY <1>1, <2>1 DEF CallsOutside, Die, Trouble, Missing
<1>2. ASSUME NEW t \in Threads, MysqlInitFails(t) PROVE Trouble'
  BY <1>2 DEF MysqlInitFails, At, Trouble
<1>3. ASSUME NEW t \in Threads, QueryRefused(t) PROVE Trouble'
  <2>1. CASE Selects(call[t])
    BY <1>3, <2>1 DEF QueryRefused, Trouble, Selects
  <2>2. CASE ~Selects(call[t])
    BY <1>3, <2>2 DEF QueryRefused, At
  <2>3. QED
    BY <2>1, <2>2
<1>4. ASSUME NEW t \in Threads, FormatMessage(t) \/ FormatEnd(t) PROVE Trouble'
  BY <1>4 DEF FormatMessage, FormatEnd, Put, Trouble
<1>5. ASSUME NEW t \in Threads,
             \/ \E c \in Calls : Capilua(t, c)
             \/ \E ok \in BOOLEAN : Prime(t, ok) \/ Connect(t, ok)
             \/ ScriptFails(t) \/ ScriptRuns(t) \/ QueryWorks(t)
             \/ FormatHead(t) \/ Measure(t) \/ Push(t)
      PROVE  FALSE
  BY <1>5 DEF Capilua, Prime, Connect, ScriptFails, ScriptRuns, QueryWorks, FormatHead,
              Measure, Push, At
<1>6. CASE UNCHANGED vars
  BY <1>6 DEF vars, DiesOnlyInTrouble, Trouble, Missing
<1>7. QED
  BY <1>1, <1>2, <1>3, <1>4, <1>5, <1>6 DEF Next, Step, Format

\* The process ends in three ways only: a SELECT that the database refuses, a call with two
\* arguments less than announced, rows that overrun the buffer (run_lua.c, mysql_utils.c).
THEOREM OnlyTroubleKills == Spec => []DiesOnlyInTrouble
<1>1. Init => DiesOnlyInTrouble
  BY DEF Init, DiesOnlyInTrouble
<1>2. QED
  BY <1>1, TypeCorrect, StepDies, PTL DEF Spec
=============================================================================
