--------------------------- MODULE EtherboneProofs ---------------------------
(***************************************************************************)
(* Proofs about Etherbone, for all registers, values, packet sizes and     *)
(* sizes of the send buffer: nothing is left behind, and a read gives a    *)
(* value that the register had since its call.                             *)
(***************************************************************************)
EXTENDS Etherbone, SequenceTheorems, TLAPS

\* What the program may hold at each place.
HeldByPlace ==
    /\ pc \in {"down", "malloc"} => held \subseteq {"stderr"}
    /\ pc = "getaddrinfo" => held \subseteq {"conn", "stderr"}
    /\ pc = "socket" => held \subseteq {"res", "conn", "stderr"}
    /\ pc \in {"connect", "setsockopt", "idle", "recv", "returned"} => "sock" \in held

\* A server that has closed the connection has dropped what was asked.
ClosedIsEmpty == closed => toServer = <<>>

OnlyWrites(queue) == \A i \in 1..Len(queue) : queue[i].op = "write"

\* A read is on its way, behind the writes before it.
Asked ==
    /\ toServer # <<>> /\ toClient = <<>> /\ p = 1
    /\ \A i \in 1..(Len(toServer) - 1) : toServer[i].op = "write"
    /\ toServer[Len(toServer)] = eb_fill_read32(addr)

\* The server closed the connection before it came to the read.
Lost == closed /\ toServer = <<>> /\ toClient = <<>> /\ p = 1

\* The answer is in the stream and in raw_pkt, cut at p, and its datum is a
\* value that the register had.
Answered ==
    /\ toServer = <<>> /\ Len(toClient) = Size + 1 - p
    /\ p <= Size => toClient[Len(toClient)] \in seen
    /\ p > Size => raw_pkt[Size] \in seen

\* A program that is not reading has nothing to read, and asked for nothing.
OneReadAtATime ==
    /\ pc = "recv" => Asked \/ Lost \/ Answered
    /\ pc # "recv" => toClient = <<>> /\ OnlyWrites(toServer)

IInv == TypeOK /\ HeldByPlace /\ ClosedIsEmpty /\ OneReadAtATime /\ ReadTruthful

-----------------------------------------------------------------------------
(* Sequences and packets.                                                  *)

\* The first request leaves the queue, and the others move up.
LEMMA TailFacts ==
  ASSUME NEW S, NEW s \in Seq(S), s # <<>>
  PROVE  /\ Head(s) = s[1] /\ Head(s) \in S /\ Tail(s) \in Seq(S)
         /\ Len(s) \in Nat \ {0} /\ Len(Tail(s)) = Len(s) - 1
         /\ \A i \in 1..(Len(s) - 1) : Tail(s)[i] = s[i + 1]
         /\ Len(s) = 1 => Tail(s) = <<>>
<1>1. Len(s) \in Nat \ {0}
  BY EmptySeq
<1>2. /\ Head(s) \in S /\ Tail(s) \in Seq(S) /\ Len(Tail(s)) = Len(s) - 1
      /\ \A i \in 1..Len(Tail(s)) : Tail(s)[i] = s[i + 1]
  BY HeadTailProperties
<1>3. \A t \in Seq(S) : Len(t) = 0 => t = <<>>
  BY EmptySeq
<1>4. Head(s) = s[1]
  OBVIOUS
<1>5. QED
  BY <1>1, <1>2, <1>3, <1>4

\* A packet has Size units, and its last is the datum.
LEMMA PacketFacts ==
  ASSUME NEW u \in Unit
  PROVE  /\ Packet(u) \in [1..Size -> Unit] /\ Packet(u) \in Seq(Unit)
         /\ Len(Packet(u)) = Size /\ Packet(u)[Size] = u
<1> USE EtherboneAssumption
<1>1. Packet(u) \in [1..Size -> Unit] /\ Packet(u)[Size] = u
  BY DEF Packet, Unit
<1>2. Packet(u) \in Seq(Unit)
  BY <1>1, SeqDef
<1>3. Len(Packet(u)) = Size
  <2>1. DOMAIN Packet(u) = 1..Size
    BY <1>1
  <2>2. DOMAIN Packet(u) = 1..Len(Packet(u)) /\ Len(Packet(u)) \in Nat
    BY <1>2, LenProperties
  <2>3. QED
    BY <2>1, <2>2
<1>4. QED
  BY <1>1, <1>2, <1>3

\* seen holds values only, and grows as long as no write to the register of
\* the read is under way.
LEMMA ObservedFacts ==
  ASSUME NEW before \in SUBSET Values, NEW a \in Addrs, NEW r \in [Addrs -> Values], NEW queue
  PROVE  /\ Observed(before, a, r, queue) \in SUBSET Values
         /\ queue = <<>> => Observed(before, a, r, queue) = before \cup {r[a]}
<1>1. r[a] \in Values
  OBVIOUS
<1>2. queue = <<>> => DOMAIN queue = {}
  BY EmptySeq, LenProperties
<1>3. QED
  BY <1>1, <1>2 DEF Observed

\* The calls of eb_connect, one by one.
LEMMA CallsFacts ==
  /\ Calls = {"malloc", "getaddrinfo", "socket", "connect", "setsockopt"}
  /\ DOMAIN calls = 1..5 /\ Len(calls) = 5
  /\ calls[1] = "malloc" /\ calls[2] = "getaddrinfo" /\ calls[3] = "socket"
  /\ calls[4] = "connect" /\ calls[5] = "setsockopt"
<1>1. /\ DOMAIN calls = 1..5 /\ Len(calls) = 5
      /\ calls[1] = "malloc" /\ calls[2] = "getaddrinfo" /\ calls[3] = "socket"
      /\ calls[4] = "connect" /\ calls[5] = "setsockopt"
  BY DEF calls
<1>2. 1..5 = {1, 2, 3, 4, 5}
  OBVIOUS
<1>3. QED
  BY <1>1, <1>2 DEF Calls

\* A call that succeeds leads to the next, or out of eb_connect.
LEMMA CallSucceedsFacts ==
  ASSUME CallSucceeds
  PROVE  /\ \/ pc = "malloc" /\ pc' = "getaddrinfo" /\ held' = held \cup {"conn"}
            \/ pc = "getaddrinfo" /\ pc' = "socket" /\ held' = held \cup {"res"}
            \/ pc = "socket" /\ pc' = "connect" /\ held' = held \cup {"sock"}
            \/ pc = "connect" /\ pc' = "setsockopt" /\ held' = held
            \/ pc = "setsockopt" /\ pc' = "idle" /\ held' = held
         /\ \/ UNCHANGED stream
            \/ toServer = <<>> /\ toClient' = <<>> /\ ~closed' /\ UNCHANGED toServer
               /\ closed' \in BOOLEAN
         /\ UNCHANGED <<addr, raw_pkt, p, result, regs, seen>>
<1>1. PICK i \in 1..5 :
        /\ pc = calls[i]
        /\ held' = held \cup Acquired(pc)
        /\ pc' = IF i = 5 THEN "idle" ELSE calls[i + 1]
  BY CallsFacts DEF CallSucceeds
<1>2. i \in {1, 2, 3, 4, 5}
  OBVIOUS
<1>3. \/ pc = "malloc" /\ pc' = "getaddrinfo" /\ held' = held \cup {"conn"}
      \/ pc = "getaddrinfo" /\ pc' = "socket" /\ held' = held \cup {"res"}
      \/ pc = "socket" /\ pc' = "connect" /\ held' = held \cup {"sock"}
      \/ pc = "connect" /\ pc' = "setsockopt" /\ held' = held
      \/ pc = "setsockopt" /\ pc' = "idle" /\ held' = held
  BY <1>1, <1>2, CallsFacts DEF Acquired
<1>4. QED
  BY <1>3 DEF CallSucceeds

\* What the requests are made of.
LEMMA RequestFacts ==
  /\ \A a \in Addrs : eb_fill_read32(a) \in Requests /\ eb_fill_read32(a).op = "read"
  /\ \A a \in Addrs, val \in Values :
        eb_fill_write32(val, a) \in Requests /\ eb_fill_write32(val, a).op = "write"
  /\ \A request \in Requests :
        /\ request.addr \in Addrs
        /\ request.op = "write" => request.val \in Values
BY DEF Requests, eb_fill_read32, eb_fill_write32

\* A request that is sent is the last of the queue, or dropped.
LEMMA SendFacts ==
  ASSUME TypeOK, ClosedIsEmpty, OnlyWrites(toServer), NEW request \in Requests, eb_send(request)
  PROVE  /\ toServer' \in Seq(Requests) /\ Len(toServer') <= SendBuffer
         /\ UNCHANGED <<toClient, closed>>
         /\ closed => toServer' = <<>>
         /\ ~closed => /\ toServer' # <<>> /\ toServer'[Len(toServer')] = request
                       /\ \A i \in 1..(Len(toServer') - 1) : toServer'[i].op = "write"
<1> USE EtherboneAssumption
<1>1. CASE closed
  BY <1>1 DEF eb_send, ClosedIsEmpty, TypeOK
<1>2. CASE ~closed
  <2>1. toServer' = Append(toServer, request) /\ Len(toServer) < SendBuffer
    BY <1>2 DEF eb_send
  <2>2. toServer \in Seq(Requests) /\ Len(toServer) \in Nat
    BY DEF TypeOK
  <2>3. /\ toServer' \in Seq(Requests) /\ toServer' # <<>> /\ Len(toServer') = Len(toServer) + 1
        /\ \A i \in 1..Len(toServer) : toServer'[i] = toServer[i]
        /\ toServer'[Len(toServer) + 1] = request
    BY <2>1, <2>2, AppendProperties
  <2>4. QED
    BY <1>2, <2>1, <2>2, <2>3 DEF eb_send, OnlyWrites
<1>3. QED
  BY <1>1, <1>2

-----------------------------------------------------------------------------
(* Every step keeps the invariant.                                         *)

\* The invariant holds at the beginning.
LEMMA InitInv == Init => IInv
<1> SUFFICES ASSUME Init PROVE IInv
  OBVIOUS
<1> USE EtherboneAssumption
<1>1. Header \in Unit /\ Packet(Header) \in [1..Size -> Unit] /\ 1 \in 1..(Size + 1)
  BY PacketFacts DEF Unit
<1>2. /\ <<>> \in Seq(Requests) /\ <<>> \in Seq(Unit) /\ Len(<<>>) = 0
  BY EmptySeq
<1>3. regs \in [Addrs -> Values]
  BY DEF Init
<1>4. TypeOK
  BY <1>1, <1>2, <1>3 DEF Init, TypeOK
<1>5. QED
  BY <1>2, <1>4 DEF Init, IInv, HeldByPlace, ClosedIsEmpty, OneReadAtATime, OnlyWrites, ReadTruthful

\* eb_connect and eb_disconnect.
LEMMA ConnectInv ==
  ASSUME IInv, Connect \/ CallSucceeds \/ CallFails \/ Disconnect \/ Killed
  PROVE  IInv'
<1> USE DEF IInv, TypeOK, HeldByPlace, ClosedIsEmpty, OneReadAtATime, ReadTruthful, OnlyWrites
<1>1. <<>> \in Seq(Unit) /\ Len(<<>>) = 0
  BY EmptySeq
<1>2. CASE Connect
  BY <1>2, CallsFacts DEF Connect, stream
<1>3. CASE CallSucceeds
  <2>1. pc \in Calls /\ pc' \in Calls \cup {"idle"} /\ pc \notin {"recv", "returned", "down"}
        /\ pc' \notin {"recv", "returned", "down"}
    BY <1>3, CallSucceedsFacts, CallsFacts
  <2>2. TypeOK'
    BY <1>1, <1>3, <2>1, CallSucceedsFacts, EtherboneAssumption DEF stream
  <2>3. HeldByPlace'
    BY <1>3, CallSucceedsFacts
  <2>4. ClosedIsEmpty' /\ OneReadAtATime' /\ ReadTruthful'
    BY <1>3, <2>1, CallSucceedsFacts DEF stream
  <2>5. QED
    BY <2>2, <2>3, <2>4
<1>4. CASE CallFails
  BY <1>4, CallsFacts DEF CallFails, Released, stream
<1>5. CASE Disconnect
  BY <1>1, <1>5, CallsFacts, EtherboneAssumption DEF Disconnect
<1>6. CASE Killed
  BY <1>1, <1>6, CallsFacts, EtherboneAssumption DEF Killed
<1>7. QED
  BY <1>2, <1>3, <1>4, <1>5, <1>6

\* eb_write32, and eb_read32 up to its first read().
LEMMA SendInv ==
  ASSUME IInv, eb_write32 \/ eb_read32
  PROVE  IInv'
<1> USE EtherboneAssumption
    DEF IInv, HeldByPlace, ClosedIsEmpty, OneReadAtATime, ReadTruthful
<1>1. OnlyWrites(toServer) /\ toClient = <<>> /\ pc \in {"idle", "returned"}
  BY DEF eb_write32, eb_read32
<1>2. CASE eb_write32
  <2>1. PICK a \in Addrs, val \in Values : eb_send(eb_fill_write32(val, a))
    BY <1>2 DEF eb_write32
  <2>2. /\ toServer' \in Seq(Requests) /\ Len(toServer') <= SendBuffer
        /\ UNCHANGED <<toClient, closed>> /\ (closed => toServer' = <<>>)
    BY <1>1, <2>1, SendFacts, RequestFacts
  <2>3. OnlyWrites(toServer')
    <3>1. CASE closed
      BY <2>2, <3>1 DEF OnlyWrites
    <3>2. CASE ~closed
      <4>1. /\ toServer'[Len(toServer')].op = "write" /\ Len(toServer') \in Nat
            /\ \A i \in 1..(Len(toServer') - 1) : toServer'[i].op = "write"
        BY <1>1, <2>1, <2>2, <3>2, SendFacts, RequestFacts
      <4>2. QED
        BY <4>1 DEF OnlyWrites
    <3>3. QED
      BY <3>1, <3>2
  <2>4. TypeOK'
    BY <1>2, <2>2 DEF eb_write32, TypeOK
  <2>5. QED
    BY <1>1, <1>2, <2>2, <2>3, <2>4 DEF eb_write32, OnlyWrites
<1>3. CASE eb_read32
  <2>1. PICK a \in Addrs :
          /\ addr' = a /\ raw_pkt' = Packet(a)
          /\ eb_send(eb_fill_read32(a))
          /\ seen' = Observed({}, a, regs, toServer')
    BY <1>3 DEF eb_read32
  <2>2. /\ toServer' \in Seq(Requests) /\ Len(toServer') <= SendBuffer
        /\ UNCHANGED <<toClient, closed>> /\ (closed => toServer' = <<>>)
        /\ ~closed => /\ toServer' # <<>> /\ toServer'[Len(toServer')] = eb_fill_read32(a)
                      /\ \A i \in 1..(Len(toServer') - 1) : toServer'[i].op = "write"
    BY <1>1, <2>1, SendFacts, RequestFacts
  <2>3. raw_pkt' \in [1..Size -> Unit] /\ seen' \in SUBSET Values
    BY <2>1, PacketFacts, ObservedFacts DEF TypeOK, Unit
  <2>4. TypeOK'
    BY <1>3, <2>1, <2>2, <2>3 DEF eb_read32, TypeOK
  <2>5. Asked' \/ Lost'
    BY <1>1, <1>3, <2>1, <2>2 DEF eb_read32, Asked, Lost, eb_fill_read32
  <2>6. QED
    BY <1>1, <1>3, <2>2, <2>4, <2>5 DEF eb_read32
<1>4. QED
  BY <1>2, <1>3

\* The loop of eb_read32 and its ways out.
LEMMA ReadInv ==
  ASSUME IInv, eb_recv \/ RecvError \/ Return
  PROVE  IInv'
<1> USE EtherboneAssumption
    DEF IInv, HeldByPlace, ClosedIsEmpty, OneReadAtATime, ReadTruthful
<1>1. pc = "recv" /\ (Asked \/ Lost \/ Answered)
  BY DEF eb_recv, RecvError, Return
<1>2. <<>> \in Seq(Unit) /\ Len(<<>>) = 0
  BY EmptySeq
<1>3. CASE eb_recv
  <2>1. PICK n \in 1..(Size + 1 - p) :
          /\ n <= Len(toClient)
          /\ raw_pkt' = [i \in 1..Size |->
                            IF i \in p..(p + n - 1) THEN toClient[i - p + 1] ELSE raw_pkt[i]]
          /\ toClient' = SubSeq(toClient, n + 1, Len(toClient))
          /\ p' = p + n
    BY <1>3 DEF eb_recv
  <2>2. toClient \in Seq(Unit) /\ Len(toClient) \in Nat /\ p \in 1..(Size + 1)
    BY DEF TypeOK
  <2>3. Answered
    BY <1>1, <1>2, <2>1, <2>2 DEF Asked, Lost
  <2>4. Len(toClient) = Size + 1 - p /\ p <= Size /\ p' \in 1..(Size + 1)
    BY <1>3, <2>1, <2>2, <2>3 DEF Answered, eb_recv
  <2> DEFINE L == Len(toClient)
  <2>5. \A i \in 1..L : toClient[i] \in Unit
    BY <2>2, ElementOfSeq
  <2>6. /\ toClient' \in Seq(Unit) /\ Len(toClient') = L - n
        /\ \A i \in 1..(L - n) : toClient'[i] = toClient[n + i]
    <3>1. \A i \in (n + 1)..L : toClient[i] \in Unit
      BY <2>1, <2>5
    <3>2. /\ toClient' \in Seq(Unit)
          /\ Len(toClient') = IF n + 1 <= L THEN L - (n + 1) + 1 ELSE 0
          /\ \A i \in 1..(L - (n + 1) + 1) : toClient'[i] = toClient[n + 1 + i - 1]
      BY <2>1, <2>2, <3>1, SubSeqProperties
    <3>3. L - (n + 1) + 1 = L - n /\ (n <= L) /\ \A i \in 1..(L - n) : n + 1 + i - 1 = n + i
      BY <2>1, <2>2
    <3>4. Len(toClient') = L - n
      BY <2>1, <2>2, <3>2
    <3>5. ASSUME NEW i \in 1..(L - n) PROVE toClient'[i] = toClient[n + i]
      BY <3>2, <3>3
    <3>6. QED
      BY <3>2, <3>4, <3>5
  <2>7. raw_pkt' \in [1..Size -> Unit]
    <3>1. \A i \in p..(p + n - 1) : i - p + 1 \in 1..L
      BY <2>1, <2>2
    <3>2. QED
      BY <2>1, <2>5, <3>1 DEF TypeOK
  <2>8. TypeOK'
    BY <1>3, <2>1, <2>2, <2>4, <2>6, <2>7 DEF eb_recv, TypeOK
  <2>9. Answered'
    <3>1. UNCHANGED <<toServer, seen>> /\ toClient[L] \in seen
      BY <1>3, <2>3, <2>4 DEF eb_recv, Answered
    <3>2. CASE n < L
      <4>1. toClient'[L - n] = toClient[L] /\ p' <= Size
        BY <2>1, <2>2, <2>4, <2>6, <3>2
      <4>2. QED
        BY <2>1, <2>2, <2>3, <2>4, <2>6, <3>1, <4>1 DEF Answered
    <3>3. CASE n = L
      <4>1. raw_pkt'[Size] = toClient[L] /\ p' = Size + 1
        BY <2>1, <2>2, <2>4, <3>3
      <4>2. QED
        BY <2>1, <2>2, <2>3, <2>4, <2>6, <3>1, <3>3, <4>1 DEF Answered
    <3>4. QED
      BY <2>1, <3>2, <3>3
  <2>10. QED
    BY <1>1, <1>3, <2>8, <2>9 DEF eb_recv
<1>4. CASE RecvError
  <2>1. TypeOK'
    BY <1>2, <1>4 DEF RecvError, TypeOK, Unit
  <2>2. toServer = <<>>
    BY <1>4 DEF RecvError
  <2>3. QED
    BY <1>1, <1>2, <1>4, <2>1, <2>2 DEF RecvError, OnlyWrites
<1>5. CASE Return
  <2>1. p > Size /\ p \in 1..(Size + 1) /\ toClient \in Seq(Unit)
    BY <1>5 DEF Return, TypeOK
  <2>2. Answered
    BY <1>1, <2>1 DEF Asked, Lost
  <2>3. toServer = <<>> /\ toClient = <<>> /\ raw_pkt[Size] \in seen
    BY <2>1, <2>2, EmptySeq DEF Answered
  <2>4. TypeOK'
    BY <1>5 DEF Return, TypeOK, eb_unfill_read32, stream
  <2>5. QED
    BY <1>1, <1>2, <1>5, <2>3, <2>4 DEF Return, OnlyWrites, eb_unfill_read32, stream
<1>6. QED
  BY <1>3, <1>4, <1>5

\* The server and the CPU.
LEMMA ServerInv ==
  ASSUME IInv, Serve \/ Close \/ CpuWrite
  PROVE  IInv'
<1> USE EtherboneAssumption
    DEF IInv, HeldByPlace, ClosedIsEmpty, OneReadAtATime, ReadTruthful
<1>1. <<>> \in Seq(Requests) /\ Len(<<>>) = 0
  BY EmptySeq
<1>2. CASE Serve
  <2> DEFINE request == Head(toServer)
  <2>1. /\ toServer # <<>> /\ toServer \in Seq(Requests) /\ toServer' = Tail(toServer)
        /\ UNCHANGED <<client, closed>>
    BY <1>2 DEF Serve, TypeOK
  <2>2. /\ request = toServer[1] /\ request \in Requests
        /\ toServer' \in Seq(Requests) /\ Len(toServer') = Len(toServer) - 1
        /\ Len(toServer) \in Nat \ {0} /\ Len(toServer) <= SendBuffer
        /\ \A i \in 1..(Len(toServer) - 1) : toServer'[i] = toServer[i + 1]
        /\ Len(toServer) = 1 => toServer' = <<>>
    BY <2>1, TailFacts DEF TypeOK
  <2>3. regs' \in [Addrs -> Values]
    BY <1>2, <2>2, RequestFacts DEF Serve, TypeOK
  <2>4. seen' \in SUBSET Values
    BY <1>2, <2>3, ObservedFacts DEF Serve, TypeOK
  <2>5. CASE pc # "recv"
    <3>1. OnlyWrites(toServer) /\ request.op = "write" /\ UNCHANGED toClient
      BY <1>2, <2>1, <2>2, <2>5 DEF Serve, OnlyWrites
    <3>2. OnlyWrites(toServer')
      BY <2>2, <3>1 DEF OnlyWrites
    <3>3. TypeOK'
      BY <2>1, <2>2, <2>3, <2>4, <3>1 DEF TypeOK, client
    <3>4. seen' = seen
      BY <1>2, <2>5 DEF Serve
    <3>5. QED
      BY <2>1, <2>5, <3>1, <3>2, <3>3, <3>4 DEF client
  <2>6. CASE pc = "recv" /\ Len(toServer) > 1
    <3>1. Asked
      BY <1>1, <2>1, <2>6 DEF Lost, Answered
    <3>2. request.op = "write" /\ UNCHANGED toClient
      BY <1>2, <2>2, <2>6, <3>1 DEF Serve, Asked
    <3>3. TypeOK'
      BY <2>1, <2>2, <2>3, <2>4, <3>2 DEF TypeOK, client
    <3>4. Asked'
      <4>1. \A i \in 1..(Len(toServer') - 1) : toServer'[i].op = "write"
        BY <2>2, <2>6, <3>1 DEF Asked
      <4>2. toServer'[Len(toServer')] = toServer[Len(toServer)] /\ toServer' # <<>>
        BY <1>1, <2>2, <2>6
      <4>3. QED
        BY <2>1, <3>1, <3>2, <4>1, <4>2 DEF Asked, client, eb_fill_read32
    <3>5. QED
      BY <2>1, <2>6, <3>3, <3>4 DEF client
  <2>7. CASE pc = "recv" /\ Len(toServer) = 1
    <3>1. Asked
      BY <1>1, <2>1, <2>7 DEF Lost, Answered
    <3>2. request = eb_fill_read32(addr) /\ request.op = "read" /\ request.addr = addr
      BY <2>2, <2>7, <3>1 DEF Asked, eb_fill_read32
    <3>3. Connected
      BY <2>7, CallsFacts DEF Connected
    <3>4. regs' = regs /\ toClient' = toClient \o Packet(regs[addr])
      BY <1>2, <3>2, <3>3 DEF Serve
    <3>5. regs[addr] \in Values /\ regs[addr] \in Unit /\ addr \in Addrs
      BY DEF TypeOK, Unit
    <3>6. toClient' = Packet(regs[addr])
      BY <3>1, <3>4, <3>5, PacketFacts, ConcatEmptySeq DEF Asked
    <3>7. TypeOK'
      <4>1. toClient' \in Seq(Unit) /\ Len(toClient') <= Size
        BY <3>5, <3>6, PacketFacts
      <4>2. Len(toServer') <= SendBuffer
        BY <2>2
      <4>3. QED
        BY <2>1, <2>2, <2>3, <2>4, <4>1, <4>2 DEF TypeOK, client
    <3>8. regs[addr] \in seen'
      <4>1. seen' = Observed(seen, addr, regs, <<>>)
        BY <1>2, <2>2, <2>7, <3>4 DEF Serve
      <4>2. QED
        BY <3>5, <4>1, ObservedFacts DEF TypeOK
    <3>9. Answered'
      BY <2>1, <2>2, <2>7, <3>1, <3>5, <3>6, <3>8, PacketFacts DEF Answered, Asked, client
    <3>10. QED
      BY <1>1, <2>1, <2>2, <2>7, <3>7, <3>9 DEF client
  <2>8. QED
    BY <2>2, <2>5, <2>6, <2>7
<1>3. CASE Close
  <2>1. TypeOK'
    BY <1>1, <1>3 DEF Close, TypeOK, client
  <2>2. pc = "recv" => Lost' \/ Answered'
    BY <1>3 DEF Close, Asked, Lost, Answered, client
  <2>3. QED
    BY <1>1, <1>3, <2>1, <2>2 DEF Close, client, OnlyWrites
<1>4. CASE CpuWrite
  <2>1. regs' \in [Addrs -> Values] /\ UNCHANGED <<client, stream>>
    BY <1>4 DEF CpuWrite, TypeOK
  <2>2. seen' = IF pc = "recv" THEN Observed(seen, addr, regs', toServer) ELSE seen
    BY <1>4 DEF CpuWrite
  <2>3. seen' \in SUBSET Values /\ (toServer = <<>> => seen \subseteq seen')
    <3>1. seen \in SUBSET Values /\ addr \in Addrs
      BY DEF TypeOK
    <3>2. CASE pc = "recv"
      <4>1. seen' = Observed(seen, addr, regs', toServer)
        BY <2>2, <3>2
      <4> HIDE DEF IInv
      <4>2. /\ Observed(seen, addr, regs', toServer) \in SUBSET Values
            /\ toServer = <<>> =>
                 Observed(seen, addr, regs', toServer) = seen \cup {regs'[addr]}
        BY <2>1, <3>1, ObservedFacts
      <4>3. QED
        BY <4>1, <4>2
    <3>3. CASE pc # "recv"
      BY <2>2, <3>1, <3>3
    <3>4. QED
      BY <3>2, <3>3
  <2>4. TypeOK'
    BY <2>1, <2>3 DEF TypeOK, client, stream
  <2>5. Asked \/ Lost \/ Answered => Asked' \/ Lost' \/ Answered'
    BY <2>1, <2>3 DEF Asked, Lost, Answered, client, stream, eb_fill_read32
  <2>6. QED
    BY <2>1, <2>2, <2>4, <2>5 DEF client, stream, OnlyWrites
<1>5. QED
  BY <1>2, <1>3, <1>4

\* Every step keeps the invariant.
LEMMA StepInv == IInv /\ [Next]_vars => IInv'
<1> SUFFICES ASSUME IInv, [Next]_vars PROVE IInv'
  OBVIOUS
<1>1. CASE UNCHANGED vars
  BY <1>1 DEF vars, client, stream, IInv, TypeOK, HeldByPlace, ClosedIsEmpty, OneReadAtATime,
     ReadTruthful, Asked, Lost, Answered, OnlyWrites, eb_fill_read32
<1>2. QED
  BY <1>1, ConnectInv, SendInv, ReadInv, ServerInv DEF Next

-----------------------------------------------------------------------------
(* The theorems.                                                           *)

\* So it holds in every reachable state.
LEMMA Invariance == Spec => []IInv
<1>1. IInv /\ [Next]_vars => IInv'
  BY StepInv
<1>2. Spec => Init /\ [][Next]_vars
  BY DEF Spec
<1>3. QED
  BY InitInv, <1>1, <1>2, PTL

\* The client and the stream keep their types and bounds: an answer is never
\* longer than a packet, so that raw_pkt is not overrun (remote-bus/etherbone.c:113).
THEOREM EtherboneTypeCorrect == Spec => []TypeOK
<1>1. IInv => TypeOK
  BY DEF IInv
<1>2. QED
  BY Invariance, <1>1, PTL

\* However the answer is cut and however many writes come before it, a read
\* gives a value that the register had since the call and after those writes
\* (remote-bus/etherbone.c:133).
THEOREM ReadIsTruthful == Spec => []ReadTruthful
<1>1. IInv => ReadTruthful
  BY DEF IInv
<1>2. QED
  BY Invariance, <1>1, PTL

\* Every way out of eb_connect, eb_disconnect and the program gives back what
\* was taken (remote-bus/etherbone.c:143).
THEOREM NothingLeaks == Spec => []NoLeak
<1>1. IInv => NoLeak
  BY DEF IInv, HeldByPlace, NoLeak
<1>2. QED
  BY Invariance, <1>1, PTL
=============================================================================
