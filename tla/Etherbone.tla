------------------------------ MODULE Etherbone ------------------------------
(***************************************************************************)
(* The remote bus (remote-bus/etherbone.c over TCP, as main.c uses it):    *)
(* the program on the host reads and writes the registers of the SoC with  *)
(* packets of 20 bytes on a stream.  A write is sent and not answered; a   *)
(* read waits for its answer, which comes in pieces.                       *)
(*                                                                         *)
(* The server at the other end and the kernel's sockets are external: the  *)
(* server serves the requests of one connection after the other in order,  *)
(* and may close the connection at any time.  The CPU of the SoC writes    *)
(* the same registers.  A packet has Size units, of which the last holds   *)
(* the data (the address, in a read request).  A call of write() sends a   *)
(* whole packet or blocks.                                                 *)
(***************************************************************************)
EXTENDS Naturals, Sequences, FiniteSets

CONSTANTS Addrs, Values,   \* registers and their values
          Header,          \* unit of a packet without data
          Size,            \* units of a packet
          SendBuffer       \* requests that fit in the kernel's send buffer
ASSUME EtherboneAssumption ==
    Size \in Nat \ {0} /\ SendBuffer \in Nat \ {0} /\ Header \notin Values \cup Addrs

VARIABLES pc,        \* where the program stands
          held,      \* memory and descriptors that the program holds
          addr,      \* eb_read32: its argument, raw_pkt, and the place of p
          raw_pkt, p,
          result,    \* what eb_read32 returned: [ok, val]
          toServer,  \* requests on their way
          toClient,  \* units on their way back
          closed,    \* the server has closed the connection
          regs,      \* registers of the SoC
          seen       \* values that regs[addr] had since the call of eb_read32
                     \* and since the program's own writes before it

client == <<pc, held, addr, raw_pkt, p, result>>
stream == <<toServer, toClient, closed>>
vars == <<client, stream, regs, seen>>

\* The calls of eb_connect that may fail, in their order.
calls == <<"malloc", "getaddrinfo", "socket", "connect", "setsockopt">>
Calls == {calls[i] : i \in DOMAIN calls}

Requests ==
    [op : {"read"}, addr : Addrs] \cup [op : {"write"}, addr : Addrs, val : Values]
Unit == Values \cup Addrs \cup {Header}

\* The types, and the bounds of both directions of the stream.
TypeOK ==
    /\ pc \in Calls \cup {"down", "idle", "recv", "returned"}
    /\ held \subseteq {"conn", "res", "sock", "stderr"}
    /\ addr \in Addrs /\ raw_pkt \in [1..Size -> Unit] /\ p \in 1..(Size + 1)
    /\ result.ok \in BOOLEAN /\ result.val \in Unit
    /\ toServer \in Seq(Requests) /\ Len(toServer) <= SendBuffer
    /\ toClient \in Seq(Unit) /\ Len(toClient) <= Size
    /\ closed \in BOOLEAN
    /\ regs \in [Addrs -> Values] /\ seen \subseteq Values

Packet(unit) == [i \in 1..Size |-> IF i = Size THEN unit ELSE Header]

Init ==
    /\ pc = "down" /\ held = {"stderr"}
    /\ addr \in Addrs /\ raw_pkt = Packet(Header) /\ p = 1
    /\ result = [ok |-> FALSE, val |-> Header]
    /\ toServer = <<>> /\ toClient = <<>> /\ closed = TRUE
    /\ \E v \in Values : regs = [a \in Addrs |-> v]
    /\ seen = {}

\* seen after a step, for the next values of the variables given.
Observed(before, a, r, queue) ==
    IF \E i \in DOMAIN queue : queue[i].op = "write" /\ queue[i].addr = a
    THEN {} ELSE before \cup {r[a]}

-----------------------------------------------------------------------------
(* eb_connect and eb_disconnect.                                           *)

\* What a call that succeeds gives to the program.
Acquired(call) ==
    CASE call = "malloc"      -> {"conn"}
      [] call = "getaddrinfo" -> {"res"}
      [] call = "socket"      -> {"sock"}
      [] OTHER                -> {}

\* Mutant: the last error path is copied from the one of socket.
ReleasedNotSock(call) ==
    CASE call = "malloc"      -> {}
      [] call = "getaddrinfo" -> {"conn"}
      [] call = "connect"     -> {"sock", "res", "conn"}
      [] OTHER                -> {"res", "conn"}

\* What the error path of a call gives back.
Released(call) ==
    CASE call = "malloc"      -> {}
      [] call = "getaddrinfo" -> {"conn"}
      [] call = "socket"      -> {"res", "conn"}
      [] OTHER                -> {"sock", "res", "conn"}

Connect ==
    /\ pc = "down"
    /\ pc' = calls[1] /\ held' = held \cup {"stderr"}
    /\ UNCHANGED <<addr, raw_pkt, p, result, stream, regs, seen>>

\* The server takes a connection when it is done with the one before.
CallSucceeds ==
    \E i \in DOMAIN calls :
        /\ pc = calls[i]
        /\ held' = held \cup Acquired(pc)
        /\ pc' = IF i = Len(calls) THEN "idle" ELSE calls[i + 1]
        /\ IF pc = "connect"
           THEN /\ toServer = <<>>
                /\ toClient' = <<>> /\ closed' = FALSE
                /\ UNCHANGED toServer
           ELSE UNCHANGED stream
        /\ UNCHANGED <<addr, raw_pkt, p, result, regs, seen>>

\* eb_connect returns NULL.
CallFails ==
    /\ pc \in Calls
    /\ held' = held \ Released(pc)
    /\ pc' = "down"
    /\ UNCHANGED <<addr, raw_pkt, p, result, stream, regs, seen>>

\* read_fd was never written in a connection over TCP: the descriptor closed
\* with the others may be none, the same or any other of the program.
Disconnect ==
    /\ pc \in {"idle", "returned"}
    /\ \E read_fd \in {"none", "sock", "stderr"} :
          held' = held \ {"res", "sock", read_fd, "conn"}
    /\ pc' = "down"
    /\ toClient' = <<>>
    /\ UNCHANGED <<addr, raw_pkt, p, result, toServer, closed, regs, seen>>

-----------------------------------------------------------------------------
(* eb_write32 and eb_read32.                                               *)

\* Mutant: the counts of reads and writes of the packet are swapped.
eb_fill_write32_swapped(val, a) == [op |-> "read", addr |-> a]

eb_fill_write32(val, a) == [op |-> "write", addr |-> a, val |-> val]
eb_fill_read32(a) == [op |-> "read", addr |-> a]
eb_unfill_read32(pkt) == pkt[Size]

\* write() blocks on a full buffer, and drops what it sends to a closed
\* connection.  Its result is not looked at.
eb_send(request) ==
    /\ closed \/ Len(toServer) < SendBuffer
    /\ toServer' = IF closed THEN toServer ELSE Append(toServer, request)
    /\ UNCHANGED <<toClient, closed>>

eb_write32 ==
    /\ pc \in {"idle", "returned"}
    /\ \E a \in Addrs, val \in Values : eb_send(eb_fill_write32(val, a))
    /\ pc' = "idle"
    /\ UNCHANGED <<held, addr, raw_pkt, p, result, regs, seen>>

\* eb_read32 up to its first read().
eb_read32 ==
    /\ pc \in {"idle", "returned"}
    /\ \E a \in Addrs :
          /\ addr' = a
          /\ raw_pkt' = Packet(a)
          /\ eb_send(eb_fill_read32(a))
          /\ seen' = Observed({}, a, regs, toServer')
    /\ p' = 1
    /\ pc' = "recv"
    /\ UNCHANGED <<held, result, regs>>

\* Mutant: p is not moved on.
eb_recv_again ==
    /\ pc = "recv" /\ p <= Size
    /\ \E n \in 1..(Size + 1 - p) :
          /\ n <= Len(toClient)
          /\ raw_pkt' = [i \in 1..Size |->
                            IF i \in p..(p + n - 1) THEN toClient[i - p + 1] ELSE raw_pkt[i]]
          /\ toClient' = SubSeq(toClient, n + 1, Len(toClient))
    /\ UNCHANGED <<pc, held, addr, p, result, toServer, closed, regs, seen>>

\* One turn of the loop that gets n units.  EINTR, EAGAIN and the 0 that
\* read() returns at the end of a closed stream are turns that change nothing.
eb_recv ==
    /\ pc = "recv" /\ p <= Size
    /\ \E n \in 1..(Size + 1 - p) :
          /\ n <= Len(toClient)
          /\ raw_pkt' = [i \in 1..Size |->
                            IF i \in p..(p + n - 1) THEN toClient[i - p + 1] ELSE raw_pkt[i]]
          /\ toClient' = SubSeq(toClient, n + 1, Len(toClient))
          /\ p' = p + n
    /\ UNCHANGED <<pc, held, addr, result, toServer, closed, regs, seen>>

\* A connection that was reset: the value -1.  What had arrived is lost.
RecvError ==
    /\ pc = "recv" /\ p <= Size /\ closed
    /\ result' = [ok |-> FALSE, val |-> Header]
    /\ pc' = "returned"
    /\ toClient' = <<>>
    /\ UNCHANGED <<held, addr, raw_pkt, p, toServer, closed, regs, seen>>

\* Mutant: one read() is taken for the whole answer.
ReturnShort ==
    /\ pc = "recv" /\ p > 1
    /\ result' = [ok |-> TRUE, val |-> eb_unfill_read32(raw_pkt)]
    /\ pc' = "returned"
    /\ UNCHANGED <<held, addr, raw_pkt, p, stream, regs, seen>>

Return ==
    /\ pc = "recv" /\ p > Size
    /\ result' = [ok |-> TRUE, val |-> eb_unfill_read32(raw_pkt)]
    /\ pc' = "returned"
    /\ UNCHANGED <<held, addr, raw_pkt, p, stream, regs, seen>>

\* SIGPIPE: a write to a connection that the server closed may end the program.
Killed ==
    /\ pc \in {"idle", "returned"} /\ closed
    /\ pc' = "down"
    /\ held' = {}
    /\ toClient' = <<>>
    /\ UNCHANGED <<addr, raw_pkt, p, result, toServer, closed, regs, seen>>

-----------------------------------------------------------------------------
(* The server and the CPU.                                                 *)

Connected == "sock" \in held /\ pc \notin Calls

Serve ==
    /\ toServer # <<>>
    /\ LET request == Head(toServer)
       IN  IF request.op = "write"
           THEN /\ regs' = [regs EXCEPT ![request.addr] = request.val]
                /\ UNCHANGED toClient
           ELSE /\ toClient' = IF Connected
                               THEN toClient \o Packet(regs[request.addr]) ELSE toClient
                /\ UNCHANGED regs
    /\ toServer' = Tail(toServer)
    /\ seen' = IF pc = "recv" THEN Observed(seen, addr, regs', toServer') ELSE seen
    /\ UNCHANGED <<client, closed>>

Close ==
    /\ ~closed
    /\ closed' = TRUE
    /\ toServer' = <<>>
    /\ UNCHANGED <<client, toClient, regs, seen>>

CpuWrite ==
    \E a \in Addrs, val \in Values :
        /\ regs' = [regs EXCEPT ![a] = val]
        /\ seen' = IF pc = "recv" THEN Observed(seen, addr, regs', toServer) ELSE seen
        /\ UNCHANGED <<client, stream>>

Next ==
    \/ Connect \/ CallSucceeds \/ CallFails \/ Disconnect \/ Killed
    \/ eb_write32 \/ eb_read32 \/ eb_recv \/ RecvError \/ Return
    \/ Serve \/ Close \/ CpuWrite

\* The program does not stop in the loop of eb_read32, nor the server while
\* the connection is open.
Fairness == WF_vars(eb_recv) /\ WF_vars(Return) /\ WF_vars(Serve)

Spec == Init /\ [][Next]_vars /\ Fairness

-----------------------------------------------------------------------------
(* Properties.                                                             *)

\* eb_read32 returns, unless it returns -1 for an error, a value that the
\* register had between call and return, and after the writes that the
\* program sent before: however the answer is cut into pieces, and although
\* no write is acknowledged (etherbone.c:109).
ReadTruthful == pc = "returned" /\ result.ok => result.val \in seen

\* No way out of eb_connect and eb_disconnect leaves memory or a socket behind.
NoLeak == pc = "down" => held \subseteq {"stderr"}

\* eb_read32 returns if the server stays: a closed connection leaves it in
\* its loop, for read() then returns 0 (etherbone.c:115-130).
ReadReturns == pc = "recv" ~> pc = "returned" \/ closed
=============================================================================
