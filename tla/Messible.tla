------------------------------ MODULE Messible -------------------------------
(***************************************************************************)
(* The Messible (rtl/messible.py): a FIFO between the CPU, which writes    *)
(* the register in, and the host, which reads the register out over the    *)
(* USB bridge.  Both see the flags FULL and HAVE in the register status.   *)
(*                                                                         *)
(* One step is one clock, with at most one access of the bus in it.  The   *)
(* FIFO is migen's SyncFIFOBuffered, which is external: a memory of Depth  *)
(* bytes whose head is moved to an output register.                        *)
(***************************************************************************)
EXTENDS Naturals, Sequences

CONSTANTS Depth,        \* 64 in the firmware
          Bytes,        \* what may be written
          None,         \* no byte
          AccessTime    \* least clocks between two accesses of the CPU
ASSUME MessibleAssumption ==
    Depth \in Nat \ {0} /\ AccessTime \in Nat \ {0} /\ None \notin Bytes

VARIABLES storage, in_re,        \* register in: value, written in the last clock
          mem, readable, dout,   \* the FIFO
          cpu,                   \* "room": it saw FULL = 0 and has not written yet
          polite,                \* the last byte was written after it saw FULL = 0
          gap,                   \* clocks before the CPU's next access
          host,                  \* "have": it saw HAVE = 1 and has not read yet
          got                    \* byte that the host read in the last clock

fifo == <<mem, readable, dout>>
vars == <<storage, in_re, fifo, cpu, polite, gap, host, got>>

\* The types of all the variables.
TypeOK ==
    /\ storage \in Bytes \cup {None} /\ dout \in Bytes \cup {None}
    /\ got \in Bytes \cup {None}
    /\ in_re \in BOOLEAN /\ readable \in BOOLEAN /\ polite \in BOOLEAN
    /\ mem \in Seq(Bytes) /\ Len(mem) <= Depth
    /\ cpu \in {"idle", "room"} /\ host \in {"idle", "have"}
    /\ gap \in 0..(AccessTime - 1)

\* None stands for the zero that the registers hold before the first byte.
Init ==
    /\ storage = None /\ in_re = FALSE
    /\ mem = <<>> /\ readable = FALSE /\ dout = None
    /\ cpu = "idle" /\ polite = FALSE /\ gap = 0
    /\ host = "idle" /\ got = None

-----------------------------------------------------------------------------
(* One clock of the FIFO.                                                  *)

writable == Len(mem) # Depth

\* Mutant: the flag comes a byte too late.
full_late == Len(mem) > Depth

full == ~writable

\* Mutant: a byte on its way into the memory is announced.
have_early == readable \/ in_re

have == readable

\* Mutant: the memory does not stop at its end.
StoreAlways(rest) == IF in_re THEN Append(rest, storage) ELSE rest

\* f.we and f.din: the byte written in the last clock.
Store(rest) == IF in_re /\ writable THEN Append(rest, storage) ELSE rest

\* Mutant: the output register is refilled only once it is empty, and the
\* byte that a read finds there stays.
FifoTickSlow(out_re) ==
    LET re == mem # <<>> /\ ~readable
    IN  /\ mem' = Store(IF re THEN Tail(mem) ELSE mem)
        /\ dout' = IF re THEN Head(mem) ELSE dout
        /\ readable' = (re \/ readable)

\* out_re: the register out is being read.
FifoTick(out_re) ==
    LET re == mem # <<>> /\ (~readable \/ out_re)
    IN  /\ mem' = Store(IF re THEN Tail(mem) ELSE mem)
        /\ dout' = IF re THEN Head(mem) ELSE dout
        /\ readable' = (re \/ (readable /\ ~out_re))

-----------------------------------------------------------------------------
(* The users.                                                              *)

Quiet ==
    /\ in_re' = FALSE
    /\ gap' = IF gap = 0 THEN 0 ELSE gap - 1
    /\ UNCHANGED <<storage, cpu, polite>>

\* messible_in_write: messible_puts writes without a look at FULL.
CpuWrite ==
    /\ gap = 0
    /\ \E b \in Bytes : storage' = b
    /\ in_re' = TRUE
    /\ polite' = (cpu = "room")
    /\ cpu' = "idle"
    /\ gap' = AccessTime - 1
    /\ FifoTick(FALSE)
    /\ got' = None
    /\ UNCHANGED host

CpuStatus ==
    /\ gap = 0
    /\ cpu' = IF full THEN "idle" ELSE "room"
    /\ in_re' = FALSE
    /\ gap' = AccessTime - 1
    /\ FifoTick(FALSE)
    /\ got' = None
    /\ UNCHANGED <<storage, polite, host>>

HostStatus ==
    /\ host' = IF have THEN "have" ELSE "idle"
    /\ FifoTick(FALSE)
    /\ Quiet
    /\ got' = None

\* A read with HAVE = 0 gives no byte that counts.
HostRead ==
    /\ got' = IF have THEN dout ELSE None
    /\ host' = "idle"
    /\ FifoTick(TRUE)
    /\ Quiet

NoAccess == FifoTick(FALSE) /\ Quiet /\ got' = None /\ UNCHANGED host

Next == NoAccess \/ CpuWrite \/ CpuStatus \/ HostStatus \/ HostRead

Spec == Init /\ [][Next]_vars

-----------------------------------------------------------------------------
(* Properties.                                                             *)

\* messible.py:36: as long as FULL is 0 the device can write.  What the CPU
\* saw is a few clocks old when the byte arrives, and its last byte may have
\* been on its way then; yet no byte written after FULL = 0 is dropped.
FullTruthful == in_re /\ polite => writable

\* messible.py:41: if HAVE is 1, there is a byte to be read, still when the
\* host gets to it.
HaveTruthful == host = "have" => readable

\* The FIFO with its output register and the registers before it is a queue
\* that drops bytes only when it is full.
Queue == INSTANCE LossyQueue WITH
    inp <- IF in_re THEN storage ELSE None,
    q <- IF readable THEN <<dout>> \o mem ELSE mem

ImplementsLossyQueue == Queue!Spec
=============================================================================
