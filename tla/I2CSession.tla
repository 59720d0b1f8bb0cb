----------------------------- MODULE I2CSession ------------------------------
(***************************************************************************)
(* The BIOS driver at work on an I2C bus, and what an observer of the bus  *)
(* records of it.  The steps of the CPU are here; the hardware below the   *)
(* byte controller is left to the modules that EXTEND this one, which      *)
(* conjoin what the step leaves unchanged: I2CTransfer has an abstract bit *)
(* service there, I2CBus the bit controller, the wires and a peripheral.   *)
(*                                                                         *)
(* History variables:                                                      *)
(*   wire     START, STOP and data bits on the bus since the transaction   *)
(*            began                                                        *)
(*   replies  bytes the peripheral was read, in the same period            *)
(*   outcome  what became of the last command written                      *)
(***************************************************************************)
EXTENDS I2CDriver, FiniteSets

VARIABLES wire, replies, outcome

history == <<wire, replies, outcome>>

Symbols == {"START", "STOP", "0", "1"}
BitSymbol(b) == IF b THEN "1" ELSE "0"

\* Bit number i of a byte, bit 0 the least significant one.
BitOf(byte, i) == (byte \div 2^i) % 2 = 1

HistoryTypeOK ==
    /\ wire \in Seq(Symbols)
    /\ replies \in Seq(0..255)
    /\ outcome \in {"none", "pending", "done", "lost"}

HistoryInit ==
    /\ wire = <<>>
    /\ replies = <<>>
    /\ outcome = "none"

OutcomeTick ==
    outcome' = IF i2c_al THEN "lost"
               ELSE IF done THEN "done"
               ELSE outcome

-----------------------------------------------------------------------------
(* The CPU.                                                                *)

CpuCall ==
    /\ \E t \in Txns : Call(t)
    /\ wire' = <<>>
    /\ replies' = <<>>
    /\ UNCHANGED outcome

CpuCommand ==
    /\ CommandStore
    /\ outcome' = "pending"
    /\ UNCHANGED wire

CpuInit ==
    /\ InitCoreReset \/ InitPrescale \/ InitControl
    /\ UNCHANGED history

CpuOther ==
    /\ TxrStore \/ PollBusy \/ PollDone \/ ReadRxr \/ Advance \/ Return
    /\ UNCHANGED history

-----------------------------------------------------------------------------
(* What the driver may rely on, whatever is below the byte controller.     *)

\* The driver is about to act on TIP = 0.
TipClear == pc = "wait" /\ PollReady /\ ~tip

\* The ArbLost flag read at the end of a command tells whether THIS command
\* lost arbitration (arb_lost in core.py): it is neither left over from an
\* earlier command nor missed.
ArbLostTruthful == TipClear => (arb_lost <=> outcome = "lost")

\* Each command ends exactly once: done comes only for a command under way,
\* never in the clock of an arbitration loss and never after it.
EndsOnce == done => outcome = "pending" /\ ~i2c_al

-----------------------------------------------------------------------------
(* Sequences.  SequencesExt has these too, but each INSTANCE of a module   *)
(* that extends it, and the refinement of I2CTransfer by I2CBus takes      *)
(* three, would carry it and all that it extends into every proof.         *)

IsPrefix(s, t) == Len(s) <= Len(t) /\ \A i \in 1..Len(s) : s[i] = t[i]

FlattenSeq(s) ==
    IF Len(s) = 0 THEN s
    ELSE LET joined[i \in 1..Len(s)] == IF i = 1 THEN s[i] ELSE joined[i - 1] \o s[i]
         IN  joined[Len(s)]

-----------------------------------------------------------------------------
(* What a transaction should look like on the bus.                         *)

DataBits(byte) == [i \in 1..8 |-> BitSymbol(BitOf(byte, 8 - i))]

\* The symbols of one operation whose ACK bit is a.
OpSymbols(op, byte, a) ==
    (IF op.sta THEN <<"START">> ELSE <<>>) \o DataBits(byte) \o <<a>>
    \o (IF op.sto THEN <<"STOP">> ELSE <<>>)

\* The byte of operation i: its own, or what the peripheral answers to it.
ByteOf(i) ==
    IF txn[i].rx
    THEN replies[Cardinality({j \in 1..i : txn[j].rx})]
    ELSE txn[i].byte

\* The symbols of operations 1..n when every transmit before n is
\* acknowledged and operation n, if it is a transmit, gets the ACK bit a.
TxnSymbols(n, a) ==
    FlattenSeq([i \in 1..n |->
        OpSymbols(txn[i], ByteOf(i),
                  IF txn[i].rx THEN BitSymbol(txn[i].nack)
                  ELSE IF i < n THEN "0" ELSE a)])

\* The number of operations of txn whose command has been written.
Begun == IF pc \in {"txr", "command"} THEN k - 1 ELSE k

\* What is on the bus is at any time a prefix of what the driver asked for:
\* no bit twice, none left out, no START or STOP of the core's own.
WirePrefix ==
    txn # <<>> => \E a \in {"0", "1"} : IsPrefix(wire, TxnSymbols(Begun, a))

\* A transaction that returns (i2c_read_txn and the others) tells the truth
\* about the bus: success means that every byte went out, was acknowledged
\* and the STOP was sent, and that a read returns the peripheral's two bytes;
\* ENACK means that the last byte sent, and no earlier one, was refused; EARB
\* that arbitration was lost.  EUNK is never returned.
ReturnTruthful ==
    pc = "idle" /\ ret # NoReturn =>
        \/ /\ ret >= 0
           /\ wire = TxnSymbols(Len(txn), "0")
           /\ ret = IF Len(replies) = 2 THEN 256 * replies[1] + replies[2] ELSE 0
        \/ /\ ret = ENACK
           /\ ~txn[k].rx
           /\ wire = TxnSymbols(k, "1")
        \/ /\ ret = EARB
           /\ outcome = "lost"

\* Every transaction returns: i2c_wait_tip, which has no timeout, does not
\* wait for ever.
TxnReturns == (pc # "idle") ~> (pc = "idle")
=============================================================================
