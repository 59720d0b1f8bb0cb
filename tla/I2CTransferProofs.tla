-------------------------- MODULE I2CTransferProofs --------------------------
(***************************************************************************)
(* Proofs about I2CTransfer for every set of addresses, data and replies,  *)
(* every delay of the driver and every setup time of the bit service: what *)
(* the polling driver concludes from the status register is right, the bit *)
(* on offer holds still while the bit controller may sample it, every      *)
(* register, the driver's arrays among them, keeps its type, the symbols   *)
(* on the bus are at any time a prefix of those the driver asked for, and  *)
(* the value returned is what happened there.                              *)
(*                                                                         *)
(* The lemmas about one clock or one step of the CPU name only the layers  *)
(* they need: I2CBusProofs cites them for the real bit controller.         *)
(***************************************************************************)
EXTENDS I2CTransfer, SequenceTheorems, FiniteSetTheorems, WellFoundedInduction, TLAPS

-----------------------------------------------------------------------------
(* The inductive invariant.  TipSound and ArbLostTruthful speak of the     *)
(* moment at which the driver leaves its loop; the invariant says what the *)
(* three layers are doing at every other moment.                           *)

\* The core at rest, but for an arbitration loss that may still be flagged.
Settled ==
    /\ command = NoCommand
    /\ byte_state = "IDLE" /\ core_cmd = "NOP" /\ serving = "NOP"
    /\ ~done /\ ~core_ack /\ ~shift /\ ~ld

\* How the byte controller and the bit service take turns.
Handshake ==
    /\ byte_state = "IDLE" =>
         core_cmd = "NOP" /\ serving = "NOP" /\ ~core_ack /\ ~shift /\ ~ld
    /\ core_ack => serving = "NOP"
    /\ done => byte_state = "IDLE" /\ ~i2c_al

\* The core's reset is over before the driver's next access.
ResetOver == core_reset => pc = "prescale" /\ elapsed = 0

\* Outside of i2c_wait_tip the core is at rest.
Resting == pc # "wait" => Settled /\ ~i2c_al

\* A pending command is in the command register, and from the first clock on
\* TIP shows it; ArbLost can only be old, and then the command clears it.
Underway ==
    pc = "wait" /\ outcome = "pending" =>
        /\ command.RD \/ command.WR
        /\ elapsed = 0 \/ tip
        /\ arb_lost => command.STA

\* A command that is over leaves the core at rest, and ArbLost up to date as
\* soon as TIP is clear.
Over ==
    pc = "wait" /\ outcome # "pending" =>
        /\ outcome \in {"done", "lost"}
        /\ Settled
        /\ i2c_al => tip
        /\ arb_lost <=> outcome = "lost"

\* After an arbitration loss the driver gives the transaction up, and the next
\* one begins with a START, which clears ArbLost.
LossEndsTxn ==
    /\ pc \in {"rxr", "check"} => (status.ArbLost <=> arb_lost)
    /\ pc \in {"txr", "command"} /\ arb_lost => txn[k].sta

IInv == Handshake /\ ResetOver /\ Resting /\ Underway /\ Over /\ LossEndsTxn

-----------------------------------------------------------------------------
(* One clock of each layer.                                                *)

\* The command ports of the byte controller, and its go signal.
Go == (command.RD \/ command.WR \/ command.STO) /\ ~done

\* One clock of the byte controller.
LEMMA ByteStep ==
    ASSUME Byte!Tick, Handshake
    PROVE  /\ byte_state' = "IDLE" => core_cmd' = "NOP" /\ ~shift' /\ ~ld'
           /\ core_reset \/ i2c_al => byte_state' = "IDLE" /\ ~done'
           /\ done' => byte_state' = "IDLE" /\ core_ack /\ ~i2c_al
           /\ byte_state = "IDLE" /\ ~Go => byte_state' = "IDLE"
           /\ byte_state' = "IDLE" =>
                byte_state = "IDLE" \/ core_ack \/ core_reset \/ i2c_al
<1> USE DEF Byte!Goto, Byte!Strobes, Handshake
<1>1. CASE Byte!Abort
  BY <1>1 DEF Byte!Abort
<1>2. CASE Byte!Idle /\ ~(core_reset \/ i2c_al)
  BY <1>2 DEF Byte!Idle, Byte!FirstCommand, Byte!go, Go
<1>3. CASE Byte!Pending /\ ~(core_reset \/ i2c_al)
  BY <1>3 DEF Byte!Pending
<1>4. CASE Byte!Started /\ ~(core_reset \/ i2c_al)
  BY <1>4 DEF Byte!Started
<1>5. CASE Byte!BitWritten /\ ~(core_reset \/ i2c_al)
  BY <1>5 DEF Byte!BitWritten
<1>6. CASE Byte!BitRead /\ ~(core_reset \/ i2c_al)
  BY <1>6 DEF Byte!BitRead
<1>7. CASE Byte!Acknowledged /\ ~(core_reset \/ i2c_al)
  BY <1>7 DEF Byte!Acknowledged
<1>8. CASE Byte!Stopped /\ ~(core_reset \/ i2c_al)
  BY <1>8 DEF Byte!Stopped
<1> QED
  BY <1>1, <1>2, <1>3, <1>4, <1>5, <1>6, <1>7, <1>8 DEF Byte!Tick, Byte!StateMachine

\* One clock of the bit service.
LEMMA BitStep ==
    ASSUME Bit!Next
    PROVE  /\ core_ack' => serving # "NOP" /\ serving' = "NOP"
           /\ i2c_al' => serving # "NOP"
           /\ core_reset \/ i2c_al => serving' = "NOP" /\ ~core_ack'
           /\ serving = "NOP" /\ (core_cmd = "NOP" \/ core_ack) => serving' = "NOP"
<1>1. CASE Bit!Abort
  BY <1>1 DEF Bit!Abort, Bit!Free
<1>2. CASE Bit!Accept
  BY <1>2 DEF Bit!Accept, Bit!Free
<1>3. CASE Bit!Rest
  BY <1>3 DEF Bit!Rest, Bit!Free
<1>4. CASE Bit!Work
  BY <1>4 DEF Bit!Work, Bit!Free
<1>5. CASE Bit!Finish
  BY <1>5 DEF Bit!Finish, Bit!Free
<1> QED BY <1>1, <1>2, <1>3, <1>4, <1>5 DEF Bit!Next

\* What a Tick of the whole is made of.
LEMMA TickParts ==
    ASSUME Tick
    PROVE  Bit!Next /\ Byte!Tick /\ CsrTick /\ DriverTick /\ OutcomeTick
BY DEF Tick, TickAbort, TickAccept, TickRest, TickWork, TickFinish, Clock, CoreTick, Bit!Next

\* What the core sees of a step of the CPU or of its caller, and what a step
\* of them is made of.  The lemmas below speak of these parts: they hold for
\* any bus on which the core sits.
CpuStep == CpuCommand \/ CpuInit \/ CpuOther \/ CpuCall

\* A step of the CPU or of its caller is made of these parts.
LEMMA CpuParts ==
    ASSUME Cpu \/ Caller
    PROVE  CpuStep /\ UNCHANGED hardware
BY DEF Cpu, Caller, CpuStep

-----------------------------------------------------------------------------
\* The first element of a concatenation whose first part is a pair.
LEMMA FirstOfThree ==
    ASSUME NEW S, NEW x \in S, NEW y \in S, NEW u \in Seq(S), NEW v \in Seq(S)
    PROVE  (<<x, y>> \o u \o v)[1] = x
<1>1. <<x, y>> \in Seq(S) /\ Len(<<x, y>>) = 2 /\ <<x, y>>[1] = x
  OBVIOUS
<1>2. /\ <<x, y>> \o u \in Seq(S)
      /\ Len(<<x, y>> \o u) = 2 + Len(u)
      /\ (<<x, y>> \o u)[1] = x
  BY <1>1
<1> QED BY <1>2

\* SecondByte is a sequence of no byte or one.
LEMMA SecondByteType ==
    ASSUME NEW S, NEW tx1, TxChar(tx1, FALSE, FALSE) \in S
    PROVE  SecondByte(tx1) \in Seq(S)
<1> DEFINE op == TxChar(tx1, FALSE, FALSE)
<1>1. <<op>> \in Seq(S) /\ <<>> \in Seq(S)
  <2> op \in S
    OBVIOUS
  <2> HIDE DEF op
  <2> QED OBVIOUS
<1>2. CASE tx1 >= 0
  <2>1. SecondByte(tx1) = <<op>>
    BY <1>2, Zenon DEF SecondByte
  <2> QED BY <1>1, <2>1
<1>3. CASE ~(tx1 >= 0)
  <2>1. SecondByte(tx1) = <<>>
    BY <1>3, Zenon DEF SecondByte
  <2> QED BY <1>1, <2>1
<1> QED BY <1>2, <1>3

\* Every transaction begins with a START, and with a transmit.
LEMMA TxnBegins == \A t \in Txns : t[1].sta /\ ~t[1].rx
<1> SUFFICES ASSUME NEW t \in Txns PROVE t[1].sta /\ ~t[1].rx
  OBVIOUS
<1>1. CASE t = GeneralCallReset
  BY <1>1 DEF GeneralCallReset, TxChar
<1>2. ASSUME NEW a \in Addrs, NEW t0 \in Words, NEW t1 \in Words \cup {-1},
             t = ReadTxn(a, t0, t1)
      PROVE  t[1].sta /\ ~t[1].rx
  <2> DEFINE first == TxChar(2 * a, TRUE, FALSE)
             second == TxChar(t0, FALSE, FALSE)
             third == TxChar(t1, FALSE, FALSE)
             again == TxChar(2 * a + 1, TRUE, FALSE)
             r1 == RxChar(FALSE, FALSE)
             r2 == RxChar(TRUE, TRUE)
             S == {first, second, third, again, r1, r2}
  <2>1. t = <<first, second>> \o SecondByte(t1) \o <<again, r1, r2>>
    BY <1>2 DEF ReadTxn
  <2>2. first \in S /\ second \in S /\ <<again, r1, r2>> \in Seq(S)
    <3> HIDE DEF first, second, third, again, r1, r2
    <3> QED OBVIOUS
  <2>3. SecondByte(t1) \in Seq(S)
    <3>1. TxChar(t1, FALSE, FALSE) \in S
      OBVIOUS
    <3> HIDE DEF S
    <3> QED BY <3>1, SecondByteType
  <2>4. t[1] = first
    <3> HIDE DEF first, second, third, again, r1, r2, S
    <3> QED BY <2>1, <2>2, <2>3, FirstOfThree
  <2>5. first.sta /\ ~first.rx
    BY DEF TxChar
  <2> HIDE DEF first
  <2> QED BY <2>4, <2>5
<1>3. ASSUME NEW a \in Addrs, NEW t0 \in Words, NEW t1 \in Words \cup {-1},
             NEW d0 \in Words, NEW d1 \in Words,
             t = WriteTxn(a, t0, t1, d0, d1)
      PROVE  t[1].sta /\ ~t[1].rx
  <2> DEFINE first == TxChar(2 * a, TRUE, FALSE)
             second == TxChar(t0, FALSE, FALSE)
             third == TxChar(t1, FALSE, FALSE)
             w0 == TxChar(d0, FALSE, FALSE)
             w1 == TxChar(d1, FALSE, TRUE)
             S == {first, second, third, w0, w1}
  <2>1. t = <<first, second>> \o SecondByte(t1) \o <<w0, w1>>
    BY <1>3 DEF WriteTxn
  <2>2. first \in S /\ second \in S /\ <<w0, w1>> \in Seq(S)
    <3> HIDE DEF first, second, third, w0, w1
    <3> QED OBVIOUS
  <2>3. SecondByte(t1) \in Seq(S)
    <3>1. TxChar(t1, FALSE, FALSE) \in S
      OBVIOUS
    <3> HIDE DEF S
    <3> QED BY <3>1, SecondByteType
  <2>4. t[1] = first
    <3> HIDE DEF first, second, third, w0, w1, S
    <3> QED BY <2>1, <2>2, <2>3, FirstOfThree
  <2>5. first.sta /\ ~first.rx
    BY DEF TxChar
  <2> HIDE DEF first
  <2> QED BY <2>4, <2>5
<1>4. CASE t \in {ReadTxn(a, t0, t1) : a \in Addrs, t0 \in Words, t1 \in Words \cup {-1}}
  <2>1. PICK a \in Addrs, t0 \in Words, t1 \in Words \cup {-1} : t = ReadTxn(a, t0, t1)
    BY <1>4
  <2> QED BY <1>2, <2>1
<1>5. CASE t \in {WriteTxn(a, t0, t1, d0, d1) :
                   a \in Addrs, t0 \in Words, t1 \in Words \cup {-1},
                   d0 \in Words, d1 \in Words}
  <2>1. PICK a \in Addrs, t0 \in Words, t1 \in Words \cup {-1}, d0 \in Words, d1 \in Words :
          t = WriteTxn(a, t0, t1, d0, d1)
    BY <1>5
  <2> QED BY <1>3, <2>1
<1> QED BY <1>1, <1>4, <1>5 DEF Txns

-----------------------------------------------------------------------------
\* A clock keeps the invariant.
LEMMA TickInv ==
    ASSUME IInv, Bit!Next, Byte!Tick, CsrTick, DriverTick, OutcomeTick
    PROVE  IInv'
<1>1. Bit!Next /\ Byte!Tick /\ CsrTick /\ DriverTick /\ OutcomeTick
  OBVIOUS
<1>2. Handshake'
  BY <1>1, ByteStep, BitStep DEF IInv, Handshake
<1>3. ResetOver'
  BY <1>1 DEF CsrTick, ResetOver
<1>4. pc' = pc
  BY <1>1 DEF DriverTick
<1>5. ASSUME Settled PROVE Settled'
  <2>1. ~Go
    BY <1>5 DEF Settled, NoCommand, Go
  <2>2. byte_state' = "IDLE" /\ ~done'
    BY <1>1, <1>5, <2>1, ByteStep DEF IInv, Settled
  <2>3. command' = NoCommand
    BY <1>1, <1>5 DEF CsrTick, CommandAfter, Settled, NoCommand
  <2> QED BY <1>2, <2>2, <2>3 DEF Settled, Handshake
<1>6. Resting'
  BY <1>1, <1>4, <1>5, BitStep DEF IInv, Resting, Settled
<1>7. Underway'
  <2> SUFFICES ASSUME pc = "wait", outcome' = "pending" PROVE Underway'
    BY <1>4 DEF Underway
  <2>1. outcome = "pending" /\ ~done /\ ~i2c_al
    BY <1>1 DEF OutcomeTick
  <2>2. /\ command'.RD = command.RD /\ command'.WR = command.WR
        /\ command'.STA = command.STA
    BY <1>1, <2>1 DEF CsrTick, CommandAfter
  <2>3. tip' = (command.RD \/ command.WR)
    BY <1>1 DEF CsrTick
  <2> QED BY <1>1, <2>1, <2>2, <2>3 DEF CsrTick, IInv, Underway
<1>8. Over'
  <2> SUFFICES ASSUME pc = "wait", outcome' # "pending" PROVE Over'
    BY <1>4 DEF Over
  <2>1. CASE outcome = "pending" /\ i2c_al
    <3>1. ~done /\ outcome' = "lost"
      BY <1>1, <2>1 DEF OutcomeTick, IInv, Handshake
    <3>2. tip' /\ arb_lost' /\ command' = NoCommand
      BY <1>1, <2>1 DEF CsrTick, CommandAfter, IInv, Underway
    <3>3. byte_state' = "IDLE" /\ ~done'
      BY <1>1, <2>1, ByteStep DEF IInv
    <3> QED BY <1>2, <3>1, <3>2, <3>3 DEF Over, Settled, Handshake
  <2>2. CASE outcome = "pending" /\ ~i2c_al
    <3>1. done /\ outcome' = "done"
      BY <1>1, <2>2 DEF OutcomeTick
    <3>2. byte_state = "IDLE" /\ serving = "NOP" /\ ~core_ack
      BY <3>1 DEF IInv, Handshake
    <3>3. byte_state' = "IDLE" /\ ~done'
      BY <1>1, <3>1, <3>2, ByteStep DEF IInv, Go
    <3>4. ~i2c_al'
      BY <1>1, <3>2, BitStep
    <3>5. ~arb_lost' /\ command' = NoCommand
      BY <1>1, <2>2, <3>1 DEF CsrTick, CommandAfter, IInv, Underway
    <3> QED BY <1>2, <3>1, <3>3, <3>4, <3>5 DEF Over, Settled, Handshake
  <2>3. CASE outcome # "pending"
    <3>1. Settled /\ (arb_lost <=> outcome = "lost") /\ outcome \in {"done", "lost"}
      BY <2>3 DEF IInv, Over
    <3>2. Settled' /\ ~i2c_al'
      BY <1>1, <1>5, <3>1, BitStep DEF Settled
    <3>3. outcome' = IF i2c_al THEN "lost" ELSE outcome
      BY <1>1, <3>1 DEF OutcomeTick, Settled
    <3>4. arb_lost' = (i2c_al \/ arb_lost)
      BY <1>1, <3>1 DEF CsrTick, Settled, NoCommand
    <3> QED BY <3>1, <3>2, <3>3, <3>4 DEF Over
  <2> QED BY <2>1, <2>2, <2>3
<1>9. LossEndsTxn'
  <2>1. CASE pc = "wait"
    BY <1>4, <2>1 DEF LossEndsTxn
  <2>2. CASE pc # "wait"
    <3>1. ~command.STA /\ ~i2c_al
      BY <2>2 DEF IInv, Resting, Settled, NoCommand
    <3>2. arb_lost' <=> arb_lost
      BY <1>1, <3>1 DEF CsrTick
    <3> QED BY <1>1, <3>2 DEF DriverTick, IInv, LossEndsTxn
  <2> QED BY <2>1, <2>2
<1> QED BY <1>2, <1>3, <1>6, <1>7, <1>8, <1>9 DEF IInv

-----------------------------------------------------------------------------
\* A step of the CPU keeps the invariant.
LEMMA CpuInv ==
    ASSUME IInv, CpuStep, UNCHANGED hardware
    PROVE  IInv'
<1> USE DelayAssumption
<1>1. UNCHANGED hardware /\ UNCHANGED <<tip, intflag, arb_lost>>
  BY DEF CpuStep, CpuCommand, CpuInit, CpuOther, CpuCall, CommandStore, InitCoreReset,
         InitPrescale, InitControl, TxrStore, PollBusy, PollDone, ReadRxr, Advance, Return,
         Call, WriteCoreReset, WritePrescale, WriteControl, WriteTxr, WriteCommand, csr
<1>2. Handshake'
  BY <1>1 DEF IInv, Handshake, hardware, byteregs, bitouts
<1>3. CASE CpuCommand
  <2>1. /\ pc = "command" /\ pc' = "wait" /\ elapsed' = 0 /\ outcome' = "pending"
        /\ command' = CommandOf(txn[k]) /\ core_reset' = core_reset
    BY <1>3 DEF CpuCommand, CommandStore, Access, WriteCommand
  <2>2. command'.RD \/ command'.WR
    BY <2>1 DEF CommandOf
  <2>3. arb_lost' => command'.STA
    BY <1>1, <2>1 DEF CommandOf, IInv, LossEndsTxn
  <2>4. ~core_reset'
    BY <2>1 DEF IInv, ResetOver
  <2> QED
    BY <1>2, <2>1, <2>2, <2>3, <2>4
       DEF IInv, ResetOver, Resting, Underway, Over, LossEndsTxn
<1>4. CASE InitCoreReset /\ UNCHANGED history
  <2>1. pc = "core_reset" /\ pc' = "prescale" /\ elapsed' = 0 /\ command' = command
    BY <1>4 DEF InitCoreReset, Access, WriteCoreReset
  <2>2. Settled' /\ ~i2c_al'
    BY <1>1, <2>1 DEF IInv, Resting, Settled, hardware, byteregs, bitouts
  <2> QED
    BY <1>2, <2>1, <2>2 DEF IInv, ResetOver, Resting, Underway, Over, LossEndsTxn
<1>5. CASE (InitPrescale \/ InitControl) /\ UNCHANGED history
  <2>1. /\ pc \in {"prescale", "control"} /\ pc' \in {"control", "idle"}
        /\ elapsed # 0 /\ command' = command /\ core_reset' = core_reset
    BY <1>5 DEF InitPrescale, InitControl, Access, WritePrescale, WriteControl
  <2>2. Settled' /\ ~i2c_al'
    BY <1>1, <2>1 DEF IInv, Resting, Settled, hardware, byteregs, bitouts
  <2> QED
    BY <1>2, <2>1, <2>2 DEF IInv, ResetOver, Resting, Underway, Over, LossEndsTxn
<1>6. CASE (TxrStore \/ ReadRxr) /\ UNCHANGED history
  <2>1. /\ \/ pc = "txr" /\ pc' = "command"
           \/ pc = "rxr" /\ pc' = "check"
        /\ command' = command /\ core_reset' = core_reset
        /\ UNCHANGED <<txn, k, status>>
    BY <1>6 DEF TxrStore, ReadRxr, Access, WriteTxr, csr
  <2>2. Settled' /\ ~i2c_al'
    BY <1>1, <2>1 DEF IInv, Resting, Settled, hardware, byteregs, bitouts
  <2>3. LossEndsTxn'
    BY <1>1, <2>1 DEF IInv, LossEndsTxn
  <2> QED BY <1>2, <2>1, <2>2, <2>3 DEF IInv, ResetOver, Resting, Underway, Over
<1>7. CASE PollBusy /\ UNCHANGED history
  <2>1. /\ pc = "wait" /\ pc' = "wait" /\ tip /\ elapsed' = 0
        /\ command' = command /\ core_reset' = core_reset /\ outcome' = outcome
    BY <1>7 DEF PollBusy, csr, history
  <2> QED
    BY <1>1, <1>2, <2>1
       DEF IInv, ResetOver, Resting, Underway, Over, LossEndsTxn, Settled,
           hardware, byteregs, bitouts
<1>8. CASE PollDone /\ UNCHANGED history
  <2>1. /\ pc = "wait" /\ ~tip /\ elapsed >= NopDelay
        /\ pc' \in {"rxr", "check"} /\ status'.ArbLost = arb_lost
        /\ command' = command /\ core_reset' = core_reset
    BY <1>8 DEF PollDone, PollReady, csr
  <2>2. elapsed # 0
    BY <2>1
  <2>3. outcome # "pending"
    BY <2>1, <2>2 DEF IInv, Underway
  <2>4. Settled /\ ~i2c_al
    BY <2>1, <2>3 DEF IInv, Over
  <2>5. Settled' /\ ~i2c_al'
    BY <1>1, <2>1, <2>4 DEF Settled, hardware, byteregs, bitouts
  <2> QED
    BY <1>1, <1>2, <2>1, <2>5 DEF IInv, ResetOver, Resting, Underway, Over, LossEndsTxn
<1>9. CASE (Advance \/ Return \/ \E t \in Txns : Call(t)) /\ UNCHANGED outcome
  <2>1. /\ pc \in {"check", "idle"} /\ pc' \in {"txr", "command", "idle"}
        /\ command' = command /\ core_reset' = core_reset
    BY <1>9 DEF Advance, Return, Call, Begin, csr
  <2>2. Settled' /\ ~i2c_al'
    BY <1>1, <2>1 DEF IInv, Resting, Settled, hardware, byteregs, bitouts
  <2>3. LossEndsTxn'
    <3>1. CASE Advance
      BY <1>1, <2>1, <3>1 DEF Advance, Failed, IInv, LossEndsTxn
    <3>2. CASE Return
      BY <3>2 DEF Return, LossEndsTxn
    <3>3. CASE \E t \in Txns : Call(t)
      BY <2>1, <3>3, TxnBegins DEF Call, LossEndsTxn
    <3> QED BY <1>9, <3>1, <3>2, <3>3
  <2> QED BY <1>2, <2>1, <2>2, <2>3 DEF IInv, ResetOver, Resting, Underway, Over
<1> QED
  BY <1>3, <1>4, <1>5, <1>6, <1>7, <1>8, <1>9
     DEF CpuStep, CpuInit, CpuOther, CpuCall, history

-----------------------------------------------------------------------------
\* The invariant holds in every reachable state.
THEOREM Invariance == Spec => []IInv
<1>1. Init => IInv
  BY DEF Init, CsrInit, Byte!Init, Bit!Init, DriverInit, HistoryInit, IInv, Handshake,
         ResetOver, Resting, Underway, Over, LossEndsTxn, Settled, NoCommand
<1>2. IInv /\ [Next]_vars => IInv'
  <2> SUFFICES ASSUME IInv, [Next]_vars PROVE IInv'
    OBVIOUS
  <2>1. CASE Tick
    BY <2>1, TickParts, TickInv
  <2>2. CASE Cpu \/ Caller
    BY <2>2, CpuParts, CpuInv
  <2>3. CASE UNCHANGED vars
    BY <2>3
       DEF vars, csr, hardware, byteregs, bitouts, driver, history, IInv, Handshake,
           ResetOver, Resting, Underway, Over, LossEndsTxn, Settled
  <2> QED BY <2>1, <2>2, <2>3 DEF Next
<1> QED BY <1>1, <1>2, PTL DEF Spec

\* TipSound (I2CTransfer): TIP = 0, read after nop_delay, means that the command
\* is over and the core at rest.
THEOREM TipIsSound == Spec => []TipSound
<1>1. IInv => TipSound
  <2> SUFFICES ASSUME IInv, TipClear PROVE TipSound
    BY DEF TipSound
  <2>1. pc = "wait" /\ elapsed # 0 /\ ~tip
    BY DelayAssumption DEF TipClear, PollReady
  <2>2. outcome # "pending"
    BY <2>1 DEF IInv, Underway
  <2> QED BY <2>1, <2>2 DEF IInv, Over, Settled, TipSound
<1> QED BY <1>1, Invariance, PTL

\* ArbLostTruthful (I2CSession): the ArbLost flag read with TIP = 0 is that of
\* the command just ended.
THEOREM ArbLostIsTruthful == Spec => []ArbLostTruthful
<1>1. IInv => ArbLostTruthful
  <2> SUFFICES ASSUME IInv, TipClear PROVE arb_lost <=> outcome = "lost"
    BY DEF ArbLostTruthful
  <2>1. pc = "wait" /\ elapsed # 0 /\ ~tip
    BY DelayAssumption DEF TipClear, PollReady
  <2>2. outcome # "pending"
    BY <2>1 DEF IInv, Underway
  <2> QED BY <2>1, <2>2 DEF IInv, Over
<1> QED BY <1>1, Invariance, PTL

\* EndsOnce (I2CSession): a command ends once, by done or by a loss.
THEOREM CommandEndsOnce == Spec => []EndsOnce
<1>1. IInv => EndsOnce
  BY DEF IInv, Handshake, Resting, Over, Settled, EndsOnce
<1> QED BY <1>1, Invariance, PTL

-----------------------------------------------------------------------------
(* The bit on offer.                                                       *)

\* The bit that the byte controller is to put on the bus.
Offered == IF byte_state = "ACK" THEN command.ACK ELSE Byte!Msb(rxr)

\* While a bit command is served the shift register stands still, and from
\* the second clock on its bit is on offer.
Offering == serving # "NOP" => ~shift /\ ~ld /\ (age # 0 => core_txd = Offered)

\* A byte controller that waits for its bit command does nothing else.
LEMMA WaitsForBit ==
    ASSUME Byte!Tick, ~core_reset, ~i2c_al, byte_state # "IDLE", ~core_ack
    PROVE  Byte!Pending
BY DEF Byte!Tick, Byte!StateMachine, Byte!Abort, Byte!Idle, Byte!Started, Byte!BitWritten,
       Byte!BitRead, Byte!Acknowledged, Byte!Stopped

\* In a clock of a bit command that goes on, what is offered then is what was
\* to be offered, and the same is to be offered again.
LEMMA OfferHolds ==
    ASSUME IInv, Offering, Bit!Next, Byte!Tick, CsrTick, serving # "NOP", serving' # "NOP"
    PROVE  core_txd' = Offered /\ Offered' = Offered /\ ~shift' /\ ~ld'
<1>1. Bit!Next /\ Byte!Tick /\ CsrTick
  OBVIOUS
<1>2. ~core_reset /\ ~i2c_al
  BY <1>1, BitStep
<1>3. byte_state # "IDLE" /\ ~core_ack /\ ~done
  BY DEF IInv, Handshake
<1>4. Byte!Pending
  BY <1>1, <1>2, <1>3, WaitsForBit
<1>5. core_txd' = Offered /\ byte_state' = byte_state /\ ~shift' /\ ~ld'
  BY <1>4 DEF Byte!Pending, Byte!Strobes, Offered
<1>6. rxr' = rxr
  BY <1>1, <1>2 DEF Byte!Tick, Byte!ShiftRegister, Offering
<1>7. command'.ACK = command.ACK
  BY <1>1, <1>2, <1>3 DEF CsrTick, CommandAfter
<1>8. Offered' = Offered
  BY <1>5, <1>6, <1>7 DEF Offered, Byte!Msb
<1>9. QED
  BY <1>5, <1>8

\* A clock keeps the offer.
LEMMA TickOffering ==
    ASSUME IInv, Offering, Bit!Next, Byte!Tick, CsrTick
    PROVE  Offering'
<1> SUFFICES ASSUME serving' # "NOP" PROVE Offering'
  BY DEF Offering
<1>1. Bit!Next /\ Byte!Tick
  OBVIOUS
<1>2. CASE serving # "NOP"
  BY <1>2, OfferHolds DEF Offering
<1>3. CASE serving = "NOP"
  <2>1. ~core_reset /\ ~i2c_al /\ ~core_ack /\ core_cmd # "NOP" /\ age' = 0
    BY <1>1, <1>3 DEF Bit!Next, Bit!Abort, Bit!Accept, Bit!Rest, Bit!Work, Bit!Finish, Bit!Free
  <2>2. byte_state # "IDLE"
    BY <2>1 DEF IInv, Handshake
  <2>3. Byte!Pending
    BY <1>1, <2>1, <2>2, WaitsForBit
  <2>4. QED
    BY <2>1, <2>3 DEF Byte!Pending, Byte!Strobes, Offering
<1>4. QED
  BY <1>2, <1>3

\* The CPU writes the command register only while no bit command is served.
LEMMA CpuOffering ==
    ASSUME IInv, Offering, CpuStep, UNCHANGED hardware
    PROVE  Offering'
<1>1. UNCHANGED hardware
  OBVIOUS
<1>2. CASE CpuCommand
  BY <1>1, <1>2
  DEF CpuCommand, CommandStore, Access, IInv, Resting, Settled, Offering, hardware
<1>3. CASE ~CpuCommand
  <2>1. command' = command
    BY <1>3
    DEF CpuStep, CpuInit, CpuOther, CpuCall, InitCoreReset, InitPrescale, InitControl,
        TxrStore, PollBusy, PollDone, ReadRxr, Advance, Return, Call, WriteCoreReset,
        WritePrescale, WriteControl, WriteTxr, csr
  <2>2. QED
    BY <1>1, <2>1 DEF Offering, Offered, Byte!Msb, hardware, byteregs
<1>4. QED
  BY <1>2, <1>3

\* So the offer is kept in every reachable state.
LEMMA OfferInvariance == Spec => []Offering
<1>1. Init => Offering
  BY DEF Init, Bit!Init, Offering
<1>2. IInv /\ Offering /\ [Next]_vars => Offering'
  <2>1. CASE UNCHANGED vars
    BY <2>1 DEF vars, csr, hardware, byteregs, Offering, Offered, Byte!Msb
  <2>2. QED
    BY <2>1, TickParts, TickOffering, CpuParts, CpuOffering DEF Next
<1>3. QED
  BY <1>1, <1>2, Invariance, PTL DEF Spec

\* TxdStable (I2CTransfer): the data bit does not change once the bit
\* controller may sample it (rtl/i2c/i2c_controller_byte_ctrl.v:225), however
\* long it takes to do so and from whichever clock after the first.
THEOREM TxdIsStable == Spec => TxdStable
<1>1. IInv /\ Offering /\ [Next]_vars =>
        [serving = "WRITE" /\ age = Setup /\ serving' = "WRITE" /\ ~i2c_al
           => core_txd' = core_txd]_vars
  <2> SUFFICES ASSUME IInv, Offering, [Next]_vars,
                      serving = "WRITE", age = Setup, serving' = "WRITE"
               PROVE  core_txd' = core_txd
    OBVIOUS
  <2>1. core_txd = Offered
    BY TransferAssumption DEF Offering
  <2>2. CASE Tick
    BY <2>1, <2>2, TickParts, OfferHolds
  <2>3. CASE ~Tick
    BY <2>3 DEF Next, Cpu, Caller, vars, hardware, byteregs
  <2>4. QED
    BY <2>2, <2>3
<1>2. QED
  BY <1>1, Invariance, OfferInvariance, PTL DEF Spec, TxdStable

-----------------------------------------------------------------------------
(* The transactions as sequences of operations.                            *)

\* A sequence of two elements, of one or none, and of two or more.
LEMMA ConcatOfThree ==
    ASSUME NEW S, NEW x \in S, NEW y \in S, NEW u \in Seq(S), NEW v \in Seq(S)
    PROVE  /\ <<x, y>> \o u \o v \in Seq(S)
           /\ Len(<<x, y>> \o u \o v) = 2 + Len(u) + Len(v)
           /\ (<<x, y>> \o u \o v)[1] = x /\ (<<x, y>> \o u \o v)[2] = y
           /\ \A j \in 1..Len(u) : (<<x, y>> \o u \o v)[2 + j] = u[j]
           /\ \A j \in 1..Len(v) : (<<x, y>> \o u \o v)[2 + Len(u) + j] = v[j]
<1> DEFINE a == <<x, y>>
           b == a \o u
           c == b \o v
<1>1. a \in Seq(S) /\ Len(a) = 2 /\ a[1] = x /\ a[2] = y
  OBVIOUS
<1> HIDE DEF a
<1>2. Len(u) \in Nat /\ Len(v) \in Nat
  BY LenProperties
<1>3. /\ b \in Seq(S) /\ Len(b) = 2 + Len(u)
      /\ \A i \in 1..(2 + Len(u)) : b[i] = IF i <= 2 THEN a[i] ELSE u[i - 2]
  <2>1. /\ b \in Seq(S) /\ Len(b) = Len(a) + Len(u)
        /\ \A i \in 1 .. Len(a) + Len(u) : b[i] = IF i <= Len(a) THEN a[i] ELSE u[i - Len(a)]
    BY <1>1, ConcatProperties
  <2>2. QED
    BY <1>1, <2>1
<1> HIDE DEF b
<1>4. /\ c \in Seq(S) /\ Len(c) = 2 + Len(u) + Len(v)
      /\ \A i \in 1..(2 + Len(u) + Len(v)) :
            c[i] = IF i <= 2 + Len(u) THEN b[i] ELSE v[i - (2 + Len(u))]
  <2>1. /\ c \in Seq(S) /\ Len(c) = Len(b) + Len(v)
        /\ \A i \in 1 .. Len(b) + Len(v) : c[i] = IF i <= Len(b) THEN b[i] ELSE v[i - Len(b)]
    BY <1>3, ConcatProperties
  <2>2. QED
    BY <1>3, <2>1
<1> HIDE DEF c
<1>5. c[1] = x /\ c[2] = y
  BY <1>1, <1>2, <1>3, <1>4
<1>6. ASSUME NEW j \in 1..Len(u) PROVE c[2 + j] = u[j]
  <2>1. 2 + j \in 1..(2 + Len(u)) /\ 2 + j \in 1..(2 + Len(u) + Len(v)) /\ (2 + j) - 2 = j
        /\ ~(2 + j <= 2)
    BY <1>2
  <2>2. QED
    BY <1>3, <1>4, <2>1
<1>7. ASSUME NEW j \in 1..Len(v) PROVE c[2 + Len(u) + j] = v[j]
  <2>1. /\ 2 + Len(u) + j \in 1..(2 + Len(u) + Len(v))
        /\ (2 + Len(u) + j) - (2 + Len(u)) = j /\ ~(2 + Len(u) + j <= 2 + Len(u))
    BY <1>2
  <2>2. QED
    BY <1>4, <2>1
<1>8. QED
  BY <1>4, <1>5, <1>6, <1>7 DEF a, b, c

\* What a transaction is: operations, of which the last two, or none, receive.
WellFormed(t) ==
    /\ t \in Seq(Op) /\ Len(t) \in Nat /\ Len(t) >= 2
    /\ ~t[1].rx
    /\ \A i \in 1..Len(t) : t[i].rx <=> t[Len(t)].rx /\ i >= Len(t) - 1

\* What an i2c_tx_char sends is a byte, whatever it is given.
LEMMA CharTypes ==
    /\ \A n \in Int, sta \in BOOLEAN, sto \in BOOLEAN :
          TxChar(n, sta, sto) \in Op /\ ~TxChar(n, sta, sto).rx
    /\ \A nack \in BOOLEAN, sto \in BOOLEAN : RxChar(nack, sto) \in Op /\ RxChar(nack, sto).rx
<1>1. ASSUME NEW n \in Int PROVE n % 256 \in 0..255
  OBVIOUS
<1>2. QED
  BY <1>1 DEF TxChar, RxChar, Op

\* The second byte of an address is a transmit, if there is one.
LEMMA SecondByteShape ==
    ASSUME NEW tx1 \in Words \cup {-1}
    PROVE  /\ SecondByte(tx1) \in Seq(Op) /\ Len(SecondByte(tx1)) \in {0, 1}
           /\ \A j \in 1..Len(SecondByte(tx1)) : ~SecondByte(tx1)[j].rx
<1>1. CASE tx1 >= 0
  <2> DEFINE op == TxChar(tx1, FALSE, FALSE)
  <2>1. tx1 \in Int
    BY AddrsAssumption
  <2>2. op \in Op /\ ~op.rx
    BY <2>1, CharTypes
  <2>3. SecondByte(tx1) = <<op>>
    BY <1>1 DEF SecondByte
  <2> HIDE DEF op
  <2>4. QED
    BY <2>2, <2>3
<1>2. CASE ~(tx1 >= 0)
  BY <1>2, EmptySeq DEF SecondByte
<1>3. QED
  BY <1>1, <1>2

\* A middle of no operation or one between two that transmit and a tail.
LEMMA Assembled ==
    ASSUME NEW x \in Op, NEW y \in Op, NEW u \in Seq(Op), NEW v \in Seq(Op),
           ~x.rx, ~y.rx, Len(u) \in {0, 1}, \A j \in 1..Len(u) : ~u[j].rx,
           Len(v) \in Nat, Len(v) >= 2,
           \A j \in 1..Len(v) : v[j].rx <=> v[Len(v)].rx /\ j >= Len(v) - 1
    PROVE  WellFormed(<<x, y>> \o u \o v)
<1> DEFINE t == <<x, y>> \o u \o v
           n == 2 + Len(u)
<1>1. /\ t \in Seq(Op) /\ Len(t) = n + Len(v) /\ t[1] = x /\ t[2] = y
      /\ \A j \in 1..Len(u) : t[2 + j] = u[j]
      /\ \A j \in 1..Len(v) : t[n + j] = v[j]
  BY ConcatOfThree
<1> HIDE DEF t
<1>2. t[Len(t)] = v[Len(v)]
  BY <1>1
<1>3. ASSUME NEW i \in 1..Len(t)
      PROVE  t[i].rx <=> t[Len(t)].rx /\ i >= Len(t) - 1
  <2>1. CASE i > n
    <3>1. i - n \in 1..Len(v) /\ n + (i - n) = i
      BY <1>1, <2>1
    <3>2. t[i] = v[i - n]
      BY <1>1, <3>1
    <3>3. v[i - n].rx <=> v[Len(v)].rx /\ i - n >= Len(v) - 1
      BY <3>1
    <3>4. i - n >= Len(v) - 1 <=> i >= Len(t) - 1
      BY <1>1
    <3>5. QED
      BY <1>2, <3>2, <3>3, <3>4
  <2>2. CASE i <= n
    <3>1. i = 1 \/ i = 2 \/ \E j \in 1..Len(u) : i = 2 + j
      <4>1. i > 2 => i - 2 \in 1..Len(u) /\ i = 2 + (i - 2)
        BY <2>2
      <4>2. QED
        BY <1>1, <4>1
    <3>2. ~t[i].rx
      BY <1>1, <3>1
    <3>3. i < Len(t) - 1
      BY <1>1, <2>2
    <3>4. QED
      BY <1>1, <3>2, <3>3
  <2>3. QED
    BY <2>1, <2>2
<1>4. QED
  BY <1>1, <1>3 DEF WellFormed, t

\* Every transaction of the driver is well formed.
LEMMA TxnsWellFormed == \A t \in Txns : WellFormed(t)
<1> USE AddrsAssumption
<1>1. ASSUME NEW a \in Addrs PROVE 2 * a \in Int /\ 2 * a + 1 \in Int
  OBVIOUS
<1>2. ASSUME NEW a \in Addrs, NEW t0 \in Words, NEW t1 \in Words \cup {-1}
      PROVE  WellFormed(ReadTxn(a, t0, t1))
  <2> DEFINE x == TxChar(2 * a, TRUE, FALSE)
             y == TxChar(t0, FALSE, FALSE)
             z == TxChar(2 * a + 1, TRUE, FALSE)
             r1 == RxChar(FALSE, FALSE)
             r2 == RxChar(TRUE, TRUE)
  <2>1. x \in Op /\ y \in Op /\ z \in Op /\ ~x.rx /\ ~y.rx /\ ~z.rx
    <3>1. 2 * a \in Int /\ t0 \in Int /\ 2 * a + 1 \in Int
      BY <1>1
    <3>2. QED
      BY <3>1, CharTypes
  <2>2. r1 \in Op /\ r2 \in Op /\ r1.rx /\ r2.rx
    BY CharTypes
  <2>3. ReadTxn(a, t0, t1) = <<x, y>> \o SecondByte(t1) \o <<z, r1, r2>>
    BY DEF ReadTxn
  <2> HIDE DEF x, y, z, r1, r2
  <2> DEFINE v == <<z, r1, r2>>
  <2>4. v \in Seq(Op) /\ Len(v) = 3 /\ v[1] = z /\ v[2] = r1 /\ v[3] = r2
    BY <2>1, <2>2
  <2> HIDE DEF v
  <2>5. \A j \in 1..Len(v) : v[j].rx <=> v[Len(v)].rx /\ j >= Len(v) - 1
    BY <2>1, <2>2, <2>4
  <2>6. WellFormed(<<x, y>> \o SecondByte(t1) \o v)
    <3> DEFINE u == SecondByte(t1)
    <3>1. u \in Seq(Op) /\ Len(u) \in {0, 1} /\ \A j \in 1..Len(u) : ~u[j].rx
      BY SecondByteShape
    <3>2. Len(v) \in Nat /\ Len(v) >= 2
      BY <2>4
    <3> HIDE DEF u
    <3>3. WellFormed(<<x, y>> \o u \o v)
      BY <2>1, <2>4, <2>5, <3>1, <3>2, Assembled
    <3>4. QED
      BY <3>3 DEF u
  <2>7. QED
    BY <2>3, <2>6 DEF v
<1>3. ASSUME NEW a \in Addrs, NEW t0 \in Words, NEW t1 \in Words \cup {-1},
             NEW d0 \in Words, NEW d1 \in Words
      PROVE  WellFormed(WriteTxn(a, t0, t1, d0, d1))
  <2> DEFINE x == TxChar(2 * a, TRUE, FALSE)
             y == TxChar(t0, FALSE, FALSE)
             w0 == TxChar(d0, FALSE, FALSE)
             w1 == TxChar(d1, FALSE, TRUE)
  <2>1. x \in Op /\ y \in Op /\ w0 \in Op /\ w1 \in Op /\ ~x.rx /\ ~y.rx /\ ~w0.rx /\ ~w1.rx
    <3>1. 2 * a \in Int /\ t0 \in Int /\ d0 \in Int /\ d1 \in Int
      BY <1>1
    <3>2. QED
      BY <3>1, CharTypes
  <2>2. WriteTxn(a, t0, t1, d0, d1) = <<x, y>> \o SecondByte(t1) \o <<w0, w1>>
    BY DEF WriteTxn
  <2> HIDE DEF x, y, w0, w1
  <2> DEFINE v == <<w0, w1>>
  <2>3. v \in Seq(Op) /\ Len(v) = 2 /\ v[1] = w0 /\ v[2] = w1
    BY <2>1
  <2> HIDE DEF v
  <2>4. \A j \in 1..Len(v) : v[j].rx <=> v[Len(v)].rx /\ j >= Len(v) - 1
    BY <2>1, <2>3
  <2>5. WellFormed(<<x, y>> \o SecondByte(t1) \o v)
    <3> DEFINE u == SecondByte(t1)
    <3>1. u \in Seq(Op) /\ Len(u) \in {0, 1} /\ \A j \in 1..Len(u) : ~u[j].rx
      BY SecondByteShape
    <3>2. Len(v) \in Nat /\ Len(v) >= 2
      BY <2>3
    <3> HIDE DEF u
    <3>3. WellFormed(<<x, y>> \o u \o v)
      BY <2>1, <2>3, <2>4, <3>1, <3>2, Assembled
    <3>4. QED
      BY <3>3 DEF u
  <2>6. QED
    BY <2>2, <2>5 DEF v
<1>4. WellFormed(GeneralCallReset)
  <2> DEFINE x == TxChar(0, TRUE, FALSE)
             y == TxChar(6, FALSE, TRUE)
  <2>1. x \in Op /\ y \in Op /\ ~x.rx /\ ~y.rx
    <3>1. 0 \in Int /\ 6 \in Int
      OBVIOUS
    <3>2. QED
      BY <3>1, CharTypes
  <2>2. GeneralCallReset = <<x, y>>
    BY DEF GeneralCallReset
  <2> HIDE DEF x, y
  <2>3. QED
    BY <2>1, <2>2 DEF WellFormed
<1>5. QED
  BY <1>2, <1>3, <1>4 DEF Txns

-----------------------------------------------------------------------------
(* Types.                                                                  *)

Busy == {"txr", "command", "wait", "rxr", "check"}

\* A transaction in progress is at one of its operations, and rx holds what
\* its operations so far have received: two bytes at the end of a read.
Placed ==
    pc \in Busy =>
        /\ txn \in Txns /\ k \in 1..Len(txn)
        /\ pc = "rxr" => txn[k].rx
        /\ Len(rx) = IF ~txn[k].rx THEN 0
                     ELSE IF pc = "check" THEN k - Len(txn) + 2 ELSE k - Len(txn) + 1

\* One clock of the byte controller keeps its types.
LEMMA ByteTypeStep ==
    ASSUME CsrTypeOK, Byte!TypeOK, Bit!TypeOK, Byte!Tick
    PROVE  Byte!TypeOK'
<1> USE DEF Byte!TypeOK
<1>1. rxr' \in 0..255
  <2>1. txr \in 0..255 /\ rxr \in 0..255
    BY DEF CsrTypeOK
  <2>2. ASSUME NEW b \in {0, 1} PROVE ((2 * rxr) % 256) + b \in 0..255
    <3>1. CASE rxr < 128
      <4>1. (2 * rxr) % 256 = 2 * rxr
        BY <2>1, <3>1
      <4>2. QED
        BY <2>1, <3>1, <4>1
    <3>2. CASE rxr >= 128
      <4>1. (2 * rxr) % 256 = 2 * rxr - 256
        BY <2>1, <3>2
      <4>2. QED
        BY <2>1, <3>2, <4>1
    <3>3. QED
      BY <2>1, <3>1, <3>2
  <2>3. Byte!ShiftIn(rxr, core_rxd) \in 0..255
    BY <2>2 DEF Byte!ShiftIn, Byte!BitValue
  <2>4. QED
    BY <2>1, <2>3 DEF Byte!Tick, Byte!ShiftRegister
<1>2. dcnt' \in 0..7
  BY DEF Byte!Tick, Byte!BitCounter
<1>3. Byte!StateMachine
  BY DEF Byte!Tick
<1>4. byte_state' \in Byte!ByteStates /\ core_cmd' \in Byte!BitCommands
  BY <1>3
  DEF Byte!StateMachine, Byte!Abort, Byte!Idle, Byte!FirstCommand, Byte!Pending, Byte!Started,
      Byte!BitWritten, Byte!BitRead, Byte!Acknowledged, Byte!Stopped, Byte!Goto, Byte!ByteStates,
      Byte!BitCommands
<1>5. core_txd' \in BOOLEAN /\ rxack' \in BOOLEAN
  <2>1. command.ACK \in BOOLEAN /\ core_rxd \in BOOLEAN /\ rxack \in BOOLEAN
    BY DEF CsrTypeOK, Command, Bit!TypeOK
  <2>2. Byte!Msb(rxr) \in BOOLEAN
    BY DEF Byte!Msb
  <2>3. rxack' \in {FALSE, rxack, core_rxd} /\ core_txd' \in {FALSE, TRUE, command.ACK, Byte!Msb(rxr)}
    BY <1>3
    DEF Byte!StateMachine, Byte!Abort, Byte!Idle, Byte!Pending, Byte!Started, Byte!BitWritten,
        Byte!BitRead, Byte!Acknowledged, Byte!Stopped
  <2>4. QED
    BY <2>1, <2>2, <2>3
<1>6. shift' \in BOOLEAN /\ ld' \in BOOLEAN /\ done' \in BOOLEAN
  <2>1. Byte!cnt_done \in BOOLEAN
    BY DEF Byte!cnt_done
  <2>2. \E shifting, loading, acking \in BOOLEAN : Byte!Strobes(shifting, loading, acking)
    <3>1. (~Byte!cnt_done) \in BOOLEAN /\ (~(command.STO /\ ~done)) \in BOOLEAN
      OBVIOUS
    <3>2. QED
      BY <1>3, <3>1, Zenon
      DEF Byte!StateMachine, Byte!Abort, Byte!Idle, Byte!Pending, Byte!Started, Byte!BitWritten,
          Byte!BitRead, Byte!Acknowledged, Byte!Stopped
  <2>3. QED
    BY <2>2 DEF Byte!Strobes
<1>7. QED
  BY <1>1, <1>2, <1>4, <1>5, <1>6

\* One clock of the bit service keeps its types.
LEMMA BitTypeStep ==
    ASSUME Byte!TypeOK, Bit!TypeOK, Bit!Next
    PROVE  Bit!TypeOK'
<1> USE TransferAssumption DEF Bit!TypeOK, Bit!Commands
<1>0. 0 \in 0..Setup
  OBVIOUS
<1>1. CASE Bit!Abort
  BY <1>0, <1>1 DEF Bit!Abort
<1>2. CASE Bit!Accept
  BY <1>0, <1>2 DEF Bit!Accept, Byte!TypeOK, Byte!BitCommands
<1>3. CASE Bit!Rest
  BY <1>3 DEF Bit!Rest
<1>4. CASE Bit!Work
  BY <1>4 DEF Bit!Work
<1>5. CASE Bit!Finish
  BY <1>5 DEF Bit!Finish
<1>6. QED
  BY <1>1, <1>2, <1>3, <1>4, <1>5 DEF Bit!Next

\* A clock keeps the types of the core and of the driver, and the driver where
\* it is.
LEMMA TickCoreTypes ==
    ASSUME TypeOK, Placed, Bit!Next, Byte!Tick, CsrTick, DriverTick, OutcomeTick
    PROVE  /\ CsrTypeOK' /\ Byte!TypeOK' /\ Bit!TypeOK' /\ DriverTypeOK' /\ Placed'
           /\ outcome' \in {"none", "pending", "done", "lost"}
<1>1. CsrTypeOK'
  BY DEF TypeOK, CsrTypeOK, CsrTick, CommandAfter, Command, NoCommand, Byte!TypeOK, Bit!TypeOK
<1>2. Byte!TypeOK' /\ Bit!TypeOK'
  BY ByteTypeStep, BitTypeStep DEF TypeOK
<1>3. DriverTypeOK'
  BY DelayAssumption DEF TypeOK, DriverTypeOK, DriverTick
<1>4. outcome' \in {"none", "pending", "done", "lost"}
  BY DEF TypeOK, HistoryTypeOK, OutcomeTick
<1>5. Placed'
  BY DEF DriverTick, Placed
<1>6. QED
  BY <1>1, <1>2, <1>3, <1>4, <1>5

\* A clock keeps the types, and the driver where it is.
LEMMA TickTypes ==
    ASSUME TypeOK, Placed, Tick
    PROVE  TypeOK' /\ Placed'
<1>1. Bit!Next /\ Byte!Tick /\ CsrTick /\ DriverTick /\ OutcomeTick
  BY TickParts
<1>2. PeripheralTick /\ WireTick
  BY DEF Tick, TickAbort, TickAccept, TickRest, TickWork, TickFinish, Clock
<1>3. CsrTypeOK' /\ Byte!TypeOK' /\ Bit!TypeOK' /\ DriverTypeOK' /\ Placed'
  BY <1>1, TickCoreTypes
<1>4. HistoryTypeOK'
  <2>1. outcome' \in {"none", "pending", "done", "lost"}
    BY <1>1, TickCoreTypes
  <2>2. replies' \in Seq(0..255)
    BY <1>2 DEF TypeOK, HistoryTypeOK, PeripheralTick
  <2>3. wire' \in Seq(Symbols)
    <3> DEFINE symbol == IF serving \in {"READ", "WRITE"} THEN BitSymbol(core_rxd') ELSE serving
    <3>1. wire \in Seq(Symbols)
      BY DEF TypeOK, HistoryTypeOK
    <3>2. core_ack' => symbol \in Symbols
      <4>1. core_ack' => serving \in {"START", "STOP", "READ", "WRITE"}
        BY <1>1, BitStep DEF TypeOK, Bit!TypeOK, Bit!Commands
      <4>2. BitSymbol(core_rxd') \in {"0", "1"}
        BY DEF BitSymbol
      <4>3. QED
        BY <4>1, <4>2 DEF Symbols
    <3>3. wire' = wire \/ (core_ack' /\ wire' = Append(wire, symbol))
      BY <1>2 DEF WireTick
    <3> HIDE DEF symbol
    <3>4. QED
      BY <3>1, <3>2, <3>3, AppendProperties
  <2>4. QED
    BY <2>1, <2>2, <2>3 DEF HistoryTypeOK
<1>5. reply' \in 0..255 /\ left' \in 0..8
  BY <1>2 DEF TypeOK, PeripheralTick
<1>6. QED
  BY <1>3, <1>4, <1>5 DEF TypeOK

\* The operation at which a transaction in progress is.
LEMMA CurrentOp ==
    ASSUME Placed, pc \in Busy
    PROVE  WellFormed(txn) /\ txn[k] \in Op /\ k \in 1..Len(txn)
<1>1. WellFormed(txn) /\ k \in 1..Len(txn)
  BY TxnsWellFormed DEF Placed
<1>2. QED
  BY <1>1, ElementOfSeq DEF WellFormed

\* A step of the CPU keeps the types of the registers it writes.
LEMMA CpuCsrTypes ==
    ASSUME TypeOK, Placed, CpuStep
    PROVE  CsrTypeOK'
<1> USE DEF TypeOK, CsrTypeOK, Busy
<1>1. CASE CpuCommand
  <2>1. txn[k] \in Op
    BY <1>1, CurrentOp DEF CpuCommand, CommandStore, Access
  <2>2. CommandOf(txn[k]) \in Command
    BY <2>1 DEF CommandOf, Command, Op
  <2>3. QED
    BY <1>1, <2>2 DEF CpuCommand, CommandStore, WriteCommand
<1>2. CASE TxrStore
  <2>1. txn[k] \in Op
    BY <1>2, CurrentOp DEF TxrStore, Access
  <2>2. txn[k].byte \in 0..255
    BY <2>1 DEF Op
  <2>3. QED
    BY <1>2, <2>2 DEF TxrStore, WriteTxr
<1>3. CASE CpuInit
  <2>1. CASE InitCoreReset
    BY <2>1 DEF InitCoreReset, WriteCoreReset
  <2>2. CASE InitPrescale
    BY <2>2 DEF InitPrescale, WritePrescale
  <2>3. CASE InitControl
    <3>1. [EN |-> TRUE, IEN |-> FALSE] \in [EN : BOOLEAN, IEN : BOOLEAN]
      OBVIOUS
    <3>2. control' \in [EN : BOOLEAN, IEN : BOOLEAN]
      BY <2>3, <3>1 DEF InitControl, WriteControl
    <3>3. QED
      BY <2>3, <3>2 DEF InitControl, WriteControl
  <2>4. QED
    BY <1>3, <2>1, <2>2, <2>3 DEF CpuInit
<1>4. CASE PollBusy \/ PollDone \/ ReadRxr \/ Advance \/ Return \/ CpuCall
  <2>1. UNCHANGED csr
    BY <1>4 DEF PollBusy, PollDone, ReadRxr, Advance, Return, CpuCall, Call
  <2>2. QED
    BY <2>1 DEF csr
<1>5. QED
  BY <1>1, <1>2, <1>3, <1>4 DEF CpuStep, CpuOther

\* It keeps the types of the driver's own variables, and its place.
LEMMA CpuDriverTypes ==
    ASSUME TypeOK, Placed, CpuStep
    PROVE  DriverTypeOK' /\ Placed'
<1> USE DelayAssumption DEF TypeOK, DriverTypeOK, Access, Busy, PCs
<1>1. CASE CpuInit
  BY <1>1 DEF CpuInit, InitCoreReset, InitPrescale, InitControl, Placed
<1>2. CASE CpuCall
  <2>1. PICK t \in Txns : Call(t)
    BY <1>2 DEF CpuCall
  <2>2. WellFormed(t)
    BY TxnsWellFormed
  <2>3. pc' \in {"txr", "command"} /\ txn' = t /\ k' = 1 /\ rx' = <<>> /\ ret' = NoReturn
        /\ UNCHANGED <<status, elapsed>>
    BY <2>1 DEF Call, Begin
  <2>4. DriverTypeOK'
    BY <2>3, EmptySeq DEF NoReturn
  <2>5. Placed'
    BY <2>2, <2>3, EmptySeq DEF Placed, WellFormed
  <2>6. QED
    BY <2>4, <2>5
<1>3. CASE TxrStore \/ CpuCommand
  <2>1. /\ pc \in {"txr", "command"} /\ pc' \in {"command", "wait"} /\ elapsed' = 0
        /\ UNCHANGED <<txn, k, status, rx, ret>>
    BY <1>3 DEF TxrStore, CpuCommand, CommandStore
  <2>2. QED
    BY <2>1 DEF Placed
<1>4. CASE PollBusy
  BY <1>4 DEF PollBusy, Placed
<1>5. CASE PollDone
  <2>1. /\ pc = "wait" /\ pc' = (IF txn[k].rx THEN "rxr" ELSE "check") /\ elapsed' = 0
        /\ status' = [RxACK |-> rxack, ArbLost |-> arb_lost]
        /\ UNCHANGED <<txn, k, rx, ret>>
    BY <1>5 DEF PollDone
  <2>2. status' \in [RxACK : BOOLEAN, ArbLost : BOOLEAN]
    BY <2>1 DEF CsrTypeOK, Byte!TypeOK
  <2>3. QED
    BY <2>1, <2>2 DEF Placed
<1>6. CASE ReadRxr
  <2>1. /\ pc = "rxr" /\ pc' = "check" /\ elapsed' = 0 /\ rx' = Append(rx, rxr)
        /\ UNCHANGED <<txn, k, status, ret>>
    BY <1>6 DEF ReadRxr
  <2>2. rx' \in Seq(0..255) /\ Len(rx') = Len(rx) + 1
    BY <2>1, AppendProperties DEF Byte!TypeOK
  <2>3. k \in Int /\ Len(txn) \in Int
    BY <2>1, CurrentOp DEF WellFormed
  <2>4. Placed'
    BY <2>1, <2>2, <2>3 DEF Placed
  <2>5. QED
    BY <2>1, <2>2, <2>4
<1>7. CASE Advance
  <2>1. /\ pc = "check" /\ k < Len(txn) /\ k' = k + 1
        /\ pc' \in {"txr", "command"} /\ UNCHANGED <<txn, status, rx, ret, elapsed>>
    BY <1>7 DEF Advance, Begin
  <2>2. WellFormed(txn) /\ k \in 1..Len(txn) /\ Len(txn) \in Nat
    BY <2>1, CurrentOp DEF WellFormed
  <2>3. k' \in 1..Len(txn) /\ k' \in Nat
    BY <2>1, <2>2
  <2>4. Len(rx) = IF ~txn[k'].rx THEN 0 ELSE k' - Len(txn) + 1
    <3>1. /\ txn[k].rx <=> txn[Len(txn)].rx /\ k >= Len(txn) - 1
          /\ txn[k'].rx <=> txn[Len(txn)].rx /\ k' >= Len(txn) - 1
      BY <2>2, <2>3 DEF WellFormed
    <3>2. Len(rx) = IF ~txn[k].rx THEN 0 ELSE k - Len(txn) + 2
      BY <2>1 DEF Placed
    <3>3. QED
      BY <2>1, <2>2, <3>1, <3>2
  <2>5. Placed'
    BY <2>1, <2>3, <2>4 DEF Placed
  <2>6. QED
    BY <2>1, <2>3, <2>5
<1>8. CASE Return
  <2>1. /\ pc = "check" /\ pc' = "idle" /\ UNCHANGED <<txn, k, status, rx, elapsed>>
        /\ \/ ret' = status_error_code
           \/ k = Len(txn) /\ ret' = ReturnValue
    BY <1>8 DEF Return
  <2>2. k = Len(txn) => rx = <<>> \/ Len(rx) = 2
    <3>1. k \in Nat /\ Len(txn) \in Nat
      BY <2>1, CurrentOp DEF WellFormed
    <3>2. Len(rx) = IF ~txn[k].rx THEN 0 ELSE k - Len(txn) + 2
      BY <2>1 DEF Placed
    <3>3. k = Len(txn) => Len(rx) \in {0, 2}
      BY <3>1, <3>2
    <3>4. QED
      BY <3>3, EmptySeq
  <2>3. k = Len(txn) => ReturnValue \in Int
    <3>1. CASE rx = <<>>
      BY <3>1 DEF ReturnValue
    <3>2. CASE rx # <<>> /\ Len(rx) = 2
      <4>1. rx \in Seq(0..255) /\ 1 \in 1..Len(rx) /\ 2 \in 1..Len(rx)
        BY <3>2
      <4>2. rx[1] \in 0..255 /\ rx[2] \in 0..255
        BY <4>1, ElementOfSeq
      <4>3. ReturnValue = rx[1] * 256 + rx[2]
        BY <3>2 DEF ReturnValue
      <4> HIDE DEF ReturnValue, TypeOK, DriverTypeOK
      <4>4. QED
        BY <4>2, <4>3
    <3>3. QED
      BY <2>2, <3>1, <3>2
  <2>4. ret' \in Int
    BY <2>1, <2>3 DEF status_error_code, ENACK, EARB, EUNK
  <2>5. QED
    BY <2>1, <2>4 DEF Placed
<1>9. QED
  BY <1>1, <1>2, <1>3, <1>4, <1>5, <1>6, <1>7, <1>8 DEF CpuStep, CpuOther

\* It keeps the types of the history and of the peripheral.
LEMMA CpuOtherTypes ==
    ASSUME TypeOK, Cpu \/ Caller
    PROVE  /\ HistoryTypeOK' /\ reply' \in 0..255 /\ left' \in 0..8
           /\ Byte!TypeOK' /\ Bit!TypeOK'
<1> USE DEF TypeOK, HistoryTypeOK
<1>1. Byte!TypeOK' /\ Bit!TypeOK'
  <2>1. UNCHANGED <<byteregs, bitouts, serving, age>>
    BY DEF Cpu, Caller, hardware
  <2>2. Byte!TypeOK'
    BY <2>1 DEF byteregs, Byte!TypeOK
  <2>3. Bit!TypeOK'
    BY <2>1 DEF bitouts, Bit!TypeOK
  <2>4. QED
    BY <2>2, <2>3
<1>2. CASE CpuCommand /\ PeripheralReply
  <2>1. outcome' = "pending" /\ wire' = wire
    BY <1>2 DEF CpuCommand
  <2>2. CASE \E b \in RxBytes : reply' = b /\ left' = 8 /\ replies' = Append(replies, b)
    <3>1. PICK b \in RxBytes : reply' = b /\ left' = 8 /\ replies' = Append(replies, b)
      BY <2>2
    <3>2. b \in 0..255
      BY TransferAssumption
    <3>3. replies' \in Seq(0..255)
      BY <3>1, <3>2, AppendProperties
    <3>4. QED
      BY <1>1, <2>1, <3>1, <3>2, <3>3
  <2>3. CASE left' = 0 /\ UNCHANGED <<reply, replies>>
    BY <1>1, <2>1, <2>3
  <2>4. QED
    BY <1>2, <2>2, <2>3 DEF PeripheralReply
<1>3. CASE (CpuInit \/ CpuOther) /\ UNCHANGED <<reply, left>>
  BY <1>1, <1>3 DEF CpuInit, CpuOther, history
<1>4. CASE Caller
  BY <1>1, <1>4, EmptySeq DEF Caller, CpuCall
<1>5. QED
  BY <1>2, <1>3, <1>4 DEF Cpu

\* The types of everything hold in every reachable state.
LEMMA TypeInvariance == Spec => [](TypeOK /\ Placed)
<1>1. Init => TypeOK /\ Placed
  <2> SUFFICES ASSUME Init PROVE TypeOK /\ Placed
    OBVIOUS
  <2> USE DEF Init
  <2>1. CsrTypeOK
    <3>1. CsrInit
      OBVIOUS
    <3>2. NoCommand \in Command /\ [EN |-> FALSE, IEN |-> FALSE] \in [EN : BOOLEAN, IEN : BOOLEAN]
      BY DEF Command, NoCommand
    <3>3. 0 \in 0..255 /\ FALSE \in BOOLEAN
      OBVIOUS
    <3> QED
      BY <3>1, <3>2, <3>3, Zenon DEF CsrInit, CsrTypeOK
  <2>2. Byte!TypeOK /\ Bit!TypeOK
    <3>1. Byte!TypeOK
      <4>1. 0 \in 0..255 /\ 0 \in 0..7 /\ FALSE \in BOOLEAN
        OBVIOUS
      <4>2. "IDLE" \in Byte!ByteStates /\ "NOP" \in Byte!BitCommands
        BY DEF Byte!ByteStates, Byte!BitCommands
      <4>3. QED
        BY <4>1, <4>2, Zenon DEF Byte!Init, Byte!TypeOK
    <3>2. 0 \in 0..Setup
      BY TransferAssumption
    <3>3. Bit!TypeOK
      BY <3>2 DEF Bit!Init, Bit!TypeOK, Bit!Commands
    <3>4. QED
      BY <3>1, <3>3
  <2>3. DriverTypeOK /\ Placed
    <3>1. 0 \in 0..NopDelay /\ NoReturn \in Int
      BY DelayAssumption DEF NoReturn
    <3>2. status \in [RxACK : BOOLEAN, ArbLost : BOOLEAN]
      BY DEF DriverInit
    <3>3. DriverTypeOK
      BY <3>1, <3>2, EmptySeq DEF DriverInit, DriverTypeOK, PCs
    <3>4. Placed
      BY DEF DriverInit, Placed, Busy
    <3>5. QED
      BY <3>3, <3>4
  <2>4. HistoryTypeOK
    BY EmptySeq DEF HistoryInit, HistoryTypeOK
  <2>5. QED
    BY <2>1, <2>2, <2>3, <2>4 DEF TypeOK
<1>2. TypeOK /\ Placed /\ [Next]_vars => TypeOK' /\ Placed'
  <2>1. CASE UNCHANGED vars
    BY <2>1
    DEF vars, csr, hardware, byteregs, bitouts, driver, history, TypeOK, CsrTypeOK, Byte!TypeOK,
        Bit!TypeOK, DriverTypeOK, HistoryTypeOK, Placed
  <2>2. ASSUME TypeOK, Placed, Cpu \/ Caller PROVE TypeOK' /\ Placed'
    BY <2>2, CpuParts, CpuCsrTypes, CpuDriverTypes, CpuOtherTypes DEF TypeOK
  <2>3. QED
    BY <2>1, <2>2, TickTypes DEF Next
<1>3. QED
  BY <1>1, <1>2, PTL DEF Spec

\* Registers keep their widths, the driver never indexes outside a
\* transaction or the bytes received, and what it returns is an int
\* (custom-bios/i2c.c:82).
THEOREM TransferTypeCorrect == Spec => []TypeOK
<1>1. TypeOK /\ Placed => TypeOK
  OBVIOUS
<1>2. QED
  BY TypeInvariance, <1>1, PTL

-----------------------------------------------------------------------------
(* Sequences and bytes.                                                    *)

\* Every non-empty set of natural numbers has a least element.
LEMMA LeastNumber ==
    ASSUME NEW T, T \subseteq Nat, T # {}
    PROVE  \E n \in T : \A m \in T : n <= m
<1>1. PICK n \in T : \A m \in T : <<m, n>> \notin OpToRel(<, Nat)
  BY WFMin, NatLessThanWellFounded, Zenon
<1>2. ASSUME NEW m \in T PROVE ~(m < n)
  <2>1. m \in Nat /\ n \in Nat
    OBVIOUS
  <2>2. <<m, n>> \in {ss \in Nat \X Nat : ss[1] < ss[2]} <=> m < n
    BY <2>1
  <2>3. OpToRel(<, Nat) = {ss \in Nat \X Nat : ss[1] < ss[2]}
    BY Zenon DEF OpToRel
  <2>4. QED
    BY <1>1, <2>2, <2>3, Zenon
<1>3. QED
  BY <1>2

\* Induction, over a set: there is no first n in 1..top that is not Good.
LEMMA FirstFailure ==
    ASSUME NEW top \in Nat, NEW Good, Good \subseteq 1..top,
           \A n \in 1..top : (\A m \in 1..(n - 1) : m \in Good) => n \in Good
    PROVE  Good = 1..top
<1> SUFFICES ASSUME Good # 1..top PROVE FALSE
  OBVIOUS
<1> DEFINE Bad == (1..top) \ Good
<1>1. Bad \subseteq Nat /\ Bad # {}
  <2>1. Bad = {} => 1..top \subseteq Good
    OBVIOUS
  <2>2. Bad # {}
    BY <2>1, Zenon
  <2>3. QED
    BY <2>2
<1>2. PICK n \in Bad : \A m \in Bad : n <= m
  <2> HIDE DEF Bad
  <2>1. QED
    BY <1>1, LeastNumber
<1>3. ASSUME NEW m \in 1..(n - 1) PROVE m \in Good
  BY <1>2
<1>4. QED
  BY <1>2, <1>3

\* The partial concatenations of s, which FlattenSeq chooses.
Partials(f, s, n) == f = [i \in 1..n |-> IF i = 1 THEN s[i] ELSE f[i - 1] \o s[i]]

\* They exist, for as many elements of s as one likes.
LEMMA PartialsExist ==
    ASSUME NEW s, NEW top \in Nat, NEW n \in 1..top
    PROVE  \E f : Partials(f, s, n)
<1> DEFINE Good == {m \in 1..top : \E f : Partials(f, s, m)}
<1>1. ASSUME NEW m \in 1..top, \A j \in 1..(m - 1) : j \in Good
      PROVE  m \in Good
  <2>1. CASE m = 1
    <3> DEFINE f == [i \in 1..m |-> s[i]]
    <3>1. f = [i \in 1..m |-> IF i = 1 THEN s[i] ELSE f[i - 1] \o s[i]]
      BY <2>1
    <3>2. Partials(f, s, m)
      BY <3>1, Zenon DEF Partials
    <3>3. QED
      BY <3>2, Zenon
  <2>2. CASE m > 1
    <3>1. m - 1 \in 1..(m - 1)
      BY <2>2
    <3>2. PICK f : Partials(f, s, m - 1)
      BY <1>1, <3>1
    <3>3. \A i \in 1..(m - 1) : f[i] = IF i = 1 THEN s[i] ELSE f[i - 1] \o s[i]
      BY <3>2 DEF Partials
    <3> DEFINE g == [i \in 1..m |-> IF i = m THEN f[m - 1] \o s[m] ELSE f[i]]
    <3>4. ASSUME NEW i \in 1..m
          PROVE  g[i] = IF i = 1 THEN s[i] ELSE g[i - 1] \o s[i]
      <4>1. CASE i = m
        <5>1. m \in 1..m /\ m - 1 \in 1..m /\ m - 1 # m /\ m # 1
          BY <2>2
        <5>2. g[m] = f[m - 1] \o s[m] /\ g[m - 1] = f[m - 1]
          BY <5>1, Zenon
        <5>3. QED
          BY <4>1, <5>1, <5>2, Zenon
      <4>2. CASE i # m /\ i = 1
        <5>1. i \in 1..(m - 1) /\ g[i] = f[i]
          BY <4>2
        <5>2. QED
          BY <3>3, <4>2, <5>1, Zenon
      <4>3. CASE i # m /\ i # 1
        <5>1. i \in 1..(m - 1) /\ i - 1 \in 1..m /\ i - 1 # m
          BY <4>3
        <5>2. g[i] = f[i] /\ g[i - 1] = f[i - 1]
          BY <4>3, <5>1, Zenon
        <5>3. QED
          BY <3>3, <4>3, <5>1, <5>2, Zenon
      <4>4. QED
        BY <4>1, <4>2, <4>3
    <3>5. g = [i \in 1..m |-> IF i = 1 THEN s[i] ELSE g[i - 1] \o s[i]]
      BY <3>4, Zenon
    <3> HIDE DEF g
    <3>6. Partials(g, s, m)
      BY <3>5, Zenon DEF Partials
    <3>7. QED
      BY <3>6, Zenon
  <2>3. QED
    BY <2>1, <2>2
<1>2. Good = 1..top
  <2> HIDE DEF Good
  <2>1. Good \subseteq 1..top
    BY DEF Good
  <2>2. QED
    BY <1>1, <2>1, FirstFailure
<1>3. QED
  BY <1>2

\* They are sequences over S if the elements of s are.
LEMMA PartialsTyped ==
    ASSUME NEW S, NEW s \in Seq(Seq(S)), NEW n \in 1..Len(s), NEW f, Partials(f, s, n)
    PROVE  \A i \in 1..n : f[i] \in Seq(S)
<1> DEFINE Good == {m \in 1..n : f[m] \in Seq(S)}
<1>1. \A i \in 1..n : f[i] = IF i = 1 THEN s[i] ELSE f[i - 1] \o s[i]
  BY DEF Partials
<1>2. \A i \in 1..n : s[i] \in Seq(S)
  <2>1. \A i \in 1..n : i \in 1..Len(s)
    BY LenProperties
  <2>2. QED
    BY <2>1, ElementOfSeq
<1>3. ASSUME NEW m \in 1..n, \A j \in 1..(m - 1) : j \in Good
      PROVE  m \in Good
  <2>1. CASE m = 1
    BY <1>1, <1>2, <2>1
  <2>2. CASE m # 1
    <3>1. m - 1 \in 1..(m - 1)
      BY <2>2
    <3>2. f[m - 1] \in Seq(S)
      BY <1>3, <3>1
    <3>3. f[m] = f[m - 1] \o s[m]
      BY <1>1, <2>2
    <3>4. QED
      BY <1>2, <3>2, <3>3, ConcatProperties
  <2>3. QED
    BY <2>1, <2>2
<1>4. Good = 1..n
  <2>1. Good \subseteq 1..n /\ n \in Nat
    BY LenProperties
  <2> HIDE DEF Good
  <2>2. QED
    BY <1>3, <2>1, FirstFailure
<1>5. QED
  BY <1>4

\* FlattenSeq of a sequence that is not empty is the last of the partials.
LEMMA FlattenIsPartial ==
    ASSUME NEW s, NEW n \in Nat, Len(s) = n, n # 0
    PROVE  \E f : Partials(f, s, n) /\ FlattenSeq(s) = f[n]
<1> DEFINE f == CHOOSE f : f = [i \in 1..Len(s) |-> IF i = 1 THEN s[i] ELSE f[i - 1] \o s[i]]
<1>1. n \in 1..n
  OBVIOUS
<1>2. \E h : Partials(h, s, n)
  BY <1>1, PartialsExist
<1>3. \E h : h = [i \in 1..Len(s) |-> IF i = 1 THEN s[i] ELSE h[i - 1] \o s[i]]
  BY <1>2, Zenon DEF Partials
<1>4. f = [i \in 1..Len(s) |-> IF i = 1 THEN s[i] ELSE f[i - 1] \o s[i]]
  BY <1>3, Zenon
<1>5. FlattenSeq(s) = f[n]
  BY Zenon DEF FlattenSeq
<1> HIDE DEF f
<1>6. QED
  BY <1>4, <1>5, Zenon DEF Partials

\* A flattened sequence of sequences over S is one over S.
LEMMA FlattenType ==
    ASSUME NEW S, NEW s \in Seq(Seq(S))
    PROVE  FlattenSeq(s) \in Seq(S)
<1>1. CASE Len(s) = 0
  <2>1. s = <<>>
    BY <1>1, EmptySeq
  <2>2. FlattenSeq(s) = s
    BY <1>1, Zenon DEF FlattenSeq
  <2>3. QED
    BY <2>1, <2>2, EmptySeq
<1>2. CASE Len(s) # 0
  <2>1. Len(s) \in Nat /\ Len(s) \in 1..Len(s)
    BY <1>2, LenProperties
  <2>2. PICK f : Partials(f, s, Len(s)) /\ FlattenSeq(s) = f[Len(s)]
    BY <1>2, <2>1, FlattenIsPartial
  <2>3. QED
    BY <2>1, <2>2, PartialsTyped
<1>3. QED
  BY <1>1, <1>2

\* Flattening one more sequence appends it.
LEMMA FlattenStep ==
    ASSUME NEW S, NEW s \in Seq(Seq(S)), NEW t \in Seq(Seq(S)),
           Len(t) = Len(s) + 1, \A i \in 1..Len(s) : t[i] = s[i]
    PROVE  FlattenSeq(t) = FlattenSeq(s) \o t[Len(t)]
<1>1. Len(s) \in Nat /\ Len(t) \in Nat /\ Len(t) # 0
  BY LenProperties
<1>2. PICK g : Partials(g, t, Len(t)) /\ FlattenSeq(t) = g[Len(t)]
  BY <1>1, FlattenIsPartial
<1>3. \A i \in 1..Len(t) : g[i] = IF i = 1 THEN t[i] ELSE g[i - 1] \o t[i]
  BY <1>2 DEF Partials
<1>4. Len(t) \in 1..Len(t) /\ t[Len(t)] \in Seq(S)
  BY <1>1, ElementOfSeq
<1>5. CASE Len(s) = 0
  <2>1. s = <<>> /\ Len(t) = 1
    BY <1>5, EmptySeq
  <2>2. FlattenSeq(s) = <<>>
    BY <1>5, <2>1, Zenon DEF FlattenSeq
  <2>3. FlattenSeq(t) = t[Len(t)]
    BY <1>2, <1>3, <1>4, <2>1
  <2>4. QED
    BY <1>4, <2>2, <2>3, ConcatEmptySeq
<1>6. CASE Len(s) # 0
  <2>1. PICK f : Partials(f, s, Len(s)) /\ FlattenSeq(s) = f[Len(s)]
    BY <1>1, <1>6, FlattenIsPartial
  <2>2. Len(s) \in 1..Len(s) /\ Len(s) <= Len(t) /\ Len(t) # 1 /\ Len(t) - 1 = Len(s)
    BY <1>1, <1>6
  <2>3. \A i \in 1..Len(s) : f[i] = g[i]
    <3> DEFINE Good == {i \in 1..Len(s) : f[i] = g[i]}
    <3>1. \A i \in 1..Len(s) : f[i] = IF i = 1 THEN s[i] ELSE f[i - 1] \o s[i]
      BY <2>1 DEF Partials
    <3>2. ASSUME NEW i \in 1..Len(s), \A j \in 1..(i - 1) : j \in Good
          PROVE  i \in Good
      <4>1. i \in 1..Len(t) /\ (i # 1 => i - 1 \in 1..(i - 1))
        BY <1>1, <2>2
      <4>2. i # 1 => f[i - 1] = g[i - 1]
        BY <3>2, <4>1
      <4>3. f[i] = g[i]
        BY <1>3, <3>1, <4>1, <4>2, Zenon
      <4>4. QED
        BY <4>3
    <3>3. Good = 1..Len(s)
      <4>1. Good \subseteq 1..Len(s)
        OBVIOUS
      <4> HIDE DEF Good
      <4>2. QED
        BY <1>1, <3>2, <4>1, FirstFailure
    <3>4. QED
      BY <3>3
  <2>4. QED
    BY <1>2, <1>3, <1>4, <2>1, <2>2, <2>3
<1>7. QED
  BY <1>5, <1>6

\* Shifting a byte left by one place moves each of its bits by one.
LEMMA BitsOfDouble ==
    \A x \in 0..255, v \in {0, 1}, y \in 0..255 :
        y = 2 * x + v \/ y = 2 * x + v - 256 =>
            /\ y % 2 = v
            /\ \A n \in 0..6 : (y \div 2^(n + 1)) % 2 = (x \div 2^n) % 2
<1> SUFFICES ASSUME NEW x \in 0..255, NEW v \in {0, 1}, NEW y \in 0..255,
                    y = 2 * x + v \/ y = 2 * x + v - 256
             PROVE  /\ y % 2 = v
                    /\ \A n \in 0..6 : (y \div 2^(n + 1)) % 2 = (x \div 2^n) % 2
  OBVIOUS
<1>1. /\ x \in Int /\ 0 <= x /\ x <= 255 /\ y \in Int /\ 0 <= y /\ y <= 255
      /\ v = 0 \/ v = 1
      /\ y = 2 * x + v \/ y = 2 * x + v - 256
  OBVIOUS
<1>2. y % 2 = v
  BY <1>1
<1>3. ASSUME NEW n \in 0..6 PROVE (y \div 2^(n + 1)) % 2 = (x \div 2^n) % 2
  <2>1. CASE n = 0
    <3>1. 2^n = 1 /\ 2^(n + 1) = 2
      BY <2>1
    <3>2. (y \div 2) % 2 = (x \div 1) % 2
      BY <1>1
    <3>3. QED
      BY <3>1, <3>2
  <2>2. CASE n = 1
    <3>1. 2^n = 2 /\ 2^(n + 1) = 4
      BY <2>2
    <3>2. (y \div 4) % 2 = (x \div 2) % 2
      BY <1>1
    <3>3. QED
      BY <3>1, <3>2
  <2>3. CASE n = 2
    <3>1. 2^n = 4 /\ 2^(n + 1) = 8
      BY <2>3
    <3>2. (y \div 8) % 2 = (x \div 4) % 2
      BY <1>1
    <3>3. QED
      BY <3>1, <3>2
  <2>4. CASE n = 3
    <3>1. 2^n = 8 /\ 2^(n + 1) = 16
      BY <2>4
    <3>2. (y \div 16) % 2 = (x \div 8) % 2
      BY <1>1
    <3>3. QED
      BY <3>1, <3>2
  <2>5. CASE n = 4
    <3>1. 2^n = 16 /\ 2^(n + 1) = 32
      BY <2>5
    <3>2. (y \div 32) % 2 = (x \div 16) % 2
      BY <1>1
    <3>3. QED
      BY <3>1, <3>2
  <2>6. CASE n = 5
    <3>1. 2^n = 32 /\ 2^(n + 1) = 64
      BY <2>6
    <3>2. (y \div 64) % 2 = (x \div 32) % 2
      BY <1>1
    <3>3. QED
      BY <3>1, <3>2
  <2>7. CASE n = 6
    <3>1. 2^n = 64 /\ 2^(n + 1) = 128
      BY <2>7
    <3>2. (y \div 128) % 2 = (x \div 64) % 2
      BY <1>1
    <3>3. QED
      BY <3>1, <3>2
  <2>8. QED
    BY <2>1, <2>2, <2>3, <2>4, <2>5, <2>6, <2>7
<1>4. QED
  BY <1>2, <1>3

\* What the shift register holds after a shift.
LEMMA BitsOfShift ==
    ASSUME NEW x \in 0..255, NEW b \in BOOLEAN
    PROVE  /\ Byte!ShiftIn(x, b) \in 0..255
           /\ BitOf(Byte!ShiftIn(x, b), 0) <=> b
           /\ \A i \in 0..6 : BitOf(Byte!ShiftIn(x, b), i + 1) <=> BitOf(x, i)
<1> DEFINE v == Byte!BitValue(b)
           y == Byte!ShiftIn(x, b)
<1>1. v \in {0, 1}
  BY DEF Byte!BitValue
<1>2. v = 1 <=> b
  BY DEF Byte!BitValue
<1>3. y = ((2 * x) % 256) + v
  BY DEF Byte!ShiftIn
<1> HIDE DEF v, y
<1>4. y \in 0..255
  BY <1>1, <1>3
<1>5. y = 2 * x + v \/ y = 2 * x + v - 256
  BY <1>1, <1>3
<1>6. /\ y % 2 = v
      /\ \A n \in 0..6 : (y \div 2^(n + 1)) % 2 = (x \div 2^n) % 2
  <2>1. y = 2 * x + v \/ y = 2 * x + v - 256 =>
            /\ y % 2 = v
            /\ \A n \in 0..6 : (y \div 2^(n + 1)) % 2 = (x \div 2^n) % 2
    BY <1>1, <1>4, BitsOfDouble, ZenonT(60)
  <2>2. QED
    BY <1>5, <2>1, Zenon
<1>7. BitOf(y, 0) <=> b
  <2>1. y \div 2^0 = y
    BY <1>4
  <2>2. BitOf(y, 0) <=> v = 1
    BY <1>6, <2>1, Zenon DEF BitOf
  <2>3. QED
    BY <1>2, <2>2
<1>8. \A i \in 0..6 : BitOf(y, i + 1) <=> BitOf(x, i)
  BY <1>6, Zenon DEF BitOf
<1>9. QED
  BY <1>4, <1>7, <1>8, Zenon DEF y

\* The same for every byte and every bit shifted in.
ShiftsBits(x, b) == \A i \in 0..6 : BitOf(Byte!ShiftIn(x, b), i + 1) <=> BitOf(x, i)

\* Every shift moves each bit up by one.
LEMMA BitsShift == \A x \in 0..255, b \in BOOLEAN : ShiftsBits(x, b)
<1> SUFFICES ASSUME NEW x \in 0..255, NEW b \in BOOLEAN PROVE ShiftsBits(x, b)
  OBVIOUS
<1>1. \A i \in 0..6 : BitOf(Byte!ShiftIn(x, b), i + 1) <=> BitOf(x, i)
  BY BitsOfShift
<1>2. QED
  BY <1>1, Zenon DEF ShiftsBits

\* A byte is its bits.
LEMMA ByteIsBits ==
    ASSUME NEW x \in 0..255, NEW y \in 0..255, \A i \in 0..7 : BitOf(x, i) <=> BitOf(y, i)
    PROVE  x = y
<1>1. /\ BitOf(x, 0) <=> BitOf(y, 0)
      /\ BitOf(x, 1) <=> BitOf(y, 1)
      /\ BitOf(x, 2) <=> BitOf(y, 2)
      /\ BitOf(x, 3) <=> BitOf(y, 3)
      /\ BitOf(x, 4) <=> BitOf(y, 4)
      /\ BitOf(x, 5) <=> BitOf(y, 5)
      /\ BitOf(x, 6) <=> BitOf(y, 6)
      /\ BitOf(x, 7) <=> BitOf(y, 7)
  OBVIOUS
<1>2. 2^0 = 1 /\ 2^1 = 2 /\ 2^2 = 4 /\ 2^3 = 8 /\ 2^4 = 16 /\ 2^5 = 32 /\ 2^6 = 64 /\ 2^7 = 128
  OBVIOUS
<1>3. /\ (x \div 1) % 2 = 1 <=> (y \div 1) % 2 = 1
      /\ (x \div 2) % 2 = 1 <=> (y \div 2) % 2 = 1
      /\ (x \div 4) % 2 = 1 <=> (y \div 4) % 2 = 1
      /\ (x \div 8) % 2 = 1 <=> (y \div 8) % 2 = 1
      /\ (x \div 16) % 2 = 1 <=> (y \div 16) % 2 = 1
      /\ (x \div 32) % 2 = 1 <=> (y \div 32) % 2 = 1
      /\ (x \div 64) % 2 = 1 <=> (y \div 64) % 2 = 1
      /\ (x \div 128) % 2 = 1 <=> (y \div 128) % 2 = 1
  <2>1. (x \div 1) % 2 = 1 <=> (y \div 1) % 2 = 1
    BY <1>1, <1>2 DEF BitOf
  <2>2. (x \div 2) % 2 = 1 <=> (y \div 2) % 2 = 1
    BY <1>1, <1>2 DEF BitOf
  <2>3. (x \div 4) % 2 = 1 <=> (y \div 4) % 2 = 1
    BY <1>1, <1>2 DEF BitOf
  <2>4. (x \div 8) % 2 = 1 <=> (y \div 8) % 2 = 1
    BY <1>1, <1>2 DEF BitOf
  <2>5. (x \div 16) % 2 = 1 <=> (y \div 16) % 2 = 1
    BY <1>1, <1>2 DEF BitOf
  <2>6. (x \div 32) % 2 = 1 <=> (y \div 32) % 2 = 1
    BY <1>1, <1>2 DEF BitOf
  <2>7. (x \div 64) % 2 = 1 <=> (y \div 64) % 2 = 1
    BY <1>1, <1>2 DEF BitOf
  <2>8. (x \div 128) % 2 = 1 <=> (y \div 128) % 2 = 1
    BY <1>1, <1>2 DEF BitOf
  <2>9. QED
    BY <2>1, <2>2, <2>3, <2>4, <2>5, <2>6, <2>7, <2>8, Zenon
<1>4. x \in Int /\ 0 <= x /\ x <= 255 /\ y \in Int /\ 0 <= y /\ y <= 255
  OBVIOUS
<1>5. QED
  BY <1>3, <1>4, SMTT(30)

\* The most significant bit.
LEMMA MsbIsBit == \A x \in 0..255 : Byte!Msb(x) <=> BitOf(x, 7)
<1>1. 2^7 = 128
  OBVIOUS
<1>2. QED
  BY <1>1 DEF BitOf, Byte!Msb
-----------------------------------------------------------------------------
(* What an operation and a transaction put on the bus, symbol by symbol.   *)

\* The symbols before the data bits of an operation, and all of its symbols.
Starts(op) == IF op.sta THEN 1 ELSE 0
OpLength(op) == Starts(op) + 9 + (IF op.sto THEN 1 ELSE 0)

\* Symbol number i of an operation whose byte is byte; a transmit gets the
\* ACK bit a, a receive sends its own.
SymbolAt(op, byte, a, i) ==
    IF i <= Starts(op) THEN "START"
    ELSE IF i <= Starts(op) + 8 THEN BitSymbol(BitOf(byte, 8 - (i - Starts(op))))
    ELSE IF i = Starts(op) + 9 THEN (IF op.rx THEN BitSymbol(op.nack) ELSE a)
    ELSE "STOP"

\* Its first p symbols.
Sent(op, byte, a, p) == [i \in 1..p |-> SymbolAt(op, byte, a, i)]

\* ByteOf and TxnSymbols of the transaction t to which the peripheral has
\* answered r; a well-formed transaction receives with its last two operations.
ByteAt(t, r, i) == IF t[i].rx THEN r[i - Len(t) + 2] ELSE t[i].byte

Parts(t, r, n, a) == [i \in 1..n |->
    Sent(t[i], ByteAt(t, r, i), IF i < n THEN "0" ELSE a, OpLength(t[i]))]

Symbolled(t, r, n, a) == FlattenSeq(Parts(t, r, n, a))

\* An operation is nine or ten symbols after its START, if it has one.
LEMMA OpLengthType ==
    ASSUME NEW op
    PROVE  /\ Starts(op) \in {0, 1} /\ OpLength(op) \in Nat
           /\ OpLength(op) = Starts(op) + 9 + (IF op.sto THEN 1 ELSE 0)
           /\ OpLength(op) \in {Starts(op) + 9, Starts(op) + 10}
BY DEF Starts, OpLength

\* Each symbol is one.
LEMMA SymbolType ==
    ASSUME NEW op, NEW byte, NEW a \in Symbols, NEW i
    PROVE  SymbolAt(op, byte, a, i) \in Symbols
<1>1. \A b : BitSymbol(b) \in Symbols
  BY DEF BitSymbol, Symbols
<1>2. "START" \in Symbols /\ "STOP" \in Symbols
  BY DEF Symbols
<1>3. QED
  BY <1>1, <1>2, Zenon DEF SymbolAt

\* The first p symbols are p symbols.
LEMMA SentType ==
    ASSUME NEW op, NEW byte, NEW a \in Symbols, NEW p \in Nat
    PROVE  Sent(op, byte, a, p) \in Seq(Symbols) /\ Len(Sent(op, byte, a, p)) = p
<1>1. \A i \in 1..p : SymbolAt(op, byte, a, i) \in Symbols
  BY SymbolType
<1>2. Sent(op, byte, a, p) \in [1..p -> Symbols]
  BY <1>1, Zenon DEF Sent
<1>3. Sent(op, byte, a, p) \in Seq(Symbols)
  BY <1>2, SeqDef
<1>4. DOMAIN Sent(op, byte, a, p) = 1..p
  BY Zenon DEF Sent
<1>5. QED
  BY <1>3, <1>4, LenProperties

\* One symbol more.
LEMMA SentGrows ==
    ASSUME NEW op, NEW byte, NEW a \in Symbols, NEW p \in Nat
    PROVE  Sent(op, byte, a, p + 1) = Append(Sent(op, byte, a, p), SymbolAt(op, byte, a, p + 1))
<1> DEFINE s == Sent(op, byte, a, p)
           t == Sent(op, byte, a, p + 1)
           x == SymbolAt(op, byte, a, p + 1)
<1>1. s \in Seq(Symbols) /\ Len(s) = p /\ t \in Seq(Symbols) /\ Len(t) = p + 1
  BY SentType
<1>2. x \in Symbols
  BY SymbolType
<1>3. /\ \A i \in 1..p : s[i] = SymbolAt(op, byte, a, i)
      /\ \A i \in 1..(p + 1) : t[i] = SymbolAt(op, byte, a, i)
  BY DEF Sent
<1> HIDE DEF s, t, x
<1>4. Append(s, x) \in Seq(Symbols) /\ Len(Append(s, x)) = p + 1
  BY <1>1, <1>2, AppendProperties
<1>5. \A i \in 1..(p + 1) : Append(s, x)[i] = t[i]
  <2>1. Append(s, x)[p + 1] = x
    BY <1>1, <1>2, AppendProperties
  <2>2. \A i \in 1..p : Append(s, x)[i] = s[i]
    BY <1>1, <1>2, AppendProperties
  <2>3. \A i \in 1..(p + 1) : i = p + 1 \/ i \in 1..p
    OBVIOUS
  <2>4. \A i \in 1..p : i \in 1..(p + 1)
    OBVIOUS
  <2>5. p + 1 \in 1..(p + 1)
    OBVIOUS
  <2>6. t[p + 1] = x
    BY <1>3, <2>5, Zenon DEF x
  <2>7. QED
    BY <1>3, <2>1, <2>2, <2>3, <2>4, <2>6, Zenon
<1>6. t = Append(s, x)
  BY <1>1, <1>4, <1>5, SeqEqual
<1>7. QED
  BY <1>6 DEF s, t, x

\* Before its ACK bit, or in a receive, it does not matter what is answered.
LEMMA SentSame ==
    ASSUME NEW op, NEW byte, NEW a, NEW b, NEW p \in Nat,
           op.rx \/ p <= Starts(op) + 8
    PROVE  Sent(op, byte, a, p) = Sent(op, byte, b, p)
<1>1. ASSUME NEW i \in 1..p PROVE SymbolAt(op, byte, a, i) = SymbolAt(op, byte, b, i)
  <2>1. CASE op.rx
    BY <2>1, Zenon DEF SymbolAt
  <2>2. CASE p <= Starts(op) + 8
    <3>1. Starts(op) \in {0, 1}
      BY OpLengthType
    <3>2. i <= Starts(op) + 8
      BY <2>2, <3>1
    <3>3. QED
      BY <3>2, Zenon DEF SymbolAt
  <2>3. QED
    BY <2>1, <2>2
<1>2. QED
  BY <1>1, Zenon DEF Sent

\* Nothing sent yet.
LEMMA SentNothing == \A op, byte, a : Sent(op, byte, a, 0) = <<>>
<1> TAKE op, byte, a
<1>1. 1..0 = {}
  OBVIOUS
<1>2. Sent(op, byte, a, 0) = [i \in {} |-> SymbolAt(op, byte, a, i)]
  BY <1>1, Zenon DEF Sent
<1>3. QED
  BY <1>2

\* A sequence of one element, if c, or none.
LEMMA OneOrNone ==
    ASSUME NEW S, NEW x \in S, NEW c
    PROVE  /\ (IF c THEN <<x>> ELSE <<>>) \in Seq(S)
           /\ Len(IF c THEN <<x>> ELSE <<>>) = IF c THEN 1 ELSE 0
           /\ \A i \in 1..Len(IF c THEN <<x>> ELSE <<>>) : (IF c THEN <<x>> ELSE <<>>)[i] = x
<1> DEFINE s == IF c THEN <<x>> ELSE <<>>
<1>1. CASE c
  <2>1. s = <<x>>
    BY <1>1, Zenon
  <2> HIDE DEF s
  <2>2. s \in Seq(S) /\ Len(s) = (IF c THEN 1 ELSE 0) /\ \A i \in 1..Len(s) : s[i] = x
    BY <1>1, <2>1
  <2>3. QED
    BY <2>2 DEF s
<1>2. CASE ~c
  <2>1. s = <<>>
    BY <1>2, Zenon
  <2> HIDE DEF s
  <2>2. s \in Seq(S) /\ Len(s) = (IF c THEN 1 ELSE 0) /\ \A i \in 1..Len(s) : s[i] = x
    BY <1>2, <2>1
  <2>3. QED
    BY <2>2 DEF s
<1>3. QED
  BY <1>1, <1>2

\* OpSymbols is all that an operation sends.
LEMMA OpSymbolsAre ==
    ASSUME NEW op, NEW byte, NEW a \in Symbols
    PROVE  OpSymbols(op, byte, IF op.rx THEN BitSymbol(op.nack) ELSE a)
              = Sent(op, byte, a, OpLength(op))
<1> DEFINE first == IF op.sta THEN <<"START">> ELSE <<>>
           bits == DataBits(byte)
           ack == IF op.rx THEN BitSymbol(op.nack) ELSE a
           last == IF op.sto THEN <<"STOP">> ELSE <<>>
           h == Starts(op)
           whole == Sent(op, byte, a, OpLength(op))
<1>1. first \in Seq(Symbols) /\ Len(first) = h /\ \A i \in 1..Len(first) : first[i] = "START"
  <2>1. "START" \in Symbols
    BY DEF Symbols
  <2>2. QED
    BY <2>1, OneOrNone DEF Starts
<1>2. /\ bits \in Seq(Symbols) /\ Len(bits) = 8
      /\ \A i \in 1..8 : bits[i] = BitSymbol(BitOf(byte, 8 - i))
  <2>1. bits = [i \in 1..8 |-> BitSymbol(BitOf(byte, 8 - i))]
    BY Zenon DEF DataBits
  <2>2. \A i \in 1..8 : BitSymbol(BitOf(byte, 8 - i)) \in Symbols
    BY DEF BitSymbol, Symbols
  <2>3. bits \in [1..8 -> Symbols]
    BY <2>1, <2>2, Zenon
  <2>4. bits \in Seq(Symbols) /\ Len(bits) = 8
    <3> HIDE DEF bits
    <3>1. bits \in Seq(Symbols) /\ DOMAIN bits = 1..8
      BY <2>3, SeqDef
    <3>2. QED
      BY <3>1, LenProperties
  <2>5. QED
    BY <2>1, <2>4, Zenon
<1>3. ack \in Symbols /\ <<ack>> \in Seq(Symbols) /\ Len(<<ack>>) = 1 /\ <<ack>>[1] = ack
  <2>1. ack \in Symbols
    BY DEF BitSymbol, Symbols
  <2> HIDE DEF ack
  <2>2. QED
    BY <2>1
<1>4. /\ last \in Seq(Symbols) /\ Len(last) = (IF op.sto THEN 1 ELSE 0)
      /\ \A i \in 1..Len(last) : last[i] = "STOP"
  <2>1. "STOP" \in Symbols
    BY DEF Symbols
  <2>2. QED
    BY <2>1, OneOrNone
<1>5. OpSymbols(op, byte, ack) = ((first \o bits) \o <<ack>>) \o last
  BY Zenon DEF OpSymbols
<1>6. /\ whole \in Seq(Symbols) /\ Len(whole) = OpLength(op)
      /\ \A i \in 1..OpLength(op) : whole[i] = SymbolAt(op, byte, a, i)
  <2>1. whole \in Seq(Symbols) /\ Len(whole) = OpLength(op)
    BY SentType, OpLengthType
  <2>2. \A i \in 1..OpLength(op) : whole[i] = SymbolAt(op, byte, a, i)
    BY Zenon DEF Sent
  <2>3. QED
    BY <2>1, <2>2
<1>7. h \in {0, 1} /\ OpLength(op) = h + 9 + Len(last) /\ Len(last) \in {0, 1}
  <2>1. Len(last) \in {0, 1}
    BY <1>4
  <2>2. OpLength(op) = h + 9 + Len(last) /\ h \in {0, 1}
    BY <1>4, OpLengthType
  <2>3. QED
    BY <2>1, <2>2
<1>8. \A i \in Int :
         /\ i <= h => SymbolAt(op, byte, a, i) = "START"
         /\ i > h /\ i <= h + 8 => SymbolAt(op, byte, a, i) = BitSymbol(BitOf(byte, 8 - (i - h)))
         /\ i = h + 9 => SymbolAt(op, byte, a, i) = ack
         /\ i > h + 9 => SymbolAt(op, byte, a, i) = "STOP"
  BY <1>7 DEF SymbolAt
<1> HIDE DEF first, bits, ack, last, h, whole
<1> DEFINE x1 == first \o bits
           x2 == x1 \o <<ack>>
           x3 == x2 \o last
<1>9. /\ x1 \in Seq(Symbols) /\ Len(x1) = h + 8
      /\ \A i \in 1..(h + 8) : x1[i] = IF i <= h THEN first[i] ELSE bits[i - h]
  <2>1. /\ x1 \in Seq(Symbols) /\ Len(x1) = Len(first) + Len(bits)
        /\ \A i \in 1 .. Len(first) + Len(bits) :
              x1[i] = IF i <= Len(first) THEN first[i] ELSE bits[i - Len(first)]
    BY <1>1, <1>2, ConcatProperties
  <2>2. QED
    BY <1>1, <1>2, <2>1, Zenon
<1> HIDE DEF x1
<1>10. /\ x2 \in Seq(Symbols) /\ Len(x2) = h + 9
       /\ \A i \in 1..(h + 9) : x2[i] = IF i <= h + 8 THEN x1[i] ELSE <<ack>>[i - (h + 8)]
  <2>1. /\ x2 \in Seq(Symbols) /\ Len(x2) = Len(x1) + Len(<<ack>>)
        /\ \A i \in 1 .. Len(x1) + Len(<<ack>>) :
              x2[i] = IF i <= Len(x1) THEN x1[i] ELSE <<ack>>[i - Len(x1)]
    BY <1>3, <1>9, ConcatProperties
  <2>2. Len(x1) + Len(<<ack>>) = h + 9
    BY <1>3, <1>7, <1>9
  <2>3. QED
    BY <1>9, <2>1, <2>2, Zenon
<1> HIDE DEF x2
<1>11. /\ x3 \in Seq(Symbols) /\ Len(x3) = h + 9 + Len(last)
       /\ \A i \in 1..(h + 9 + Len(last)) : x3[i] = IF i <= h + 9 THEN x2[i] ELSE last[i - (h + 9)]
  <2>1. /\ x3 \in Seq(Symbols) /\ Len(x3) = Len(x2) + Len(last)
        /\ \A i \in 1 .. Len(x2) + Len(last) :
              x3[i] = IF i <= Len(x2) THEN x2[i] ELSE last[i - Len(x2)]
    BY <1>4, <1>10, ConcatProperties
  <2>2. QED
    BY <1>10, <2>1, Zenon
<1> HIDE DEF x3
<1>12. ASSUME NEW i \in 1..(h + 9 + Len(last)) PROVE x3[i] = SymbolAt(op, byte, a, i)
  <2>1. CASE i <= h
    <3>1. i \in 1..(h + 9) /\ i \in 1..(h + 8) /\ i <= h + 9 /\ i <= h + 8 /\ i \in 1..Len(first)
      BY <1>1, <1>7, <2>1
    <3>2. x3[i] = "START"
      BY <1>1, <1>9, <1>10, <1>11, <2>1, <3>1, Zenon
    <3>3. QED
      BY <1>8, <2>1, <3>2
  <2>2. CASE i > h /\ i <= h + 8
    <3>1. i \in 1..(h + 9) /\ i \in 1..(h + 8) /\ i <= h + 9 /\ ~(i <= h) /\ i - h \in 1..8
      BY <1>7, <2>2
    <3>2. x3[i] = BitSymbol(BitOf(byte, 8 - (i - h)))
      BY <1>2, <1>9, <1>10, <1>11, <2>2, <3>1, Zenon
    <3>3. QED
      BY <1>8, <2>2, <3>2
  <2>3. CASE i = h + 9
    <3>1. i \in 1..(h + 9) /\ i <= h + 9 /\ ~(i <= h + 8) /\ i - (h + 8) = 1
      BY <1>7, <2>3
    <3>2. x3[i] = ack
      BY <1>3, <1>10, <1>11, <3>1, Zenon
    <3>3. QED
      BY <1>8, <2>3, <3>2
  <2>4. CASE i > h + 9
    <3>1. ~(i <= h + 9) /\ i - (h + 9) \in 1..Len(last)
      BY <1>7, <2>4
    <3>2. x3[i] = "STOP"
      BY <1>4, <1>11, <3>1, Zenon
    <3>3. QED
      BY <1>8, <2>4, <3>2
  <2>5. QED
    BY <1>7, <2>1, <2>2, <2>3, <2>4
<1>13. x3 = whole
  <2>1. Len(x3) = Len(whole) /\ \A i \in 1..Len(x3) : x3[i] = whole[i]
    BY <1>6, <1>7, <1>11, <1>12
  <2>2. QED
    BY <1>6, <1>11, <2>1, SeqEqual
<1>14. QED
  BY <1>5, <1>13 DEF ack, x1, x2, x3, whole

\* A transaction of no operation puts nothing on the bus.
LEMMA SymbolledNothing == \A t, r, a : Symbolled(t, r, 0, a) = <<>>
<1> TAKE t, r, a
<1>1. 1..0 = {}
  OBVIOUS
<1>2. Parts(t, r, 0, a) = [i \in {} |->
        Sent(t[i], ByteAt(t, r, i), IF i < 0 THEN "0" ELSE a, OpLength(t[i]))]
  BY <1>1, Zenon DEF Parts
<1>3. Parts(t, r, 0, a) = <<>>
  BY <1>2
<1>4. Len(Parts(t, r, 0, a)) = 0
  BY <1>3, EmptySeq
<1>5. QED
  BY <1>3, <1>4, Zenon DEF Symbolled, FlattenSeq

\* The parts of a transaction.
LEMMA PartsType ==
    ASSUME NEW t, NEW r, NEW n \in Nat, NEW a \in Symbols
    PROVE  Parts(t, r, n, a) \in Seq(Seq(Symbols)) /\ Len(Parts(t, r, n, a)) = n
<1> DEFINE part(i) == Sent(t[i], ByteAt(t, r, i), IF i < n THEN "0" ELSE a, OpLength(t[i]))
<1>1. ASSUME NEW i \in 1..n PROVE part(i) \in Seq(Symbols)
  <2>1. (IF i < n THEN "0" ELSE a) \in Symbols
    BY DEF Symbols
  <2>2. OpLength(t[i]) \in Nat
    BY OpLengthType
  <2>3. QED
    BY <2>1, <2>2, SentType
<1>2. Parts(t, r, n, a) = [i \in 1..n |-> part(i)]
  BY Zenon DEF Parts
<1> HIDE DEF part
<1>3. Parts(t, r, n, a) \in [1..n -> Seq(Symbols)] /\ DOMAIN Parts(t, r, n, a) = 1..n
  BY <1>1, <1>2, Zenon
<1>4. Parts(t, r, n, a) \in Seq(Seq(Symbols))
  BY <1>3, SeqDef
<1>5. QED
  BY <1>3, <1>4, LenProperties

\* The symbols of a transaction are symbols.
LEMMA SymbolledType ==
    ASSUME NEW t, NEW r, NEW n \in Nat, NEW a \in Symbols
    PROVE  Symbolled(t, r, n, a) \in Seq(Symbols)
BY PartsType, FlattenType DEF Symbolled

\* One operation more; those before it have been acknowledged.
LEMMA SymbolledStep ==
    ASSUME NEW t, NEW r, NEW n \in Nat, n >= 1, NEW a \in Symbols
    PROVE  Symbolled(t, r, n, a) =
             Symbolled(t, r, n - 1, "0") \o Sent(t[n], ByteAt(t, r, n), a, OpLength(t[n]))
<1> DEFINE u == Parts(t, r, n, a)
           s == Parts(t, r, n - 1, "0")
<1>1. n - 1 \in Nat /\ "0" \in Symbols
  BY DEF Symbols
<1>2. u \in Seq(Seq(Symbols)) /\ Len(u) = n
  BY PartsType
<1>3. s \in Seq(Seq(Symbols)) /\ Len(s) = n - 1
  BY <1>1, PartsType
<1>4. \A i \in 1..n :
        u[i] = Sent(t[i], ByteAt(t, r, i), IF i < n THEN "0" ELSE a, OpLength(t[i]))
  BY Zenon DEF Parts
<1>5. \A i \in 1..(n - 1) : s[i] = Sent(t[i], ByteAt(t, r, i), "0", OpLength(t[i]))
  BY Zenon DEF Parts
<1> HIDE DEF u, s
<1>6. ASSUME NEW i \in 1..(n - 1) PROVE u[i] = s[i]
  <2>1. i \in 1..n /\ i < n
    OBVIOUS
  <2>2. QED
    BY <1>4, <1>5, <2>1, Zenon
<1>7. u[n] = Sent(t[n], ByteAt(t, r, n), a, OpLength(t[n]))
  <2>1. n \in 1..n /\ ~(n < n)
    OBVIOUS
  <2>2. QED
    BY <1>4, <2>1, Zenon
<1>8. Len(u) = Len(s) + 1 /\ \A i \in 1..Len(s) : u[i] = s[i]
  BY <1>2, <1>3, <1>6
<1>9. FlattenSeq(u) = FlattenSeq(s) \o u[Len(u)]
  BY <1>2, <1>3, <1>8, FlattenStep
<1>10. QED
  BY <1>2, <1>7, <1>9 DEF Symbolled, u, s

\* What a receive, or an operation before the last, is answered is its own.
LEMMA SymbolledSame ==
    ASSUME NEW t, NEW r, NEW n \in Nat, n >= 1, NEW a \in Symbols, NEW b \in Symbols, t[n].rx
    PROVE  Symbolled(t, r, n, a) = Symbolled(t, r, n, b)
<1>1. Sent(t[n], ByteAt(t, r, n), a, OpLength(t[n]))
        = Sent(t[n], ByteAt(t, r, n), b, OpLength(t[n]))
  BY OpLengthType, SentSame
<1>2. QED
  BY <1>1, SymbolledStep

\* A reply that no operation so far has received does not matter.
LEMMA SymbolledAppend ==
    ASSUME NEW t, WellFormed(t), NEW r \in Seq(0..255), NEW b \in 0..255, NEW n \in 0..Len(t),
           Len(r) >= n - Len(t) + 2, NEW a
    PROVE  Symbolled(t, Append(r, b), n, a) = Symbolled(t, r, n, a)
<1>1. ASSUME NEW i \in 1..n PROVE ByteAt(t, Append(r, b), i) = ByteAt(t, r, i)
  <2>1. CASE t[i].rx
    <3>1. Len(t) \in Nat /\ i \in 1..Len(t) /\ Len(r) \in Nat
      BY LenProperties DEF WellFormed
    <3>2. i >= Len(t) - 1
      BY <2>1, <3>1 DEF WellFormed
    <3>3. i - Len(t) + 2 \in 1..Len(r)
      BY <3>1, <3>2
    <3>4. Append(r, b)[i - Len(t) + 2] = r[i - Len(t) + 2]
      BY <3>3, AppendProperties
    <3>5. QED
      BY <2>1, <3>4, Zenon DEF ByteAt
  <2>2. CASE ~t[i].rx
    BY <2>2, Zenon DEF ByteAt
  <2>3. QED
    BY <2>1, <2>2
<1>2. [i \in 1..n |->
         Sent(t[i], ByteAt(t, Append(r, b), i), IF i < n THEN "0" ELSE a, OpLength(t[i]))]
      = [i \in 1..n |-> Sent(t[i], ByteAt(t, r, i), IF i < n THEN "0" ELSE a, OpLength(t[i]))]
  BY <1>1, Zenon
<1>3. QED
  BY <1>2, Zenon DEF Symbolled, Parts

\* The reply b that follows r is to none of the first n operations of t.
Unread(t, r, b, n) ==
    /\ WellFormed(t) /\ n \in 0..Len(t)
    /\ r \in Seq(0..255) /\ b \in 0..255
    /\ n = 0 \/ ~t[n].rx \/ Len(r) >= n - Len(t) + 2

\* Nor does it matter before anything is received.
LEMMA SymbolledUnread ==
    ASSUME NEW t, NEW r, NEW b, NEW n, Unread(t, r, b, n), NEW a
    PROVE  Symbolled(t, Append(r, b), n, a) = Symbolled(t, r, n, a)
<1> USE DEF Unread
<1>1. CASE n = 0 \/ ~t[n].rx
  <2>1. ASSUME NEW i \in 1..n PROVE ByteAt(t, Append(r, b), i) = ByteAt(t, r, i)
    <3>1. Len(t) \in Nat /\ i \in 1..Len(t) /\ n \in 1..Len(t) /\ i <= n
      BY DEF WellFormed
    <3>2. ~t[i].rx
      BY <1>1, <3>1 DEF WellFormed
    <3>3. QED
      BY <3>2, Zenon DEF ByteAt
  <2>2. [i \in 1..n |->
           Sent(t[i], ByteAt(t, Append(r, b), i), IF i < n THEN "0" ELSE a, OpLength(t[i]))]
        = [i \in 1..n |->
             Sent(t[i], ByteAt(t, r, i), IF i < n THEN "0" ELSE a, OpLength(t[i]))]
    BY <2>1, Zenon
  <2>3. QED
    BY <2>2, Zenon DEF Symbolled, Parts
<1>2. CASE Len(r) >= n - Len(t) + 2
  BY <1>2, SymbolledAppend
<1>3. QED
  BY <1>1, <1>2

\* Symbolled is TxnSymbols.
LEMMA SymbolledIs ==
    ASSUME WellFormed(txn), NEW n \in 0..Len(txn), NEW a \in Symbols
    PROVE  TxnSymbols(n, a) = Symbolled(txn, replies, n, a)
<1>1. ASSUME NEW i \in 1..n PROVE ByteOf(i) = ByteAt(txn, replies, i)
  <2>1. CASE txn[i].rx
    <3>1. Len(txn) \in Nat /\ i \in 1..Len(txn) /\ Len(txn) >= 2
      BY DEF WellFormed
    <3>2. txn[Len(txn)].rx /\ i >= Len(txn) - 1
      BY <2>1, <3>1 DEF WellFormed
    <3>3. {j \in 1..i : txn[j].rx} = (Len(txn) - 1)..i
      <4>1. ASSUME NEW j \in 1..i PROVE txn[j].rx <=> j >= Len(txn) - 1
        BY <3>1, <3>2 DEF WellFormed
      <4>2. QED
        BY <3>1, <4>1
    <3>4. Cardinality((Len(txn) - 1)..i) = i - (Len(txn) - 1) + 1
      <4>1. Len(txn) - 1 \in Int /\ i \in Int /\ ~(Len(txn) - 1 > i)
        BY <3>1, <3>2
      <4>2. QED
        BY <4>1, FS_Interval
    <3>5. i - (Len(txn) - 1) + 1 = i - Len(txn) + 2
      BY <3>1
    <3>6. QED
      BY <2>1, <3>3, <3>4, <3>5, Zenon DEF ByteOf, ByteAt
  <2>2. CASE ~txn[i].rx
    BY <2>2, Zenon DEF ByteOf, ByteAt
  <2>3. QED
    BY <2>1, <2>2
<1>2. ASSUME NEW i \in 1..n
      PROVE  OpSymbols(txn[i], ByteOf(i),
                       IF txn[i].rx THEN BitSymbol(txn[i].nack) ELSE IF i < n THEN "0" ELSE a)
             = Sent(txn[i], ByteAt(txn, replies, i), IF i < n THEN "0" ELSE a, OpLength(txn[i]))
  <2> DEFINE b == IF i < n THEN "0" ELSE a
  <2>1. b \in Symbols
    BY DEF Symbols
  <2> HIDE DEF b
  <2>2. OpSymbols(txn[i], ByteOf(i), IF txn[i].rx THEN BitSymbol(txn[i].nack) ELSE b)
        = Sent(txn[i], ByteAt(txn, replies, i), b, OpLength(txn[i]))
    BY <1>1, <2>1, OpSymbolsAre
  <2>3. QED
    BY <2>2, Zenon DEF b
<1>3. [i \in 1..n |-> OpSymbols(txn[i], ByteOf(i),
                       IF txn[i].rx THEN BitSymbol(txn[i].nack) ELSE IF i < n THEN "0" ELSE a)]
      = [i \in 1..n |->
           Sent(txn[i], ByteAt(txn, replies, i), IF i < n THEN "0" ELSE a, OpLength(txn[i]))]
  BY <1>2, Zenon
<1>4. QED
  BY <1>3, Zenon DEF TxnSymbols, Symbolled, Parts

\* Part of an operation is a prefix of the whole.
LEMMA SentIsPrefix ==
    ASSUME NEW base \in Seq(Symbols), NEW op, NEW byte, NEW a \in Symbols, NEW p \in 0..OpLength(op)
    PROVE  IsPrefix(base \o Sent(op, byte, a, p), base \o Sent(op, byte, a, OpLength(op)))
<1> DEFINE q == OpLength(op)
           u == Sent(op, byte, a, p)
           v == Sent(op, byte, a, q)
           s == base \o u
           t == base \o v
           n == Len(base)
<1>1. q \in Nat /\ p \in Nat /\ p <= q /\ n \in Nat
  BY OpLengthType, LenProperties
<1>2. u \in Seq(Symbols) /\ Len(u) = p /\ v \in Seq(Symbols) /\ Len(v) = q
  BY <1>1, SentType
<1>3. \A i \in 1..p : u[i] = v[i]
  <2>1. \A i \in 1..p : i \in 1..q
    BY <1>1
  <2>2. QED
    BY <2>1, Zenon DEF Sent
<1> HIDE DEF q, u, v
<1>4. /\ s \in Seq(Symbols) /\ Len(s) = n + p
      /\ \A i \in 1..(n + p) : s[i] = IF i <= n THEN base[i] ELSE u[i - n]
  BY <1>2, ConcatProperties
<1>5. /\ t \in Seq(Symbols) /\ Len(t) = n + q
      /\ \A i \in 1..(n + q) : t[i] = IF i <= n THEN base[i] ELSE v[i - n]
  BY <1>2, ConcatProperties
<1> HIDE DEF s, t, n
<1>6. ASSUME NEW i \in 1..(n + p) PROVE s[i] = t[i]
  <2>1. i \in 1..(n + q) /\ (~(i <= n) => i - n \in 1..p)
    BY <1>1
  <2>2. QED
    BY <1>3, <1>4, <1>5, <2>1, Zenon
<1>7. Len(s) <= Len(t)
  BY <1>1, <1>4, <1>5
<1>8. \A i \in 1..Len(s) : s[i] = t[i]
  BY <1>4, <1>6
<1>9. IsPrefix(s, t)
  BY <1>7, <1>8 DEF IsPrefix
<1>10. QED
  BY <1>9 DEF s, t, u, v, q

-----------------------------------------------------------------------------
(* The inductive invariant: where on the wire the core is, what of the     *)
(* byte is in the shift register, and what has been concluded from it.     *)

ThisOp == txn[k]
Pending == pc = "wait" /\ outcome = "pending"

\* A transaction begun stays, with its place in it, after it has returned.
Kept ==
    /\ txn # <<>> => txn \in Txns /\ k \in 1..Len(txn) /\ pc \in Busy \cup {"idle"}
    /\ txn = <<>> => ret = NoReturn

\* The registers hold the operation under way.
Stored ==
    /\ pc = "txr" => ~ThisOp.rx
    /\ pc = "command" \/ Pending => ThisOp.rx \/ txr = ThisOp.byte
    /\ Pending => command = CommandOf(ThisOp) /\ (ThisOp.rx \/ left = 0)

\* The bit command of a state of the byte controller, and its strobes.
BitCommandOf(op, state) ==
    IF state = "IDLE" THEN "NOP"
    ELSE IF state = "ACK" THEN (IF op.rx THEN "WRITE" ELSE "READ")
    ELSE state

Turn ==
    /\ core_cmd = BitCommandOf(ThisOp, byte_state)
    /\ serving \in {"NOP", core_cmd}
    /\ byte_state = "START" => ThisOp.sta
    /\ byte_state = "READ" => ThisOp.rx
    /\ byte_state = "WRITE" => ~ThisOp.rx
    /\ byte_state = "STOP" => ThisOp.sto
    /\ core_ack => ~shift /\ ~ld
    /\ shift => ~ld /\ byte_state \in {"READ", "WRITE", "ACK"}
    /\ shift /\ byte_state \in {"READ", "WRITE"} => dcnt >= 1
    /\ shift /\ byte_state = "ACK" => ThisOp.rx /\ dcnt = 0
    /\ ld => byte_state \in {"START", "READ", "WRITE"}

\* The symbols of the operation that are on the wire.
BitsDone == IF ld THEN 0 ELSE 7 - dcnt + (IF core_ack \/ shift THEN 1 ELSE 0)
Acked == IF core_ack THEN 1 ELSE 0

Place ==
    IF byte_state = "IDLE" THEN (IF done THEN OpLength(ThisOp) ELSE 0)
    ELSE IF byte_state = "START" THEN Acked
    ELSE IF byte_state = "ACK" THEN Starts(ThisOp) + 8 + Acked
    ELSE IF byte_state = "STOP" THEN Starts(ThisOp) + 9 + Acked
    ELSE Starts(ThisOp) + BitsDone

\* The ACK bit, from the moment it is on the wire.
ThisAck == BitSymbol(IF byte_state = "ACK" THEN core_rxd ELSE rxack)

\* What went before, and the byte of the operation.
Before == Symbolled(txn, replies, k - 1, "0")
ThisByte == ByteAt(txn, replies, k)

Position == wire = Before \o Sent(ThisOp, ThisByte, ThisAck, Place)

\* What is left of a byte to be sent is at the top of the shift register.
Writing ==
    byte_state = "WRITE" /\ ~ld =>
        \A i \in (7 - dcnt)..7 : BitOf(rxr, i) <=> BitOf(txr, i - (7 - dcnt))

\* What has been received of a reply is at its bottom.
Reading ==
    ThisOp.rx =>
        /\ (byte_state = "IDLE" /\ ~done) \/ byte_state = "START" \/ ld => left = 8
        /\ byte_state = "READ" /\ ~ld => left = 8 - BitsDone
        /\ ~ld /\ (byte_state = "READ" \/ (byte_state = "ACK" /\ shift)) =>
             /\ \A i \in 0..(6 - dcnt) : BitOf(rxr, i) <=> BitOf(reply, dcnt + 1 + i)
             /\ core_ack \/ shift => (core_rxd <=> BitOf(reply, dcnt))
        /\ (byte_state = "ACK" /\ ~shift) \/ byte_state = "STOP"
             \/ (byte_state = "IDLE" /\ done) => rxr = reply

InProgress == Pending /\ ~i2c_al => Turn /\ Position /\ Writing /\ Reading

\* Whatever becomes of an operation, what is on the wire is part of it.
OnWire ==
    txn # <<>> =>
        IF pc \in {"txr", "command"}
        THEN wire = Before
        ELSE \E a \in {"0", "1"}, p \in 0..OpLength(ThisOp) :
                wire = Before \o Sent(ThisOp, ThisByte, a, p)

\* The bytes received are those the peripheral was read.
Answered ==
    /\ pc \in Busy =>
         /\ Len(replies) = IF ~ThisOp.rx THEN 0
                           ELSE IF pc = "command" THEN k - Len(txn) + 1 ELSE k - Len(txn) + 2
         /\ pc = "check" => outcome = "lost" \/ rx = replies
         /\ pc # "check" => \A j \in 1..Len(rx) : rx[j] = replies[j]
    /\ pc \in {"wait", "rxr"} /\ ThisOp.rx => reply = replies[Len(replies)]
    /\ pc \in {"wait", "rxr"} /\ ThisOp.rx /\ outcome = "done" => rxr = reply

\* An operation that is done is on the wire as a whole.
Complete ==
    pc \in {"wait", "rxr", "check"} /\ outcome = "done" =>
        wire = Symbolled(txn, replies, k, BitSymbol(rxack))

\* What the driver has read of the status register.
Told ==
    /\ pc \in {"rxr", "check"} =>
         /\ outcome \in {"done", "lost"}
         /\ status.RxACK = rxack
         /\ status.ArbLost <=> outcome = "lost"
    /\ outcome = "lost" => ~rxack

\* ReturnTruthful, in these terms.
Returned ==
    pc = "idle" /\ ret # NoReturn =>
        /\ txn # <<>>
        /\ \/ /\ ret >= 0
              /\ wire = Symbolled(txn, replies, Len(txn), "0")
              /\ ret = IF Len(replies) = 2 THEN 256 * replies[1] + replies[2] ELSE 0
           \/ /\ ret = ENACK
              /\ ~ThisOp.rx
              /\ wire = Symbolled(txn, replies, k, "1")
           \/ /\ ret = EARB
              /\ outcome = "lost"

WInv == Kept /\ Stored /\ InProgress /\ OnWire /\ Answered /\ Complete /\ Told /\ Returned

\* All that is known of a state.
AllInv == IInv /\ Offering /\ TypeOK /\ Placed /\ WInv

\* What the transaction puts on the wire up to the operation under way.
LEMMA SymbolledHere ==
    ASSUME k \in Nat, k >= 1, NEW a \in Symbols
    PROVE  Symbolled(txn, replies, k, a) = Before \o Sent(ThisOp, ThisByte, a, OpLength(ThisOp))
BY SymbolledStep DEF Before, ThisOp, ThisByte

\* A clock changes nothing of the transaction, and no data register but rxr.
LEMMA TickKeeps ==
    ASSUME Tick
    PROVE  /\ pc' = pc /\ txn' = txn /\ k' = k /\ status' = status /\ rx' = rx /\ ret' = ret
           /\ txr' = txr /\ reply' = reply /\ replies' = replies
           /\ ThisOp' = ThisOp /\ Before' = Before /\ ThisByte' = ThisByte
<1>1. CsrTick /\ DriverTick
  BY TickParts
<1>2. PeripheralTick
  BY DEF Tick, TickAbort, TickAccept, TickRest, TickWork, TickFinish, Clock
<1>3. /\ pc' = pc /\ txn' = txn /\ k' = k /\ status' = status /\ rx' = rx /\ ret' = ret
      /\ txr' = txr /\ reply' = reply /\ replies' = replies
  BY <1>1, <1>2 DEF CsrTick, DriverTick, PeripheralTick
<1>4. QED
  BY <1>3 DEF ThisOp, Before, ThisByte

\* What is known of an operation under way that is neither lost nor done.
LEMMA UnderwayKnown ==
    ASSUME AllInv, Pending
    PROVE  /\ ThisOp \in Op /\ k \in Nat /\ k >= 1 /\ k \in 1..Len(txn) /\ WellFormed(txn)
           /\ command = CommandOf(ThisOp) /\ ~core_reset
           /\ ThisOp.rx \/ (txr = ThisOp.byte /\ left = 0)
           /\ ThisByte = (IF ThisOp.rx THEN reply ELSE txr)
           /\ rxr \in 0..255 /\ txr \in 0..255 /\ reply \in 0..255 /\ dcnt \in 0..7 /\ left \in 0..8
           /\ core_rxd \in BOOLEAN /\ core_ack \in BOOLEAN /\ shift \in BOOLEAN /\ ld \in BOOLEAN
           /\ rxack \in BOOLEAN /\ done \in BOOLEAN /\ i2c_al \in BOOLEAN
           /\ Before \in Seq(Symbols)
<1>1. pc = "wait" /\ pc \in Busy
  BY DEF Pending, Busy
<1>2. WellFormed(txn) /\ ThisOp \in Op /\ k \in 1..Len(txn)
  BY <1>1, CurrentOp DEF AllInv, ThisOp
<1>3. k \in Nat /\ k >= 1 /\ Len(txn) \in Nat
  BY <1>2 DEF WellFormed
<1>4. ThisByte = (IF ThisOp.rx THEN reply ELSE txr)
  <2>1. CASE ThisOp.rx
    <3>1. Len(replies) = k - Len(txn) + 2 /\ reply = replies[Len(replies)]
      BY <1>1, <2>1 DEF AllInv, WInv, Answered
    <3>2. QED
      BY <2>1, <3>1 DEF ThisByte, ByteAt, ThisOp
  <2>2. CASE ~ThisOp.rx
    <3>1. txr = ThisOp.byte
      BY <2>2 DEF AllInv, WInv, Stored
    <3>2. QED
      BY <2>2, <3>1 DEF ThisByte, ByteAt, ThisOp
  <2>3. QED
    BY <2>1, <2>2
<1>5. Before \in Seq(Symbols)
  <2>1. k - 1 \in Nat /\ "0" \in Symbols
    BY <1>3 DEF Symbols
  <2>2. QED
    BY <2>1, SymbolledType DEF Before
<1>6. command = CommandOf(ThisOp) /\ (ThisOp.rx \/ (txr = ThisOp.byte /\ left = 0))
  BY DEF AllInv, WInv, Stored
<1>7. ~core_reset
  BY <1>1 DEF AllInv, IInv, ResetOver
<1>8. /\ rxr \in 0..255 /\ txr \in 0..255 /\ reply \in 0..255 /\ dcnt \in 0..7 /\ left \in 0..8
      /\ core_rxd \in BOOLEAN /\ core_ack \in BOOLEAN /\ shift \in BOOLEAN /\ ld \in BOOLEAN
      /\ rxack \in BOOLEAN /\ done \in BOOLEAN /\ i2c_al \in BOOLEAN
  BY DEF AllInv, TypeOK, CsrTypeOK, Byte!TypeOK, Bit!TypeOK
<1>9. QED
  BY <1>2, <1>3, <1>4, <1>5, <1>6, <1>7, <1>8

-----------------------------------------------------------------------------
(* A clock of an operation that goes on.                                   *)

\* The place is a place in the operation.
LEMMA PlaceType ==
    ASSUME Turn, dcnt \in 0..7
    PROVE  Place \in 0..OpLength(ThisOp)
<1>1. /\ Starts(ThisOp) \in {0, 1}
      /\ OpLength(ThisOp) = Starts(ThisOp) + 9 + (IF ThisOp.sto THEN 1 ELSE 0)
  BY OpLengthType
<1>2. Acked \in {0, 1} /\ BitsDone \in 0..8
  BY DEF Acked, BitsDone
<1>3. byte_state = "START" => Starts(ThisOp) = 1
  BY DEF Turn, Starts
<1>4. QED
  BY <1>1, <1>2, <1>3 DEF Turn, Place

\* The ACK bit is of no account yet, or it stays.
SameAck == ThisAck' = ThisAck \/ ThisOp.rx \/ Place <= Starts(ThisOp) + 8

\* The ACK bit is a symbol after the step.
LEMMA AckTypeNext == ThisAck' \in Symbols
BY DEF ThisAck, BitSymbol, Symbols

\* Nothing more is on the wire.
LEMMA PositionStays ==
    ASSUME AllInv, Pending, Tick, Turn, Position, SameAck, wire' = wire, Place' = Place
    PROVE  Position'
<1>1. ThisOp' = ThisOp /\ Before' = Before /\ ThisByte' = ThisByte
  BY TickKeeps
<1>2. Place \in Nat
  BY UnderwayKnown, PlaceType, OpLengthType
<1>3. Sent(ThisOp, ThisByte, ThisAck, Place) = Sent(ThisOp, ThisByte, ThisAck', Place)
  BY <1>2, SentSame DEF SameAck
<1>4. QED
  BY <1>1, <1>3 DEF Position

\* The next symbol is on the wire.
LEMMA PositionMoves ==
    ASSUME AllInv, Pending, Tick, Turn, Position, SameAck, Place' = Place + 1,
           wire' = Append(wire, SymbolAt(ThisOp, ThisByte, ThisAck', Place + 1))
    PROVE  Position'
<1> DEFINE a == ThisAck'
           x == SymbolAt(ThisOp, ThisByte, a, Place + 1)
           s == Sent(ThisOp, ThisByte, a, Place)
<1>1. ThisOp' = ThisOp /\ Before' = Before /\ ThisByte' = ThisByte
  BY TickKeeps
<1>2. Place \in Nat /\ Before \in Seq(Symbols)
  BY UnderwayKnown, PlaceType, OpLengthType
<1>3. Sent(ThisOp, ThisByte, ThisAck, Place) = s
  BY <1>2, SentSame DEF SameAck
<1>4. a \in Symbols
  BY AckTypeNext
<1>5. Sent(ThisOp, ThisByte, a, Place + 1) = Append(s, x)
  BY <1>2, <1>4, SentGrows
<1>6. s \in Seq(Symbols) /\ x \in Symbols
  BY <1>2, <1>4, SentType, SymbolType
<1>7. wire = Before \o s /\ wire' = Append(wire, x)
  BY <1>3 DEF Position
<1> HIDE DEF a, s, x
<1>8. Append(Before \o s, x) = Before \o Append(s, x)
  <2>1. <<x>> \in Seq(Symbols) /\ Before \o s \in Seq(Symbols)
    BY <1>2, <1>6, ConcatProperties
  <2>2. Append(Before \o s, x) = (Before \o s) \o <<x>> /\ Append(s, x) = s \o <<x>>
    BY <1>6, <2>1, AppendIsConcat
  <2>3. (Before \o s) \o <<x>> = Before \o (s \o <<x>>)
    BY <1>2, <1>6, <2>1, ConcatAssociative
  <2>4. QED
    BY <2>2, <2>3
<1>9. wire' = Before \o Sent(ThisOp, ThisByte, a, Place + 1)
  BY <1>5, <1>7, <1>8
<1>10. QED
  BY <1>1, <1>9 DEF Position, a

\* What the layers below do in a clock of an operation that goes on.
LEMMA UnderwayTick ==
    ASSUME AllInv, Pending, ~i2c_al, ~done, Tick
    PROVE  /\ Bit!Next /\ Byte!StateMachine /\ ~Byte!Abort /\ PeripheralTick /\ WireTick
           /\ rxr' = (IF ld THEN txr ELSE IF shift THEN Byte!ShiftIn(rxr, core_rxd) ELSE rxr)
           /\ dcnt' = (IF ld THEN 7 ELSE IF shift THEN (dcnt + 7) % 8 ELSE dcnt)
           /\ core_ack' \in BOOLEAN /\ core_rxd' \in BOOLEAN /\ i2c_al' \in BOOLEAN
           /\ outcome' = "pending" /\ command' = command
<1>1. Bit!Next /\ Byte!Tick /\ CsrTick /\ OutcomeTick /\ PeripheralTick /\ WireTick
  BY DEF Tick, TickAbort, TickAccept, TickRest, TickWork, TickFinish, Clock, CoreTick, Bit!Next
<1>2. ~core_reset /\ command = CommandOf(ThisOp)
  BY UnderwayKnown
<1>3. command' = command
  <2>1. command' = [command EXCEPT !.IACK = FALSE]
    BY <1>1 DEF CsrTick, CommandAfter
  <2>2. command \in Command /\ command.IACK = FALSE
    BY <1>2 DEF AllInv, TypeOK, CsrTypeOK, CommandOf
  <2>3. QED
    BY <2>1, <2>2 DEF Command
<1>4. Bit!TypeOK'
  BY <1>1, BitTypeStep DEF AllInv, TypeOK
<1>5. outcome' = "pending"
  BY <1>1 DEF OutcomeTick, Pending
<1>6. Byte!StateMachine /\ ~Byte!Abort
  BY <1>1, <1>2 DEF Byte!Tick, Byte!Abort
<1>7. /\ rxr' = (IF ld THEN txr ELSE IF shift THEN Byte!ShiftIn(rxr, core_rxd) ELSE rxr)
      /\ dcnt' = (IF ld THEN 7 ELSE IF shift THEN (dcnt + 7) % 8 ELSE dcnt)
  BY <1>1, <1>2 DEF Byte!Tick, Byte!ShiftRegister, Byte!BitCounter
<1>8. QED
  BY <1>1, <1>3, <1>4, <1>5, <1>6, <1>7 DEF Bit!TypeOK

\* A clock in which no bit command ends leaves the wire and the peripheral.
LEMMA NoSymbol ==
    ASSUME AllInv, Pending, ~i2c_al, ~done, Tick, ~core_ack'
    PROVE  wire' = wire /\ left' = left
BY UnderwayTick DEF WireTick, PeripheralTick

\* The first clock: the byte controller takes the command.
LEMMA ProgressIdle ==
    ASSUME AllInv, Pending, ~i2c_al, ~done, Tick, byte_state = "IDLE"
    PROVE  (Turn /\ Position /\ Writing /\ Reading)'
<1> USE DEF Byte!Goto, Byte!Strobes
<1>1. Turn /\ Position /\ Writing /\ Reading
  BY DEF AllInv, WInv, InProgress
<1>2. core_cmd = "NOP" /\ serving = "NOP" /\ ~core_ack /\ ~shift /\ ~ld
  BY DEF AllInv, IInv, Handshake
<1>3. ~core_reset /\ command = CommandOf(ThisOp)
  BY UnderwayKnown
<1>4. ThisOp' = ThisOp
  BY TickKeeps
<1>5. ~core_ack' /\ serving' = "NOP"
  BY <1>2, BitStep, UnderwayTick
<1>6. Byte!Idle
  BY UnderwayTick
  DEF Byte!StateMachine, Byte!Pending, Byte!Started, Byte!BitWritten, Byte!BitRead,
      Byte!Acknowledged, Byte!Stopped
<1>7. Byte!go
  BY <1>3 DEF Byte!go, CommandOf
<1>8. /\ byte_state' = Byte!FirstCommand /\ core_cmd' = Byte!FirstCommand
      /\ ~shift' /\ ld' /\ ~done' /\ rxack' = rxack
  BY <1>6, <1>7 DEF Byte!Idle
<1>9. Byte!FirstCommand = IF ThisOp.sta THEN "START" ELSE IF ThisOp.rx THEN "READ" ELSE "WRITE"
  BY <1>3 DEF Byte!FirstCommand, CommandOf
<1>10. wire' = wire /\ left' = left
  BY <1>5, NoSymbol
<1>11. Turn'
  BY <1>4, <1>5, <1>8, <1>9 DEF Turn, BitCommandOf
<1>12. Place = 0 /\ Place' = 0
  BY <1>4, <1>5, <1>8, <1>9 DEF Place, Acked, BitsDone, Starts
<1>13. SameAck
  BY <1>12, OpLengthType DEF SameAck
<1>14. Position'
  BY <1>1, <1>10, <1>12, <1>13, PositionStays
<1>15. Writing'
  BY <1>8 DEF Writing
<1>16. Reading'
  <2>1. ThisOp.rx => left = 8
    BY <1>1 DEF Reading
  <2>2. QED
    BY <1>4, <1>8, <1>9, <1>10, <2>1 DEF Reading
<1>17. QED
  BY <1>11, <1>14, <1>15, <1>16

\* A bit of the shift register moves up by one; the last one is the bit read.
LEMMA ShiftedBits ==
    ASSUME NEW x \in 0..255, NEW b \in BOOLEAN, NEW y, y = Byte!ShiftIn(x, b)
    PROVE  /\ y \in 0..255
           /\ BitOf(y, 0) <=> b
           /\ \A i \in 1..7 : BitOf(y, i) <=> BitOf(x, i - 1)
<1>1. /\ y \in 0..255
      /\ BitOf(y, 0) <=> b
      /\ \A i \in 0..6 : BitOf(y, i + 1) <=> BitOf(x, i)
  BY BitsOfShift
<1>2. ASSUME NEW i \in 1..7 PROVE BitOf(y, i) <=> BitOf(x, i - 1)
  <2>1. i - 1 \in 0..6 /\ (i - 1) + 1 = i
    OBVIOUS
  <2>2. BitOf(y, (i - 1) + 1) <=> BitOf(x, i - 1)
    BY <1>1, <2>1, Zenon
  <2>3. QED
    BY <2>1, <2>2
<1>3. QED
  BY <1>1, <1>2

\* What the byte controller does while it waits for its bit command.
LEMMA WaitingTick ==
    ASSUME AllInv, Pending, ~i2c_al, ~done, Tick, byte_state # "IDLE", ~core_ack
    PROVE  /\ byte_state' = byte_state /\ core_cmd' = core_cmd /\ rxack' = rxack
           /\ ~shift' /\ ~ld' /\ ~done'
           /\ core_ack' => serving # "NOP" /\ serving' = "NOP" /\ age = Setup
           /\ serving' \in {"NOP", core_cmd}
           /\ (serving = "NOP" \/ ~(shift \/ ld))
           /\ core_ack' /\ ~i2c_al' /\ serving = "WRITE" => core_rxd' = core_txd
<1>1. Bit!Next /\ Byte!StateMachine /\ ~Byte!Abort
  BY UnderwayTick
<1>2. Byte!Pending
  BY <1>1
  DEF Byte!StateMachine, Byte!Idle, Byte!Started, Byte!BitWritten, Byte!BitRead,
      Byte!Acknowledged, Byte!Stopped
<1>3. /\ byte_state' = byte_state /\ core_cmd' = core_cmd /\ rxack' = rxack
      /\ ~shift' /\ ~ld' /\ ~done'
  BY <1>2 DEF Byte!Pending, Byte!Strobes
<1>4. serving \in {"NOP", core_cmd}
  BY DEF AllInv, WInv, InProgress, Turn
<1>5. /\ core_ack' => serving # "NOP" /\ serving' = "NOP" /\ age = Setup
      /\ serving' \in {"NOP", core_cmd}
      /\ core_ack' /\ ~i2c_al' /\ serving = "WRITE" => core_rxd' = core_txd
  BY <1>1, <1>4 DEF Bit!Next, Bit!Abort, Bit!Accept, Bit!Rest, Bit!Work, Bit!Finish, Bit!Free
<1>6. serving = "NOP" \/ ~(shift \/ ld)
  BY DEF AllInv, Offering
<1>7. QED
  BY <1>3, <1>5, <1>6

\* A clock in which the shift register is loaded.
LEMMA ProgressLoads ==
    ASSUME AllInv, Pending, ~i2c_al, ~done, Tick, byte_state # "IDLE", ~core_ack, ld
    PROVE  (Turn /\ Position /\ Writing /\ Reading)'
<1>1. Turn /\ Position /\ Writing /\ Reading
  BY DEF AllInv, WInv, InProgress
<1>2. /\ byte_state' = byte_state /\ core_cmd' = core_cmd /\ rxack' = rxack
      /\ ~shift' /\ ~ld' /\ ~done' /\ ~core_ack' /\ serving' \in {"NOP", core_cmd}
  BY WaitingTick
<1>3. rxr' = txr /\ dcnt' = 7
  BY UnderwayTick
<1>4. ThisOp' = ThisOp /\ txr' = txr /\ reply' = reply
  BY TickKeeps
<1>5. wire' = wire /\ left' = left
  BY <1>2, NoSymbol
<1>6. byte_state \in {"START", "READ", "WRITE"}
  BY <1>1 DEF Turn
<1>7. Turn'
  BY <1>1, <1>2, <1>4 DEF Turn
<1>8. Place' = Place
  BY <1>2, <1>3, <1>4, <1>6 DEF Place, Acked, BitsDone
<1>9. SameAck
  BY <1>2, <1>6 DEF SameAck, ThisAck
<1>10. Position'
  BY <1>1, <1>5, <1>8, <1>9, PositionStays
<1>11. Writing'
  <2>1. \A i \in 0..7 : i - (7 - 7) = i
    OBVIOUS
  <2>2. Writing' <=> (byte_state' = "WRITE" /\ ~ld' =>
            \A i \in (7 - dcnt')..7 : BitOf(rxr', i) <=> BitOf(txr', i - (7 - dcnt')))
    BY DEF Writing
  <2>3. \A i \in (7 - dcnt')..7 : i \in 0..7 /\ i - (7 - dcnt') = i
    BY <1>3
  <2>4. \A i \in (7 - dcnt')..7 : BitOf(rxr', i) <=> BitOf(txr', i - (7 - dcnt'))
    BY <1>3, <1>4, <2>3
  <2>5. QED
    BY <2>2, <2>4
<1>12. Reading'
  <2>1. ThisOp.rx => left = 8
    BY <1>1 DEF Reading
  <2>2. 0..(6 - dcnt') = {}
    BY <1>3
  <2>3. BitsDone' = 0
    BY <1>2, <1>3 DEF BitsDone
  <2>4. QED
    BY <1>2, <1>4, <1>5, <1>6, <2>1, <2>2, <2>3 DEF Reading
<1>13. QED
  BY <1>7, <1>10, <1>11, <1>12

\* A clock in which a bit is shifted out and one in.
LEMMA ProgressShifts ==
    ASSUME AllInv, Pending, ~i2c_al, ~done, Tick, byte_state # "IDLE", ~core_ack, shift
    PROVE  (Turn /\ Position /\ Writing /\ Reading)'
<1>1. Turn /\ Position /\ Writing /\ Reading
  BY DEF AllInv, WInv, InProgress
<1>2. /\ byte_state' = byte_state /\ core_cmd' = core_cmd /\ rxack' = rxack
      /\ ~shift' /\ ~ld' /\ ~done' /\ ~core_ack' /\ serving' \in {"NOP", core_cmd}
  BY WaitingTick
<1>3. ~ld /\ byte_state \in {"READ", "WRITE", "ACK"}
  BY <1>1 DEF Turn
<1>4. rxr' = Byte!ShiftIn(rxr, core_rxd) /\ dcnt' = (dcnt + 7) % 8
  BY <1>3, UnderwayTick
<1>5. ThisOp' = ThisOp /\ txr' = txr /\ reply' = reply
  BY TickKeeps
<1>6. wire' = wire /\ left' = left
  BY <1>2, NoSymbol
<1>7. dcnt \in 0..7 /\ rxr \in 0..255 /\ core_rxd \in BOOLEAN /\ reply \in 0..255
  BY UnderwayKnown
<1>8. byte_state \in {"READ", "WRITE"} => dcnt >= 1 /\ dcnt' = dcnt - 1
  <2>1. dcnt >= 1 => (dcnt + 7) % 8 = dcnt - 1
    BY <1>7
  <2>2. QED
    BY <1>1, <1>4, <2>1 DEF Turn
<1>9. byte_state = "ACK" => ThisOp.rx /\ dcnt = 0
  BY <1>1 DEF Turn
<1>10. /\ rxr' \in 0..255
       /\ BitOf(rxr', 0) <=> core_rxd
       /\ \A i \in 1..7 : BitOf(rxr', i) <=> BitOf(rxr, i - 1)
  <2>1. rxr' = Byte!ShiftIn(rxr, core_rxd) /\ rxr \in 0..255 /\ core_rxd \in BOOLEAN
    BY <1>4, <1>7
  <2>2. QED
    BY <2>1, ShiftedBits, ZenonT(60)
<1>11. Turn'
  BY <1>1, <1>2, <1>5 DEF Turn
<1>12. Place' = Place
  <2>1. CASE byte_state = "ACK"
    <3>1. Acked' = Acked
      BY <1>2, Zenon DEF Acked
    <3>2. Place = Starts(ThisOp) + 8 + Acked /\ Place' = (Starts(ThisOp) + 8 + Acked)'
      BY <1>2, <2>1 DEF Place
    <3>3. QED
      BY <1>5, <3>1, <3>2, Zenon DEF Starts
  <2>2. CASE byte_state \in {"READ", "WRITE"}
    <3>1. BitsDone = 7 - dcnt + 1 /\ BitsDone' = 7 - dcnt' + 0
      BY <1>2, <1>3, Zenon DEF BitsDone
    <3>2. BitsDone' = BitsDone
      BY <1>7, <1>8, <2>2, <3>1
    <3>3. Place = Starts(ThisOp) + BitsDone /\ Place' = (Starts(ThisOp) + BitsDone)'
      BY <1>2, <2>2 DEF Place
    <3>4. QED
      BY <1>5, <3>2, <3>3, Zenon DEF Starts
  <2>3. QED
    BY <1>3, <2>1, <2>2
<1>13. SameAck
  BY <1>2, <1>3, <1>9 DEF SameAck, ThisAck
<1>14. Position'
  BY <1>1, <1>6, <1>12, <1>13, PositionStays
<1>15. Writing'
  <2> SUFFICES ASSUME byte_state' = "WRITE", NEW i \in (7 - dcnt')..7
               PROVE  BitOf(rxr', i) <=> BitOf(txr', i - (7 - dcnt'))
    BY DEF Writing
  <2>1. dcnt' = dcnt - 1 /\ dcnt >= 1
    BY <1>2, <1>8
  <2>2. i \in 1..7 /\ i - 1 \in (7 - dcnt)..7 /\ (i - 1) - (7 - dcnt) = i - (7 - dcnt')
    BY <1>7, <2>1
  <2>3. BitOf(rxr, i - 1) <=> BitOf(txr, (i - 1) - (7 - dcnt))
    BY <1>1, <1>2, <1>3, <2>2 DEF Writing
  <2>4. BitOf(rxr', i) <=> BitOf(rxr, i - 1)
    BY <1>10, <2>2
  <2>5. QED
    BY <1>5, <2>2, <2>3, <2>4
<1>16. Reading'
  <2> SUFFICES ASSUME ThisOp.rx PROVE Reading'
    BY <1>5 DEF Reading
  <2>1. /\ \A i \in 0..(6 - dcnt) : BitOf(rxr, i) <=> BitOf(reply, dcnt + 1 + i)
        /\ core_rxd <=> BitOf(reply, dcnt)
    <3>1. byte_state \in {"READ", "ACK"}
      BY <1>1, <1>3 DEF Turn
    <3>2. QED
      BY <1>1, <1>3, <3>1 DEF Reading
  <2>2. ASSUME NEW i \in 0..(7 - dcnt) PROVE BitOf(rxr', i) <=> BitOf(reply, dcnt + i)
    <3>1. CASE i = 0
      <4>1. dcnt + 0 = dcnt
        BY <1>7
      <4>2. QED
        BY <1>10, <2>1, <3>1, <4>1
    <3>2. CASE i # 0
      <4>1. i \in 1..7 /\ i - 1 \in 0..(6 - dcnt) /\ dcnt + 1 + (i - 1) = dcnt + i
        BY <1>7, <3>2
      <4>2. BitOf(rxr, i - 1) <=> BitOf(reply, dcnt + 1 + (i - 1))
        BY <2>1, <4>1
      <4>3. QED
        BY <1>10, <4>1, <4>2
    <3>3. QED
      BY <3>1, <3>2
  <2>3. CASE byte_state = "READ"
    <3>1. dcnt' = dcnt - 1 /\ dcnt >= 1
      BY <1>8, <2>3
    <3>2. left' = 8 - BitsDone'
      <4>1. left = 8 - BitsDone
        BY <1>1, <1>3, <2>3 DEF Reading
      <4>2. BitsDone' = BitsDone
        BY <1>2, <1>3, <1>7, <3>1 DEF BitsDone
      <4>3. QED
        BY <1>6, <4>1, <4>2
    <3>3. ASSUME NEW i \in 0..(6 - dcnt') PROVE BitOf(rxr', i) <=> BitOf(reply', dcnt' + 1 + i)
      <4>1. i \in 0..(7 - dcnt) /\ dcnt' + 1 + i = dcnt + i
        BY <1>7, <3>1
      <4>2. QED
        BY <1>5, <2>2, <4>1
    <3>4. QED
      BY <1>2, <1>5, <2>3, <3>2, <3>3 DEF Reading
  <2>4. CASE byte_state = "ACK"
    <3>1. dcnt = 0
      BY <1>9, <2>4
    <3>2. \A i \in 0..7 : BitOf(rxr', i) <=> BitOf(reply, i)
      <4>1. \A i \in 0..7 : i \in 0..(7 - dcnt) /\ dcnt + i = i
        BY <3>1
      <4>2. QED
        BY <2>2, <4>1
    <3>3. rxr' = reply
      BY <1>7, <1>10, <3>2, ByteIsBits
    <3>4. QED
      BY <1>2, <1>5, <2>4, <3>3 DEF Reading
  <2>5. QED
    BY <1>1, <1>3, <2>3, <2>4 DEF Turn
<1>17. QED
  BY <1>11, <1>14, <1>15, <1>16

\* A clock in which the bit command goes on, or has yet to be taken.
LEMMA ProgressWaits ==
    ASSUME AllInv, Pending, ~i2c_al, ~done, Tick, byte_state # "IDLE", ~core_ack,
           ~shift, ~ld, ~core_ack'
    PROVE  (Turn /\ Position /\ Writing /\ Reading)'
<1>1. Turn /\ Position /\ Writing /\ Reading
  BY DEF AllInv, WInv, InProgress
<1>2. /\ byte_state' = byte_state /\ core_cmd' = core_cmd /\ rxack' = rxack
      /\ ~shift' /\ ~ld' /\ ~done' /\ serving' \in {"NOP", core_cmd}
  BY WaitingTick
<1>3. rxr' = rxr /\ dcnt' = dcnt
  BY UnderwayTick
<1>4. ThisOp' = ThisOp /\ txr' = txr /\ reply' = reply
  BY TickKeeps
<1>5. wire' = wire /\ left' = left
  BY NoSymbol
<1>6. Turn'
  BY <1>1, <1>2, <1>3, <1>4 DEF Turn
<1>7. Place' = Place /\ BitsDone' = BitsDone
  BY <1>2, <1>3, <1>4 DEF Place, Acked, BitsDone
<1>8. SameAck
  <2>1. CASE byte_state = "ACK"
    <3>1. Place = Starts(ThisOp) + 8
      BY <2>1, OpLengthType DEF Place, Acked
    <3>2. QED
      BY <3>1, OpLengthType DEF SameAck
  <2>2. CASE byte_state # "ACK"
    BY <1>2, <2>2 DEF SameAck, ThisAck
  <2>3. QED
    BY <2>1, <2>2
<1>9. Position'
  BY <1>1, <1>5, <1>7, <1>8, PositionStays
<1>10. Writing'
  BY <1>1, <1>2, <1>3, <1>4 DEF Writing
<1>11. Reading'
  BY <1>1, <1>2, <1>3, <1>4, <1>5, <1>7 DEF Reading
<1>12. QED
  BY <1>6, <1>9, <1>10, <1>11

\* The symbol that a bit command leaves on the wire.
NextSymbol ==
    IF serving \in {"READ", "WRITE"} THEN BitSymbol(core_rxd') ELSE serving

\* It is the next one of the operation.
LEMMA NextSymbolIs ==
    ASSUME AllInv, Pending, ~i2c_al, ~done, Tick, byte_state # "IDLE", ~core_ack,
           core_ack', ~i2c_al'
    PROVE  /\ NextSymbol = SymbolAt(ThisOp, ThisByte, ThisAck', Place + 1)
           /\ byte_state = "READ" => (core_rxd' <=> BitOf(reply, dcnt)) /\ left' = left - 1
<1>1. Turn /\ Position /\ Writing /\ Reading
  BY DEF AllInv, WInv, InProgress
<1>2. /\ byte_state' = byte_state /\ serving # "NOP" /\ age = Setup /\ ~shift /\ ~ld
      /\ serving = "WRITE" => core_rxd' = core_txd
  BY WaitingTick
<1>3. serving = core_cmd /\ core_cmd = BitCommandOf(ThisOp, byte_state)
  BY <1>1, <1>2 DEF Turn
<1>4. /\ command = CommandOf(ThisOp) /\ (ThisOp.rx \/ left = 0)
      /\ ThisByte = (IF ThisOp.rx THEN reply ELSE txr)
      /\ rxr \in 0..255 /\ dcnt \in 0..7 /\ left \in 0..8
  BY UnderwayKnown
<1>5. /\ Starts(ThisOp) \in {0, 1}
      /\ OpLength(ThisOp) = Starts(ThisOp) + 9 + (IF ThisOp.sto THEN 1 ELSE 0)
  BY OpLengthType
<1>6. PeripheralTick
  BY UnderwayTick
<1>7. core_txd = Offered
  BY <1>2, TransferAssumption DEF AllInv, Offering
<1>8. CASE byte_state = "START"
  <2>1. Place = 0 /\ Starts(ThisOp) = 1 /\ serving = "START"
    BY <1>1, <1>3, <1>8 DEF Place, Acked, Turn, Starts, BitCommandOf
  <2>2. Place + 1 <= Starts(ThisOp)
    BY <2>1
  <2>3. SymbolAt(ThisOp, ThisByte, ThisAck', Place + 1) = "START"
    BY <2>2, Zenon DEF SymbolAt
  <2>4. NextSymbol = "START"
    BY <2>1 DEF NextSymbol
  <2>5. QED
    BY <1>8, <2>3, <2>4
<1>9. CASE byte_state = "WRITE"
  <2>1. serving = "WRITE" /\ ~ThisOp.rx
    BY <1>1, <1>3, <1>9 DEF Turn, BitCommandOf
  <2>2. core_rxd' <=> BitOf(rxr, 7)
    <3>1. Offered = Byte!Msb(rxr)
      BY <1>9 DEF Offered
    <3>2. core_rxd' = Byte!Msb(rxr)
      BY <1>2, <1>7, <2>1, <3>1
    <3>3. QED
      BY <1>4, <3>2, MsbIsBit
  <2>3. BitOf(rxr, 7) <=> BitOf(txr, dcnt)
    <3>1. 7 \in (7 - dcnt)..7 /\ 7 - (7 - dcnt) = dcnt
      BY <1>4
    <3>2. BitOf(rxr, 7) <=> BitOf(txr, 7 - (7 - dcnt))
      BY <1>1, <1>2, <1>9, <3>1 DEF Writing
    <3>3. QED
      BY <3>1, <3>2
  <2>4. Place + 1 = Starts(ThisOp) + 8 - dcnt
    BY <1>2, <1>4, <1>5, <1>9 DEF Place, BitsDone
  <2>5. /\ ~(Place + 1 <= Starts(ThisOp)) /\ Place + 1 <= Starts(ThisOp) + 8
        /\ 8 - ((Place + 1) - Starts(ThisOp)) = dcnt
    BY <1>4, <1>5, <2>4
  <2>6. SymbolAt(ThisOp, ThisByte, ThisAck', Place + 1) = BitSymbol(BitOf(txr, dcnt))
    BY <1>4, <2>1, <2>5 DEF SymbolAt
  <2>7. NextSymbol = BitSymbol(core_rxd')
    BY <2>1 DEF NextSymbol
  <2>8. QED
    BY <1>9, <2>2, <2>3, <2>6, <2>7 DEF BitSymbol
<1>10. CASE byte_state = "READ"
  <2>1. serving = "READ" /\ ThisOp.rx
    BY <1>1, <1>3, <1>10 DEF Turn, BitCommandOf
  <2>2. left = dcnt + 1
    BY <1>1, <1>2, <1>4, <1>10, <2>1 DEF Reading, BitsDone
  <2>3. core_rxd' = BitOf(reply, dcnt) /\ left' = left - 1
    <3>1. left > 0 /\ left - 1 = dcnt
      BY <1>4, <2>2
    <3>2. QED
      BY <1>6, <2>1, <3>1 DEF PeripheralTick
  <2>4. Place + 1 = Starts(ThisOp) + 8 - dcnt
    BY <1>2, <1>4, <1>5, <1>10 DEF Place, BitsDone
  <2>5. /\ ~(Place + 1 <= Starts(ThisOp)) /\ Place + 1 <= Starts(ThisOp) + 8
        /\ 8 - ((Place + 1) - Starts(ThisOp)) = dcnt
    BY <1>4, <1>5, <2>4
  <2>6. SymbolAt(ThisOp, ThisByte, ThisAck', Place + 1) = BitSymbol(BitOf(reply, dcnt))
    BY <1>4, <2>1, <2>5 DEF SymbolAt
  <2>7. NextSymbol = BitSymbol(core_rxd')
    BY <2>1 DEF NextSymbol
  <2>8. QED
    BY <1>10, <2>3, <2>6, <2>7
<1>11. CASE byte_state = "ACK"
  <2>1. Place + 1 = Starts(ThisOp) + 9
    BY <1>5, <1>11 DEF Place, Acked
  <2>2. ~(Place + 1 <= Starts(ThisOp)) /\ ~(Place + 1 <= Starts(ThisOp) + 8)
    BY <1>5, <2>1
  <2>3. SymbolAt(ThisOp, ThisByte, ThisAck', Place + 1)
          = IF ThisOp.rx THEN BitSymbol(ThisOp.nack) ELSE ThisAck'
    BY <2>1, <2>2 DEF SymbolAt
  <2>4. serving \in {"READ", "WRITE"} /\ (ThisOp.rx => serving = "WRITE")
    BY <1>3, <1>11 DEF BitCommandOf
  <2>5. NextSymbol = BitSymbol(core_rxd')
    BY <2>4 DEF NextSymbol
  <2>6. ThisAck' = BitSymbol(core_rxd')
    BY <1>2, <1>11 DEF ThisAck
  <2>7. ThisOp.rx => core_rxd' = ThisOp.nack
    <3>1. Offered = command.ACK
      BY <1>11 DEF Offered
    <3>2. command.ACK = ThisOp.nack
      BY <1>4 DEF CommandOf
    <3>3. QED
      BY <1>2, <1>7, <2>4, <3>1, <3>2
  <2>8. QED
    BY <1>11, <2>3, <2>5, <2>6, <2>7
<1>12. CASE byte_state = "STOP"
  <2>1. serving = "STOP"
    BY <1>3, <1>12 DEF BitCommandOf
  <2>2. Place + 1 = Starts(ThisOp) + 10
    BY <1>5, <1>12 DEF Place, Acked
  <2>3. ~(Place + 1 <= Starts(ThisOp)) /\ ~(Place + 1 <= Starts(ThisOp) + 8)
        /\ Place + 1 # Starts(ThisOp) + 9
    BY <1>5, <2>2
  <2>4. SymbolAt(ThisOp, ThisByte, ThisAck', Place + 1) = "STOP"
    BY <2>3, Zenon DEF SymbolAt
  <2>5. NextSymbol = "STOP"
    BY <2>1 DEF NextSymbol
  <2>6. QED
    BY <1>12, <2>4, <2>5
<1>13. byte_state \in {"START", "WRITE", "READ", "ACK", "STOP"}
  BY DEF AllInv, TypeOK, Byte!TypeOK, Byte!ByteStates
<1>14. QED
  BY <1>8, <1>9, <1>10, <1>11, <1>12, <1>13

\* A clock in which a bit command ends.
LEMMA ProgressEnds ==
    ASSUME AllInv, Pending, ~i2c_al, ~done, Tick, byte_state # "IDLE", ~core_ack,
           core_ack', ~i2c_al'
    PROVE  (Turn /\ Position /\ Writing /\ Reading)'
<1>1. Turn /\ Position /\ Writing /\ Reading
  BY DEF AllInv, WInv, InProgress
<1>2. /\ byte_state' = byte_state /\ core_cmd' = core_cmd /\ rxack' = rxack
      /\ ~shift' /\ ~ld' /\ ~done' /\ serving' \in {"NOP", core_cmd} /\ ~shift /\ ~ld
  BY WaitingTick
<1>3. rxr' = rxr /\ dcnt' = dcnt
  BY <1>2, UnderwayTick
<1>4. ThisOp' = ThisOp /\ txr' = txr /\ reply' = reply
  BY TickKeeps
<1>5. dcnt \in 0..7 /\ Starts(ThisOp) \in {0, 1}
  BY UnderwayKnown, OpLengthType
<1>6. wire' = Append(wire, NextSymbol)
  BY UnderwayTick DEF WireTick, NextSymbol
<1>7. /\ NextSymbol = SymbolAt(ThisOp, ThisByte, ThisAck', Place + 1)
      /\ byte_state = "READ" => (core_rxd' <=> BitOf(reply, dcnt)) /\ left' = left - 1
  BY NextSymbolIs
<1>8. BitsDone' = BitsDone + 1 /\ BitsDone = 7 - dcnt
  BY <1>2, <1>3, <1>5 DEF BitsDone
<1>9. Place' = Place + 1
  BY <1>2, <1>4, <1>5, <1>8 DEF Place, Acked
<1>10. SameAck
  <2>1. CASE byte_state = "ACK"
    <3>1. Place = Starts(ThisOp) + 8
      BY <1>5, <2>1 DEF Place, Acked
    <3>2. QED
      BY <1>5, <3>1 DEF SameAck
  <2>2. CASE byte_state # "ACK"
    BY <1>2, <2>2 DEF SameAck, ThisAck
  <2>3. QED
    BY <2>1, <2>2
<1>11. Position'
  BY <1>1, <1>6, <1>7, <1>9, <1>10, PositionMoves
<1>12. Turn'
  BY <1>1, <1>2, <1>3, <1>4 DEF Turn
<1>13. Writing'
  BY <1>1, <1>2, <1>3, <1>4 DEF Writing
<1>14. Reading'
  <2>1. CASE byte_state = "READ"
    <3>1. ThisOp.rx
      BY <1>1, <2>1 DEF Turn
    <3>2. /\ left = 8 - BitsDone
          /\ \A i \in 0..(6 - dcnt) : BitOf(rxr, i) <=> BitOf(reply, dcnt + 1 + i)
      BY <1>1, <1>2, <2>1, <3>1 DEF Reading
    <3>3. left' = 8 - BitsDone'
      BY <1>5, <1>7, <1>8, <2>1, <3>2
    <3>4. byte_state' = "READ" /\ ~ld' /\ ~shift'
      BY <1>2, <2>1
    <3>5. \A i \in 0..(6 - dcnt') : BitOf(rxr', i) <=> BitOf(reply', dcnt' + 1 + i)
      BY <1>3, <1>4, <3>2
    <3>6. core_rxd' <=> BitOf(reply', dcnt')
      BY <1>3, <1>4, <1>7, <2>1
    <3>7. QED
      BY <3>3, <3>4, <3>5, <3>6 DEF Reading
  <2>2. CASE byte_state # "READ"
    <3>1. byte_state # "READ" /\ ThisOp.rx => serving # "READ"
      BY <1>1, <2>2 DEF Turn, BitCommandOf
    <3>2. ThisOp.rx => left' = left
      BY <2>2, <3>1, UnderwayTick DEF PeripheralTick
    <3>3. QED
      BY <1>1, <1>2, <1>3, <1>4, <2>2, <3>2 DEF Reading
  <2>3. QED
    BY <2>1, <2>2
<1>15. QED
  BY <1>11, <1>12, <1>13, <1>14

\* What else happens in the clock after the end of a bit command.
LEMMA AcknowledgeTick ==
    ASSUME AllInv, Pending, ~i2c_al, ~done, Tick, byte_state # "IDLE", core_ack
    PROVE  /\ ~core_ack' /\ core_rxd' = core_rxd /\ serving' = "NOP"
           /\ wire' = wire /\ left' = left /\ rxr' = rxr /\ dcnt' = dcnt /\ ~shift /\ ~ld
           /\ ThisOp' = ThisOp /\ txr' = txr /\ reply' = reply
           /\ Byte!Started \/ Byte!BitWritten \/ Byte!BitRead \/ Byte!Acknowledged \/ Byte!Stopped
<1>1. Bit!Next /\ Byte!StateMachine /\ ~Byte!Abort
  BY UnderwayTick
<1>2. serving = "NOP" /\ ~core_reset
  BY UnderwayKnown DEF AllInv, IInv, Handshake
<1>3. ~core_ack' /\ core_rxd' = core_rxd /\ serving' = "NOP"
  BY <1>1, <1>2 DEF Bit!Next, Bit!Abort, Bit!Accept, Bit!Rest, Bit!Work, Bit!Finish, Bit!Free
<1>4. ~shift /\ ~ld
  BY DEF AllInv, WInv, InProgress, Turn
<1>5. rxr' = rxr /\ dcnt' = dcnt
  BY <1>4, UnderwayTick
<1>6. wire' = wire /\ left' = left
  BY <1>3, NoSymbol
<1>7. ThisOp' = ThisOp /\ txr' = txr /\ reply' = reply
  BY TickKeeps
<1>8. Byte!Started \/ Byte!BitWritten \/ Byte!BitRead \/ Byte!Acknowledged \/ Byte!Stopped
  BY <1>1 DEF Byte!StateMachine, Byte!Idle, Byte!Pending
<1>9. QED
  BY <1>3, <1>4, <1>5, <1>6, <1>7, <1>8

\* A clock in which the byte controller goes on to its next bit command.
LEMMA ProgressMoves ==
    ASSUME AllInv, Pending, ~i2c_al, ~done, Tick, byte_state # "IDLE", core_ack
    PROVE  (Turn /\ Position /\ Writing /\ Reading)'
<1> USE DEF Byte!Goto, Byte!Strobes
<1>1. Turn /\ Position /\ Writing /\ Reading
  BY DEF AllInv, WInv, InProgress
<1>2. /\ ~core_ack' /\ core_rxd' = core_rxd /\ serving' = "NOP"
      /\ wire' = wire /\ left' = left /\ rxr' = rxr /\ dcnt' = dcnt /\ ~shift /\ ~ld
      /\ ThisOp' = ThisOp /\ txr' = txr /\ reply' = reply
      /\ Byte!Started \/ Byte!BitWritten \/ Byte!BitRead \/ Byte!Acknowledged \/ Byte!Stopped
  BY AcknowledgeTick
<1>3. dcnt \in 0..7 /\ command = CommandOf(ThisOp) /\ rxr \in 0..255 /\ reply \in 0..255
  BY UnderwayKnown
<1>4. /\ Starts(ThisOp) \in {0, 1}
      /\ OpLength(ThisOp) = Starts(ThisOp) + 9 + (IF ThisOp.sto THEN 1 ELSE 0)
  BY OpLengthType
<1>5. ASSUME Turn', Writing', Reading', Place' = Place, SameAck
      PROVE  (Turn /\ Position /\ Writing /\ Reading)'
  BY <1>1, <1>2, <1>5, PositionStays
<1>6. command.RD = ThisOp.rx /\ (command.WR <=> ~ThisOp.rx) /\ command.STO = ThisOp.sto
  BY <1>3 DEF CommandOf
<1>7. CASE Byte!Started
  <2>1. /\ byte_state = "START" /\ ~shift' /\ ld' /\ ~done' /\ rxack' = rxack
        /\ byte_state' = IF ThisOp.rx THEN "READ" ELSE "WRITE"
        /\ core_cmd' = byte_state'
    BY <1>6, <1>7 DEF Byte!Started
  <2>2. Starts(ThisOp) = 1
    BY <1>1, <2>1 DEF Turn, Starts
  <2>3. Place' = Place
    BY <1>2, <2>1, <2>2 DEF Place, Acked, BitsDone
  <2>4. SameAck
    BY <1>2, <2>1 DEF SameAck, ThisAck
  <2>5. Turn'
    BY <1>2, <2>1 DEF Turn, BitCommandOf
  <2>6. Writing'
    BY <2>1 DEF Writing
  <2>7. Reading'
    <3>1. ThisOp.rx => left = 8
      BY <1>1, <2>1 DEF Reading
    <3>2. QED
      BY <1>2, <2>1, <3>1 DEF Reading
  <2>8. QED
    BY <1>5, <2>3, <2>4, <2>5, <2>6, <2>7
<1>8. CASE Byte!BitWritten
  <2>1. /\ byte_state = "WRITE" /\ ~ld' /\ ~done' /\ rxack' = rxack
        /\ byte_state' = (IF dcnt = 0 THEN "ACK" ELSE "WRITE")
        /\ core_cmd' = (IF dcnt = 0 THEN "READ" ELSE "WRITE")
        /\ shift' <=> dcnt # 0
    BY <1>8 DEF Byte!BitWritten, Byte!cnt_done
  <2>2. ~ThisOp.rx
    BY <1>1, <2>1 DEF Turn
  <2>3. Place = Starts(ThisOp) + 8 - dcnt
    BY <1>2, <1>3, <1>4, <2>1 DEF Place, BitsDone
  <2>4. Place' = Starts(ThisOp) + 8 - dcnt
    <3>1. CASE dcnt = 0
      BY <1>2, <1>3, <1>4, <2>1, <3>1 DEF Place, Acked
    <3>2. CASE dcnt # 0
      BY <1>2, <1>3, <1>4, <2>1, <3>2 DEF Place, BitsDone
    <3>3. QED
      BY <3>1, <3>2
  <2>5. SameAck
    BY <1>3, <1>4, <2>3 DEF SameAck
  <2>6. Turn'
    <3>1. dcnt # 0 => dcnt' >= 1
      BY <1>2, <1>3
    <3>2. QED
      BY <1>2, <2>1, <2>2, <3>1 DEF Turn, BitCommandOf
  <2>7. Writing'
    BY <1>1, <1>2, <2>1 DEF Writing
  <2>8. Reading'
    BY <1>2, <2>2 DEF Reading
  <2>9. QED
    BY <1>5, <2>3, <2>4, <2>5, <2>6, <2>7, <2>8
<1>9. CASE Byte!BitRead
  <2>1. /\ byte_state = "READ" /\ ~ld' /\ ~done' /\ rxack' = rxack /\ shift'
        /\ byte_state' = (IF dcnt = 0 THEN "ACK" ELSE "READ")
        /\ core_cmd' = (IF dcnt = 0 THEN "WRITE" ELSE "READ")
    BY <1>9 DEF Byte!BitRead, Byte!cnt_done
  <2>2. ThisOp.rx
    BY <1>1, <2>1 DEF Turn
  <2>3. Place = Starts(ThisOp) + 8 - dcnt
    BY <1>2, <1>3, <1>4, <2>1 DEF Place, BitsDone
  <2>4. Place' = Starts(ThisOp) + 8 - dcnt
    <3>1. CASE dcnt = 0
      BY <1>2, <1>3, <1>4, <2>1, <3>1 DEF Place, Acked
    <3>2. CASE dcnt # 0
      BY <1>2, <1>3, <1>4, <2>1, <3>2 DEF Place, BitsDone
    <3>3. QED
      BY <3>1, <3>2
  <2>5. SameAck
    BY <2>2 DEF SameAck
  <2>6. Turn'
    <3>1. dcnt # 0 => dcnt' >= 1
      BY <1>2, <1>3
    <3>2. QED
      BY <1>2, <2>1, <2>2, <3>1 DEF Turn, BitCommandOf
  <2>7. Writing'
    BY <2>1 DEF Writing
  <2>8. Reading'
    <3>1. /\ left = 8 - BitsDone
          /\ \A i \in 0..(6 - dcnt) : BitOf(rxr, i) <=> BitOf(reply, dcnt + 1 + i)
          /\ core_rxd <=> BitOf(reply, dcnt)
      BY <1>1, <1>2, <2>1, <2>2 DEF Reading
    <3>2. BitsDone' = BitsDone
      BY <1>2, <2>1 DEF BitsDone
    <3>3. left' = 8 - BitsDone'
      BY <1>2, <3>1, <3>2
    <3>4. /\ \A i \in 0..(6 - dcnt') : BitOf(rxr', i) <=> BitOf(reply', dcnt' + 1 + i)
          /\ core_rxd' <=> BitOf(reply', dcnt')
      BY <1>2, <3>1
    <3>5. QED
      BY <2>1, <3>3, <3>4 DEF Reading
  <2>9. QED
    BY <1>5, <2>3, <2>4, <2>5, <2>6, <2>7, <2>8
<1>10. CASE Byte!Acknowledged
  <2>1. /\ byte_state = "ACK" /\ ~ld' /\ ~shift' /\ rxack' = core_rxd
        /\ byte_state' = (IF ThisOp.sto THEN "STOP" ELSE "IDLE")
        /\ core_cmd' = (IF ThisOp.sto THEN "STOP" ELSE "NOP")
        /\ done' <=> ~ThisOp.sto
    BY <1>6, <1>10 DEF Byte!Acknowledged
  <2>2. Place' = Place
    BY <1>2, <1>4, <2>1 DEF Place, Acked
  <2>3. SameAck
    BY <2>1 DEF SameAck, ThisAck
  <2>4. Turn'
    BY <1>2, <2>1 DEF Turn, BitCommandOf
  <2>5. Writing'
    BY <2>1 DEF Writing
  <2>6. Reading'
    <3>1. ThisOp.rx => rxr = reply
      BY <1>1, <1>2, <2>1 DEF Reading
    <3>2. QED
      BY <1>2, <2>1, <3>1 DEF Reading
  <2>7. QED
    BY <1>5, <2>2, <2>3, <2>4, <2>5, <2>6
<1>11. CASE Byte!Stopped
  <2>1. /\ byte_state = "STOP" /\ ~ld' /\ ~shift' /\ rxack' = rxack
        /\ byte_state' = "IDLE" /\ core_cmd' = "NOP" /\ done'
    BY <1>11 DEF Byte!Stopped
  <2>2. ThisOp.sto
    BY <1>1, <2>1 DEF Turn
  <2>3. Place' = Place
    BY <1>2, <1>4, <2>1, <2>2 DEF Place, Acked
  <2>4. SameAck
    BY <2>1 DEF SameAck, ThisAck
  <2>5. Turn'
    BY <1>2, <2>1 DEF Turn, BitCommandOf
  <2>6. Writing'
    BY <2>1 DEF Writing
  <2>7. Reading'
    <3>1. ThisOp.rx => rxr = reply
      BY <1>1, <2>1 DEF Reading
    <3>2. QED
      BY <1>2, <2>1, <3>1 DEF Reading
  <2>8. QED
    BY <1>5, <2>3, <2>4, <2>5, <2>6, <2>7
<1>12. QED
  BY <1>2, <1>7, <1>8, <1>9, <1>10, <1>11

\* The operation under way goes on with this clock.
GoesOn == Pending /\ ~i2c_al /\ ~done

\* A clock of an operation that goes on keeps its place.
LEMMA Progress ==
    ASSUME AllInv, GoesOn, Tick, ~i2c_al'
    PROVE  (Turn /\ Position /\ Writing /\ Reading)'
<1> USE DEF GoesOn
<1>1. CASE byte_state = "IDLE"
  BY <1>1, ProgressIdle
<1>2. CASE byte_state # "IDLE" /\ core_ack
  BY <1>2, ProgressMoves
<1>3. CASE byte_state # "IDLE" /\ ~core_ack /\ ld
  BY <1>3, ProgressLoads
<1>4. CASE byte_state # "IDLE" /\ ~core_ack /\ shift
  BY <1>4, ProgressShifts
<1>5. CASE byte_state # "IDLE" /\ ~core_ack /\ core_ack'
  BY <1>5, ProgressEnds
<1>6. CASE byte_state # "IDLE" /\ ~core_ack /\ ~ld /\ ~shift /\ ~core_ack'
  BY <1>6, ProgressWaits
<1>7. QED
  BY <1>1, <1>2, <1>3, <1>4, <1>5, <1>6

\* Where there is no operation to go on with, the core is at rest, or is
\* told so in this very clock.
LEMMA QuietTick ==
    ASSUME AllInv, ~GoesOn, Tick
    PROVE  /\ wire' = wire /\ left' = left
           /\ ~i2c_al /\ ~core_reset => rxr' = rxr /\ rxack' = rxack
           /\ i2c_al => ~rxack'
           /\ core_reset => ~rxack'
           /\ outcome' = IF i2c_al THEN "lost" ELSE IF Pending THEN "done" ELSE outcome
<1>1. Bit!Next /\ Byte!Tick /\ OutcomeTick /\ PeripheralTick /\ WireTick
  BY DEF Tick, TickAbort, TickAccept, TickRest, TickWork, TickFinish, Clock, CoreTick, Bit!Next
<1>2. ~Pending => Settled
  BY DEF AllInv, IInv, Resting, Over, Pending
<1>3. Pending /\ ~i2c_al => done /\ byte_state = "IDLE" /\ serving = "NOP" /\ ~shift /\ ~ld
  BY DEF GoesOn, AllInv, IInv, Handshake
<1>4. i2c_al \/ (byte_state = "IDLE" /\ serving = "NOP" /\ ~shift /\ ~ld)
  BY <1>2, <1>3 DEF Settled
<1>5. ~core_ack'
  BY <1>1, <1>4, BitStep
<1>6. wire' = wire /\ left' = left
  BY <1>1, <1>5 DEF WireTick, PeripheralTick
<1>7. ASSUME ~i2c_al, ~core_reset PROVE rxr' = rxr /\ rxack' = rxack
  <2>1. Byte!Idle
    BY <1>1, <1>4, <1>7
    DEF Byte!Tick, Byte!StateMachine, Byte!Abort, Byte!Pending, Byte!Started, Byte!BitWritten,
        Byte!BitRead, Byte!Acknowledged, Byte!Stopped
  <2>2. QED
    BY <1>1, <1>4, <1>7, <2>1 DEF Byte!Idle, Byte!Tick, Byte!ShiftRegister
<1>8. i2c_al \/ core_reset => ~rxack'
  BY <1>1 DEF Byte!Tick, Byte!StateMachine, Byte!Abort
<1>9. outcome' = IF i2c_al THEN "lost" ELSE IF Pending THEN "done" ELSE outcome
  BY <1>1, <1>2, <1>3 DEF OutcomeTick, Settled
<1>10. QED
  BY <1>6, <1>7, <1>8, <1>9

\* The place is a place in the operation after the clock, too.
LEMMA PlaceTypeNext ==
    ASSUME Turn', dcnt' \in 0..7
    PROVE  Place' \in 0..OpLength(ThisOp')
<1>1. /\ Starts(ThisOp') \in {0, 1}
      /\ OpLength(ThisOp') = Starts(ThisOp') + 9 + (IF ThisOp'.sto THEN 1 ELSE 0)
  BY OpLengthType
<1>2. Acked' \in {0, 1} /\ BitsDone' \in 0..8
  <2>1. Acked' = 0 \/ Acked' = 1
    BY DEF Acked
  <2>2. BitsDone' = 0 \/ BitsDone' = 7 - dcnt' \/ BitsDone' = 7 - dcnt' + 1
    <3>1. BitsDone' = 0 \/ BitsDone' = 7 - dcnt' + 0 \/ BitsDone' = 7 - dcnt' + 1
      BY Zenon DEF BitsDone
    <3>2. QED
      BY <3>1
  <2>3. QED
    BY <2>1, <2>2
<1>3. byte_state' = "START" => Starts(ThisOp') = 1
  <2>1. byte_state' = "START" => ThisOp'.sta
    BY DEF Turn
  <2>2. ThisOp'.sta => Starts(ThisOp') = 1
    BY Zenon DEF Starts
  <2>3. QED
    BY <2>1, <2>2
<1>4. QED
  BY <1>1, <1>2, <1>3 DEF Turn, Place

\* A clock keeps what is on the wire part of the operation.
LEMMA TickOnWire ==
    ASSUME AllInv, Tick
    PROVE  OnWire'
<1>1. /\ pc' = pc /\ txn' = txn /\ Before' = Before /\ ThisOp' = ThisOp /\ ThisByte' = ThisByte
  BY TickKeeps
<1>2. OnWire
  BY DEF AllInv, WInv
<1>3. CASE wire' = wire
  BY <1>1, <1>2, <1>3 DEF OnWire
<1>4. CASE wire' # wire
  <2>1. GoesOn
    BY <1>4, QuietTick
  <2>2. ~i2c_al'
    BY <1>4, <2>1, UnderwayTick DEF GoesOn, WireTick
  <2>3. Turn' /\ Position'
    BY <2>1, <2>2, Progress
  <2>4. dcnt' \in 0..7
    BY TickTypes DEF AllInv, TypeOK, Byte!TypeOK
  <2>5. Place' \in 0..OpLength(ThisOp')
    BY <2>3, <2>4, PlaceTypeNext
  <2>6. ThisAck' \in {"0", "1"}
    BY DEF ThisAck, BitSymbol
  <2>7. wire' = Before' \o Sent(ThisOp', ThisByte', ThisAck', Place')
    BY <2>3 DEF Position
  <2>8. pc' = "wait"
    BY <1>1, <2>1 DEF GoesOn, Pending
  <2>9. \E a \in {"0", "1"}, p \in 0..OpLength(ThisOp') :
          wire' = Before' \o Sent(ThisOp', ThisByte', a, p)
    BY <2>5, <2>6, <2>7
  <2>10. QED
    BY <2>8, <2>9 DEF OnWire
<1>5. QED
  BY <1>3, <1>4

\* An operation that is done is on the wire as a whole, and its byte in rxr.
LEMMA TickDone ==
    ASSUME AllInv, Tick
    PROVE  Complete' /\ Answered'
<1>1. /\ pc' = pc /\ txn' = txn /\ k' = k /\ rx' = rx /\ reply' = reply /\ replies' = replies
      /\ ThisOp' = ThisOp
  BY TickKeeps
<1>2. Complete /\ Answered
  BY DEF AllInv, WInv
<1>3. CASE GoesOn
  <2>1. outcome' = "pending" /\ pc = "wait"
    BY <1>3, UnderwayTick DEF GoesOn, Pending
  <2>2. QED
    BY <1>1, <1>2, <2>1 DEF Complete, Answered
<1>4. CASE ~GoesOn
  <2>1. /\ wire' = wire
        /\ ~i2c_al /\ ~core_reset => rxr' = rxr /\ rxack' = rxack
        /\ outcome' = IF i2c_al THEN "lost" ELSE IF Pending THEN "done" ELSE outcome
    BY <1>4, QuietTick
  <2>2. pc \in Busy => ~core_reset
    BY DEF AllInv, IInv, ResetOver, Busy
  <2>3. CASE outcome' = "done" /\ Pending
    <3>1. ~i2c_al /\ done /\ byte_state = "IDLE" /\ pc = "wait"
      BY <1>4, <2>1, <2>3 DEF GoesOn, Pending, AllInv, IInv, Handshake
    <3>2. rxr' = rxr /\ rxack' = rxack
      BY <2>1, <2>2, <3>1 DEF Busy
    <3>3. Position /\ Reading
      BY <2>3, <3>1 DEF AllInv, WInv, InProgress
    <3>4. wire = Before \o Sent(ThisOp, ThisByte, BitSymbol(rxack), OpLength(ThisOp))
      BY <3>1, <3>3 DEF Position, Place, ThisAck
    <3>5. wire = Symbolled(txn, replies, k, BitSymbol(rxack))
      <4>1. k \in Nat /\ k >= 1 /\ BitSymbol(rxack) \in Symbols
        BY <2>3, UnderwayKnown DEF BitSymbol, Symbols
      <4>2. QED
        BY <3>4, <4>1, SymbolledStep DEF Before, ThisOp, ThisByte
    <3>6. ThisOp.rx => rxr = reply
      BY <3>1, <3>3 DEF Reading
    <3>7. Complete'
      BY <1>1, <2>1, <3>2, <3>5 DEF Complete
    <3>8. Answered'
      BY <1>1, <1>2, <3>1, <3>2, <3>6 DEF Answered
    <3>9. QED
      BY <3>7, <3>8
  <2>4. CASE outcome' = "done" /\ ~Pending
    <3>1. outcome = "done" /\ ~i2c_al
      BY <2>1, <2>4
    <3>2. Complete'
      BY <1>1, <1>2, <2>1, <2>2, <3>1 DEF Complete, Busy
    <3>3. Answered'
      BY <1>1, <1>2, <2>1, <2>2, <3>1 DEF Answered, Busy
    <3>4. QED
      BY <3>2, <3>3
  <2>5. CASE outcome' # "done"
    <3>1. outcome = "lost" => outcome' = "lost"
      BY <2>1 DEF Pending
    <3>2. pc = "check" => ~Pending
      BY DEF Pending
    <3>3. Complete'
      BY <2>5 DEF Complete
    <3>4. Answered'
      BY <1>1, <1>2, <2>5, <3>1 DEF Answered
    <3>5. QED
      BY <3>3, <3>4
  <2>6. QED
    BY <2>3, <2>4, <2>5
<1>5. QED
  BY <1>3, <1>4

\* A clock keeps the invariant.
LEMMA TickWire ==
    ASSUME AllInv, Tick
    PROVE  WInv'
<1>1. /\ pc' = pc /\ txn' = txn /\ k' = k /\ status' = status /\ rx' = rx /\ ret' = ret
      /\ txr' = txr /\ replies' = replies /\ ThisOp' = ThisOp
  BY TickKeeps
<1>2. Kept'
  BY <1>1 DEF AllInv, WInv, Kept
<1>3. Pending' => GoesOn /\ outcome' = "pending"
  <2>1. CASE ~GoesOn
    BY <1>1, <2>1, QuietTick DEF Pending
  <2>2. QED
    BY <2>1 DEF Pending
<1>4. Stored'
  <2>1. Pending' => command' = command /\ (left = 0 => left' = 0)
    BY <1>3, UnderwayTick DEF GoesOn, PeripheralTick
  <2>2. Pending' => Pending
    BY <1>3 DEF GoesOn
  <2>3. QED
    BY <1>1, <2>1, <2>2 DEF AllInv, WInv, Stored
<1>5. InProgress'
  BY <1>3, Progress DEF InProgress
<1>6. OnWire'
  BY TickOnWire
<1>7. Complete' /\ Answered'
  BY TickDone
<1>8. Told'
  <2>1. Told
    BY DEF AllInv, WInv
  <2>2. CASE GoesOn
    BY <1>1, <2>2, UnderwayTick DEF GoesOn, Pending, Told
  <2>3. CASE ~GoesOn
    <3>1. /\ ~i2c_al /\ ~core_reset => rxack' = rxack
          /\ i2c_al \/ core_reset => ~rxack'
          /\ outcome' = IF i2c_al THEN "lost" ELSE IF Pending THEN "done" ELSE outcome
      BY <2>3, QuietTick
    <3>2. pc \in {"rxr", "check"} => ~i2c_al /\ ~core_reset /\ ~Pending
      BY DEF AllInv, IInv, Resting, ResetOver, Pending
    <3>3. QED
      BY <1>1, <2>1, <3>1, <3>2 DEF Told
  <2>4. QED
    BY <2>2, <2>3
<1>9. Returned'
  <2>1. CASE pc = "idle"
    <3>1. ~GoesOn /\ ~i2c_al /\ ~Pending
      BY <2>1 DEF GoesOn, Pending, AllInv, IInv, Resting
    <3>2. wire' = wire /\ outcome' = outcome
      BY <3>1, QuietTick
    <3>3. QED
      BY <1>1, <3>2 DEF AllInv, WInv, Returned
  <2>2. CASE pc # "idle"
    BY <1>1, <2>2 DEF Returned
  <2>3. QED
    BY <2>1, <2>2
<1>10. QED
  BY <1>2, <1>4, <1>5, <1>6, <1>7, <1>8, <1>9 DEF WInv

-----------------------------------------------------------------------------
(* The steps of the CPU.                                                   *)

\* They leave the hardware as it is, and what there was of the transaction.
LEMMA CpuKeeps ==
    ASSUME Cpu \/ Caller
    PROVE  /\ UNCHANGED <<byteregs, bitouts, serving, age>>
           /\ CpuCommand \/ (CpuInit /\ UNCHANGED <<reply, left>>)
              \/ (CpuOther /\ UNCHANGED <<reply, left>>) \/ CpuCall
BY DEF Cpu, Caller, hardware

\* Nothing to show for a core that is not in the middle of something.
LEMMA OutOfCommand ==
    ASSUME pc' # "wait"
    PROVE  InProgress'
BY DEF InProgress, Pending

\* i2c_init comes before the first transaction.
LEMMA InitWire ==
    ASSUME AllInv, CpuInit, UNCHANGED <<reply, left>>, UNCHANGED <<byteregs, bitouts, serving, age>>
    PROVE  WInv'
<1>1. /\ pc \in {"core_reset", "prescale", "control"} /\ pc' \in {"prescale", "control", "idle"}
      /\ UNCHANGED <<txn, ret, wire, replies, outcome>> /\ rxack' = rxack
  BY DEF CpuInit, InitCoreReset, InitPrescale, InitControl, Access, history, byteregs
<1>2. txn = <<>> /\ ret = NoReturn
  BY <1>1 DEF AllInv, WInv, Kept, Busy
<1>3. Told'
  BY <1>1 DEF AllInv, WInv, Told
<1>4. Kept' /\ OnWire' /\ Returned'
  BY <1>1, <1>2 DEF Kept, OnWire, Returned
<1>5. Stored' /\ Answered' /\ Complete'
  BY <1>1 DEF Stored, Pending, Answered, Complete, Busy
<1>6. QED
  BY <1>1, <1>3, <1>4, <1>5, OutOfCommand DEF WInv

\* A transaction begins with nothing on the wire.
LEMMA CallWire ==
    ASSUME AllInv, CpuCall, UNCHANGED <<byteregs, bitouts, serving, age>>
    PROVE  WInv'
<1>1. PICK t \in Txns : Call(t)
  BY DEF CpuCall
<1>2. WellFormed(t)
  BY TxnsWellFormed
<1>3. /\ pc' = "txr" /\ txn' = t /\ k' = 1 /\ rx' = <<>> /\ wire' = <<>> /\ replies' = <<>>
      /\ ret' = NoReturn /\ outcome' = outcome /\ rxack' = rxack /\ ThisOp' = t[1] /\ ~t[1].rx
  BY <1>1, <1>2 DEF CpuCall, Call, Begin, WellFormed, byteregs, ThisOp
<1>4. t # <<>> /\ 1 \in 1..Len(t)
  BY <1>2, EmptySeq DEF WellFormed
<1>5. Kept'
  BY <1>3, <1>4 DEF Kept, Busy
<1>6. OnWire'
  <2>1. Before' = <<>>
    BY <1>3, SymbolledNothing DEF Before
  <2>2. QED
    BY <1>3, <2>1 DEF OnWire
<1>7. Answered'
  <2>1. Len(<<>>) = 0
    BY EmptySeq
  <2>2. QED
    BY <1>3, <2>1 DEF Answered, Busy
<1>8. Told'
  BY <1>3 DEF AllInv, WInv, Told
<1>9. Stored' /\ Complete' /\ Returned'
  BY <1>3 DEF Stored, Pending, Complete, Returned
<1>10. QED
  BY <1>3, <1>5, <1>6, <1>7, <1>8, <1>9, OutOfCommand DEF WInv

\* The byte goes to the transmit register.
LEMMA TxrWire ==
    ASSUME AllInv, TxrStore, UNCHANGED history, UNCHANGED <<reply, left>>,
           UNCHANGED <<byteregs, bitouts, serving, age>>
    PROVE  WInv'
<1>1. /\ pc = "txr" /\ pc' = "command" /\ txr' = ThisOp.byte /\ rxack' = rxack
      /\ UNCHANGED <<txn, k, rx, ret, wire, replies, outcome>>
  BY DEF TxrStore, Access, WriteTxr, history, byteregs, ThisOp
<1>2. ThisOp' = ThisOp /\ Before' = Before
  BY <1>1 DEF ThisOp, Before
<1>3. WInv /\ ~ThisOp.rx
  BY <1>1 DEF AllInv, WInv, Stored
<1>4. Kept' /\ OnWire'
  BY <1>1, <1>2, <1>3 DEF WInv, Kept, OnWire, Busy
<1>5. Answered'
  BY <1>1, <1>2, <1>3 DEF WInv, Answered, Busy
<1>6. Told'
  BY <1>1, <1>3 DEF WInv, Told
<1>7. Stored' /\ Complete' /\ Returned'
  BY <1>1, <1>2 DEF Stored, Pending, Complete, Returned
<1>8. QED
  BY <1>1, <1>4, <1>5, <1>6, <1>7, OutOfCommand DEF WInv

\* The status register is read again.
LEMMA BusyWire ==
    ASSUME AllInv, PollBusy, UNCHANGED history, UNCHANGED <<reply, left>>,
           UNCHANGED <<byteregs, bitouts, serving, age>>
    PROVE  WInv'
<1>1. UNCHANGED <<csr, pc, txn, k, status, rx, ret, wire, replies, outcome>>
  BY DEF PollBusy, history
<1>2. WInv
  BY DEF AllInv
<1>3. ThisOp' = ThisOp /\ Before' = Before /\ ThisByte' = ThisByte /\ Pending' = Pending
  BY <1>1 DEF ThisOp, Before, ThisByte, Pending
<1>4. Kept' /\ Stored' /\ OnWire' /\ Answered' /\ Complete' /\ Told' /\ Returned'
  <2>1. Kept' /\ Stored'
    BY <1>1, <1>2, <1>3 DEF csr, WInv, Kept, Stored
  <2>2. OnWire' /\ Complete' /\ Returned'
    BY <1>1, <1>2, <1>3 DEF byteregs, WInv, OnWire, Complete, Returned
  <2>3. Answered'
    BY <1>1, <1>2, <1>3 DEF byteregs, WInv, Answered
  <2>4. Told'
    BY <1>1, <1>2 DEF byteregs, WInv, Told
  <2>5. QED
    BY <2>1, <2>2, <2>3, <2>4
<1>5. InProgress'
  <2>1. BitsDone' = BitsDone /\ Place' = Place /\ ThisAck' = ThisAck
    BY <1>3 DEF BitsDone, Place, Acked, ThisAck, byteregs, bitouts
  <2>2. Turn' = Turn /\ Position' = Position /\ Writing' = Writing /\ Reading' = Reading
    BY <1>1, <1>3, <2>1 DEF Turn, Position, Writing, Reading, csr, byteregs, bitouts
  <2>3. QED
    BY <1>2, <1>3, <2>2 DEF WInv, InProgress, bitouts
<1>6. QED
  BY <1>4, <1>5 DEF WInv

\* A command goes to a core at rest; a receive command is answered.
LEMMA CommandWire ==
    ASSUME AllInv, CpuCommand, PeripheralReply, UNCHANGED <<byteregs, bitouts, serving, age>>
    PROVE  WInv'
<1>1. /\ pc = "command" /\ pc' = "wait" /\ command' = CommandOf(ThisOp) /\ outcome' = "pending"
      /\ UNCHANGED <<txn, k, txr, rx, ret, wire>>
  BY DEF CpuCommand, CommandStore, Access, WriteCommand, ThisOp
<1>2. /\ WellFormed(txn) /\ ThisOp \in Op /\ k \in 1..Len(txn) /\ txn \in Txns
      /\ Len(rx) = IF ~ThisOp.rx THEN 0 ELSE k - Len(txn) + 1
  BY <1>1, CurrentOp DEF AllInv, Placed, Busy, ThisOp
<1>3. k \in Nat /\ k >= 1 /\ Len(txn) \in Nat /\ k - 1 \in 0..Len(txn)
  BY <1>2 DEF WellFormed
<1>4. WInv /\ (ThisOp.rx \/ txr = ThisOp.byte) /\ replies \in Seq(0..255)
  BY <1>1 DEF AllInv, WInv, Stored, TypeOK, HistoryTypeOK
<1>5. /\ Len(replies) = IF ~ThisOp.rx THEN 0 ELSE k - Len(txn) + 1
      /\ \A j \in 1..Len(rx) : rx[j] = replies[j]
  BY <1>1, <1>4 DEF WInv, Answered, Busy
<1>6. ThisOp' = ThisOp
  BY <1>1 DEF ThisOp
<1>7. \/ /\ ~ThisOp.rx /\ left' = 0 /\ replies' = replies
      \/ /\ ThisOp.rx /\ left' = 8
         /\ \E b \in 0..255 : reply' = b /\ replies' = Append(replies, b)
  BY TransferAssumption DEF PeripheralReply, ThisOp
<1>8. Before' = Before
  <2>1. CASE ~ThisOp.rx
    BY <1>1, <1>7, <2>1 DEF Before
  <2>2. CASE ThisOp.rx
    <3>1. PICK b \in 0..255 : replies' = Append(replies, b)
      BY <1>7, <2>2
    <3>2. Len(replies) >= (k - 1) - Len(txn) + 2
      BY <1>3, <1>5, <2>2
    <3>3. Symbolled(txn, Append(replies, b), k - 1, "0") = Symbolled(txn, replies, k - 1, "0")
      BY <1>2, <1>3, <1>4, <3>2, SymbolledAppend
    <3>4. QED
      BY <1>1, <3>1, <3>3 DEF Before
  <2>3. QED
    BY <2>1, <2>2
<1>9. /\ wire' = Before' \o Sent(ThisOp', ThisByte', "0", 0)
      /\ wire' = Before' \o Sent(ThisOp', ThisByte', ThisAck', 0)
  <2>1. Before \in Seq(Symbols)
    <3>1. k - 1 \in Nat /\ "0" \in Symbols
      BY <1>3 DEF Symbols
    <3>2. QED
      BY <3>1, SymbolledType DEF Before
  <2>2. wire = Before
    BY <1>1, <1>2, <1>4, EmptySeq DEF WInv, OnWire, WellFormed
  <2>3. Before \o <<>> = Before
    BY <2>1, ConcatEmptySeq
  <2>4. QED
    BY <1>1, <1>8, <2>2, <2>3, SentNothing
<1>10. Kept'
  BY <1>1, <1>4 DEF WInv, Kept, Busy
<1>11. Stored'
  BY <1>1, <1>4, <1>6, <1>7 DEF Stored, Pending
<1>12. OnWire'
  <2>1. 0 \in 0..OpLength(ThisOp')
    BY OpLengthType
  <2>2. QED
    BY <1>1, <1>9, <2>1 DEF OnWire
<1>13. InProgress'
  <2>1. /\ byte_state' = "IDLE" /\ core_cmd' = "NOP" /\ serving' = "NOP"
        /\ ~done' /\ ~core_ack' /\ ~shift' /\ ~ld'
    BY <1>1 DEF AllInv, IInv, Resting, Settled, byteregs, bitouts
  <2>2. Turn'
    BY <2>1 DEF Turn, BitCommandOf
  <2>3. Place' = 0
    BY <2>1 DEF Place
  <2>4. Position'
    BY <1>9, <2>3 DEF Position
  <2>5. Writing'
    BY <2>1 DEF Writing
  <2>6. Reading'
    BY <1>6, <1>7, <2>1 DEF Reading
  <2>7. QED
    BY <2>2, <2>4, <2>5, <2>6 DEF InProgress
<1>14. Answered'
  <2>1. CASE ~ThisOp.rx
    <3>1. ~ThisOp'.rx /\ replies' = replies /\ Len(replies) = 0
      BY <1>5, <1>6, <1>7, <2>1
    <3>2. QED
      BY <1>1, <1>5, <3>1 DEF Answered
  <2>2. CASE ThisOp.rx
    <3>1. PICK b \in 0..255 : reply' = b /\ replies' = Append(replies, b)
      BY <1>7, <2>2
    <3>2. /\ Len(replies') = Len(replies) + 1 /\ replies'[Len(replies) + 1] = b
          /\ \A j \in 1..Len(replies) : replies'[j] = replies[j]
      BY <1>4, <3>1, AppendProperties
    <3>3. Len(rx) = Len(replies) /\ Len(replies') = k - Len(txn) + 2
      BY <1>2, <1>3, <1>5, <2>2, <3>2
    <3>4. /\ \A j \in 1..Len(rx) : rx[j] = replies'[j]
          /\ reply' = replies'[Len(replies')]
      BY <1>5, <3>1, <3>2, <3>3
    <3>5. QED
      BY <1>1, <1>6, <2>2, <3>3, <3>4 DEF Answered
  <2>3. QED
    BY <2>1, <2>2
<1>15. Complete' /\ Told' /\ Returned'
  BY <1>1 DEF Complete, Told, Returned
<1>16. QED
  BY <1>10, <1>11, <1>12, <1>13, <1>14, <1>15 DEF WInv

\* i2c_wait_tip leaves its loop with the flags of the command that is over.
LEMMA DoneWire ==
    ASSUME AllInv, PollDone, UNCHANGED history, UNCHANGED <<reply, left>>,
           UNCHANGED <<byteregs, bitouts, serving, age>>
    PROVE  WInv'
<1>1. /\ pc = "wait" /\ ~tip /\ elapsed # 0
      /\ status' = [RxACK |-> rxack, ArbLost |-> arb_lost]
      /\ pc' = (IF ThisOp.rx THEN "rxr" ELSE "check")
      /\ UNCHANGED <<txn, k, rx, ret, wire, replies, outcome>> /\ rxack' = rxack /\ rxr' = rxr
  BY DelayAssumption DEF PollDone, PollReady, history, byteregs, ThisOp
<1>2. outcome # "pending"
  BY <1>1 DEF AllInv, IInv, Underway
<1>3. outcome \in {"done", "lost"} /\ (arb_lost <=> outcome = "lost")
  BY <1>1, <1>2 DEF AllInv, IInv, Over
<1>4. ThisOp' = ThisOp /\ Before' = Before /\ ThisByte' = ThisByte
  BY <1>1 DEF ThisOp, Before, ThisByte
<1>5. WInv
  BY DEF AllInv
<1>6. Kept' /\ Stored'
  BY <1>1, <1>5 DEF WInv, Kept, Stored, Pending, Busy
<1>7. OnWire' /\ Complete' /\ Returned'
  BY <1>1, <1>4, <1>5 DEF WInv, OnWire, Complete, Returned
<1>8. Told'
  BY <1>1, <1>3, <1>5 DEF WInv, Told
<1>9. Answered'
  <2>1. CASE ThisOp.rx
    BY <1>1, <1>4, <1>5, <2>1 DEF WInv, Answered, Busy
  <2>2. CASE ~ThisOp.rx
    <3>1. rx \in Seq(0..255) /\ replies \in Seq(0..255)
      BY DEF AllInv, TypeOK, DriverTypeOK, HistoryTypeOK
    <3>2. Len(replies) = 0
      BY <1>1, <1>5, <2>2 DEF WInv, Answered, Busy
    <3>3. Len(rx) = 0
      BY <1>1, <2>2 DEF AllInv, Placed, Busy, ThisOp
    <3>4. rx = replies
      BY <3>1, <3>2, <3>3, EmptySeq
    <3>5. QED
      BY <1>1, <1>4, <2>2, <3>2, <3>4 DEF Answered
  <2>3. QED
    BY <2>1, <2>2
<1>10. QED
  BY <1>1, <1>6, <1>7, <1>8, <1>9, OutOfCommand DEF WInv

\* What is read of rxr is what the peripheral answered.
LEMMA RxrWire ==
    ASSUME AllInv, ReadRxr, UNCHANGED history, UNCHANGED <<reply, left>>,
           UNCHANGED <<byteregs, bitouts, serving, age>>
    PROVE  WInv'
<1>1. /\ pc = "rxr" /\ pc' = "check" /\ rx' = Append(rx, rxr)
      /\ UNCHANGED <<txn, k, status, ret, wire, replies, outcome>> /\ rxack' = rxack
  BY DEF ReadRxr, Access, history, byteregs
<1>2. ThisOp' = ThisOp /\ Before' = Before /\ ThisByte' = ThisByte
  BY <1>1 DEF ThisOp, Before, ThisByte
<1>3. WInv
  BY DEF AllInv
<1>4. /\ ThisOp.rx /\ Len(rx) = k - Len(txn) + 1
      /\ Len(replies) = k - Len(txn) + 2
      /\ \A j \in 1..Len(rx) : rx[j] = replies[j]
      /\ outcome = "done" => rxr = replies[Len(replies)]
      /\ outcome \in {"done", "lost"}
  <2>1. ThisOp.rx /\ Len(rx) = k - Len(txn) + 1
    BY <1>1 DEF AllInv, Placed, Busy, ThisOp
  <2>2. QED
    BY <1>1, <1>3, <2>1 DEF WInv, Answered, Told, Busy
<1>5. rx \in Seq(0..255) /\ rxr \in 0..255 /\ replies \in Seq(0..255)
  BY DEF AllInv, TypeOK, DriverTypeOK, HistoryTypeOK, Byte!TypeOK
<1>6. k \in Nat /\ Len(txn) \in Nat
  BY <1>1, CurrentOp DEF AllInv, WellFormed, Busy
<1>7. outcome = "done" => rx' = replies
  <2> SUFFICES ASSUME outcome = "done" PROVE rx' = replies
    OBVIOUS
  <2>1. Len(replies) = Len(rx) + 1
    BY <1>4, <1>6
  <2>2. /\ rx' \in Seq(0..255) /\ Len(rx') = Len(rx) + 1 /\ rx'[Len(rx) + 1] = rxr
        /\ \A j \in 1..Len(rx) : rx'[j] = rx[j]
    BY <1>1, <1>5, AppendProperties
  <2>3. ASSUME NEW j \in 1..Len(rx') PROVE rx'[j] = replies[j]
    <3>1. j \in 1..Len(rx) \/ j = Len(rx) + 1
      BY <1>5, <2>2
    <3>2. QED
      BY <1>4, <2>1, <2>2, <3>1
  <2>4. QED
    BY <1>5, <2>1, <2>2, <2>3, SeqEqual
<1>8. Kept' /\ Stored'
  BY <1>1, <1>3 DEF WInv, Kept, Stored, Pending, Busy
<1>9. OnWire' /\ Complete' /\ Returned'
  BY <1>1, <1>2, <1>3 DEF WInv, OnWire, Complete, Returned
<1>10. Told'
  BY <1>1, <1>3 DEF WInv, Told
<1>11. Answered'
  BY <1>1, <1>2, <1>4, <1>7 DEF Answered
<1>12. QED
  BY <1>1, <1>8, <1>9, <1>10, <1>11, OutOfCommand DEF WInv

\* An operation whose status the driver finds good is on the wire,
\* acknowledged if it was a transmit.
LEMMA GoodOperation ==
    ASSUME AllInv, pc = "check", ~Failed(ThisOp)
    PROVE  /\ outcome = "done" /\ rx = replies
           /\ wire = Symbolled(txn, replies, k, "0")
<1>1. Told /\ Complete /\ Answered
  BY DEF AllInv, WInv
<1>2. ~status.ArbLost /\ (ThisOp.rx \/ ~status.RxACK)
  BY DEF Failed
<1>3. outcome = "done" /\ (ThisOp.rx \/ ~rxack)
  BY <1>1, <1>2 DEF Told
<1>4. rx = replies
  BY <1>1, <1>3 DEF Answered, Busy
<1>5. wire = Symbolled(txn, replies, k, BitSymbol(rxack))
  BY <1>1, <1>3 DEF Complete
<1>6. CASE ThisOp.rx
  <2>1. k \in Nat /\ k >= 1 /\ BitSymbol(rxack) \in Symbols /\ "0" \in Symbols
    BY CurrentOp DEF AllInv, Busy, WellFormed, BitSymbol, Symbols
  <2>2. Symbolled(txn, replies, k, BitSymbol(rxack)) = Symbolled(txn, replies, k, "0")
    BY <1>6, <2>1, SymbolledSame DEF ThisOp
  <2>3. QED
    BY <1>3, <1>4, <1>5, <2>2
<1>7. CASE ~rxack
  BY <1>3, <1>4, <1>5, <1>7 DEF BitSymbol
<1>8. QED
  BY <1>3, <1>6, <1>7

\* The driver goes on to the next operation.
LEMMA AdvanceWire ==
    ASSUME AllInv, Advance, UNCHANGED history, UNCHANGED <<reply, left>>,
           UNCHANGED <<byteregs, bitouts, serving, age>>
    PROVE  WInv'
<1>1. /\ pc = "check" /\ ~Failed(ThisOp) /\ k < Len(txn) /\ k' = k + 1
      /\ ThisOp' = txn[k + 1] /\ pc' = (IF ThisOp'.rx THEN "command" ELSE "txr")
      /\ UNCHANGED <<txn, status, rx, ret, wire, replies, outcome>> /\ rxack' = rxack
  BY DEF Advance, Begin, history, byteregs, ThisOp
<1>2. outcome = "done" /\ rx = replies /\ wire = Symbolled(txn, replies, k, "0")
  BY <1>1, GoodOperation
<1>3. WellFormed(txn) /\ k \in 1..Len(txn) /\ Len(txn) \in Nat /\ k \in Nat
  BY <1>1, CurrentOp DEF AllInv, WellFormed, Busy
<1>4. WInv
  BY DEF AllInv
<1>5. Kept'
  <2>1. k' \in 1..Len(txn)
    BY <1>1, <1>3
  <2>2. QED
    BY <1>1, <1>4, <2>1 DEF WInv, Kept, Busy
<1>6. Stored'
  BY <1>1 DEF Stored, Pending
<1>7. OnWire'
  <2>1. k' - 1 = k
    BY <1>1, <1>3
  <2>2. Before' = wire
    BY <1>1, <1>2, <2>1 DEF Before
  <2>3. QED
    BY <1>1, <2>2 DEF OnWire
<1>8. Answered'
  <2>1. Len(replies) = IF ~ThisOp.rx THEN 0 ELSE k - Len(txn) + 2
    BY <1>1, <1>4 DEF WInv, Answered, Busy
  <2>2. k + 1 \in 1..Len(txn)
    BY <1>1, <1>3
  <2>3. /\ ThisOp.rx <=> txn[Len(txn)].rx /\ k >= Len(txn) - 1
        /\ ThisOp'.rx <=> txn[Len(txn)].rx /\ k + 1 >= Len(txn) - 1
    BY <1>1, <1>3, <2>2 DEF WellFormed, ThisOp
  <2>4. Len(replies) = IF ~ThisOp'.rx THEN 0 ELSE (k + 1) - Len(txn) + 1
    BY <1>1, <1>3, <2>1, <2>3
  <2>5. QED
    BY <1>1, <1>2, <2>4 DEF Answered
<1>9. Complete' /\ Returned'
  BY <1>1 DEF Complete, Returned
<1>10. Told'
  BY <1>1, <1>4 DEF WInv, Told
<1>11. QED
  BY <1>1, <1>5, <1>6, <1>7, <1>8, <1>9, <1>10, OutOfCommand DEF WInv

\* The transaction returns what there is to return.
LEMMA ReturnWire ==
    ASSUME AllInv, Return, UNCHANGED history, UNCHANGED <<reply, left>>,
           UNCHANGED <<byteregs, bitouts, serving, age>>
    PROVE  WInv'
<1>1. /\ pc = "check" /\ pc' = "idle"
      /\ \/ Failed(ThisOp) /\ ret' = status_error_code
         \/ ~Failed(ThisOp) /\ k = Len(txn) /\ ret' = ReturnValue
      /\ UNCHANGED <<txn, k, status, rx, wire, replies, outcome>> /\ rxack' = rxack
  BY DEF Return, history, byteregs, ThisOp
<1>2. ThisOp' = ThisOp /\ Before' = Before /\ ThisByte' = ThisByte
  BY <1>1 DEF ThisOp, Before, ThisByte
<1>3. WInv
  BY DEF AllInv
<1>4. WellFormed(txn) /\ k \in 1..Len(txn) /\ txn # <<>>
  BY <1>1, CurrentOp, EmptySeq DEF AllInv, WellFormed, Busy
<1>5. Kept'
  BY <1>1, <1>3, <1>4 DEF WInv, Kept
<1>6. Stored' /\ Answered' /\ Complete'
  BY <1>1 DEF Stored, Pending, Answered, Complete, Busy
<1>7. OnWire'
  BY <1>1, <1>2, <1>3 DEF WInv, OnWire
<1>8. Told'
  BY <1>1, <1>3 DEF WInv, Told
<1>9. Returned'
  <2>1. Told /\ Complete
    BY <1>3 DEF WInv
  <2>2. CASE Failed(ThisOp) /\ status.ArbLost
    <3>1. outcome = "lost" /\ ~status.RxACK
      BY <1>1, <2>1, <2>2 DEF Told
    <3>2. ret' = EARB
      BY <1>1, <2>2, <3>1 DEF status_error_code
    <3>3. QED
      BY <1>1, <1>4, <3>1, <3>2 DEF Returned
  <2>3. CASE Failed(ThisOp) /\ ~status.ArbLost
    <3>1. ~ThisOp.rx /\ status.RxACK
      BY <2>3 DEF Failed
    <3>2. outcome = "done" /\ rxack
      BY <1>1, <2>1, <2>3, <3>1 DEF Told
    <3>3. wire = Symbolled(txn, replies, k, "1")
      BY <1>1, <2>1, <3>2 DEF Complete, BitSymbol
    <3>4. ret' = ENACK
      BY <1>1, <2>3, <3>1 DEF status_error_code
    <3>5. QED
      BY <1>1, <1>2, <1>4, <3>1, <3>3, <3>4 DEF Returned
  <2>4. CASE ~Failed(ThisOp)
    <3>1. rx = replies /\ wire = Symbolled(txn, replies, Len(txn), "0") /\ ret' = ReturnValue
      BY <1>1, <2>4, GoodOperation
    <3>2. ret' >= 0 /\ ret' = IF Len(replies) = 2 THEN 256 * replies[1] + replies[2] ELSE 0
      <4>1. k \in Nat /\ Len(txn) \in Nat /\ k = Len(txn)
        BY <1>1, <1>4, <2>4 DEF WellFormed
      <4>2. Len(rx) = IF ~ThisOp.rx THEN 0 ELSE k - Len(txn) + 2
        BY <1>1 DEF AllInv, Placed, Busy, ThisOp
      <4>3. Len(rx) = 0 \/ Len(rx) = 2
        BY <4>1, <4>2
      <4>4. rx \in Seq(0..255)
        BY DEF AllInv, TypeOK, DriverTypeOK
      <4>5. CASE Len(rx) = 0
        <5>1. rx = <<>>
          BY <4>4, <4>5, EmptySeq
        <5>2. ReturnValue = 0
          BY <5>1 DEF ReturnValue
        <5>3. Len(replies) # 2 /\ ret' = 0
          BY <3>1, <4>5, <5>2
        <5>4. QED
          BY <5>3
      <4>6. CASE Len(rx) = 2
        <5>1. rx # <<>> /\ rx[1] \in 0..255 /\ rx[2] \in 0..255
          <6>1. 1 \in 1..Len(rx) /\ 2 \in 1..Len(rx)
            BY <4>6
          <6>2. rx # <<>>
            BY <4>6, EmptySeq
          <6>3. QED
            BY <4>4, <6>1, <6>2, ElementOfSeq
        <5>2. ReturnValue = rx[1] * 256 + rx[2]
          BY <5>1 DEF ReturnValue
        <5>3. ReturnValue = 256 * rx[1] + rx[2] /\ ReturnValue >= 0
          <6>1. \A x, y \in 0..255 : x * 256 + y = 256 * x + y /\ x * 256 + y >= 0
            OBVIOUS
          <6>2. rx[1] * 256 + rx[2] = 256 * rx[1] + rx[2] /\ rx[1] * 256 + rx[2] >= 0
            BY <5>1, <6>1, Zenon
          <6>3. QED
            BY <5>2, <6>2
        <5>4. QED
          BY <3>1, <4>6, <5>3
      <4>7. QED
        BY <4>3, <4>5, <4>6
    <3>3. QED
      BY <1>1, <1>4, <3>1, <3>2 DEF Returned
  <2>5. QED
    BY <2>2, <2>3, <2>4
<1>10. QED
  BY <1>1, <1>5, <1>6, <1>7, <1>8, <1>9, OutOfCommand DEF WInv

\* A step of the CPU keeps the invariant.
LEMMA CpuWire ==
    ASSUME AllInv, Cpu \/ Caller
    PROVE  WInv'
<1>1. UNCHANGED <<byteregs, bitouts, serving, age>>
  BY CpuKeeps
<1>2. CASE CpuCommand /\ PeripheralReply
  BY <1>1, <1>2, CommandWire
<1>3. CASE CpuInit /\ UNCHANGED <<reply, left>>
  BY <1>1, <1>3, InitWire
<1>4. CASE CpuOther /\ UNCHANGED <<reply, left>>
  BY <1>1, <1>4, TxrWire, BusyWire, DoneWire, RxrWire, AdvanceWire, ReturnWire DEF CpuOther
<1>5. CASE CpuCall
  BY <1>1, <1>5, CallWire
<1>6. QED
  BY <1>2, <1>3, <1>4, <1>5 DEF Cpu, Caller

-----------------------------------------------------------------------------
\* WInv holds in every reachable state, on top of the invariants of
\* I2CTransferProofs.
THEOREM WireInvariance == Spec => []WInv
<1>1. Init => WInv
  <2> SUFFICES ASSUME Init PROVE WInv
    OBVIOUS
  <2>1. /\ pc = "core_reset" /\ txn = <<>> /\ ret = NoReturn /\ outcome = "none" /\ ~rxack
    BY DEF Init, DriverInit, HistoryInit, Byte!Init
  <2>2. Kept /\ Stored /\ InProgress /\ OnWire
    BY <2>1 DEF Kept, Stored, InProgress, OnWire, Pending
  <2>3. Answered /\ Complete /\ Told /\ Returned
    BY <2>1 DEF Answered, Complete, Told, Returned, Busy
  <2>4. QED
    BY <2>2, <2>3 DEF WInv
<1>2. IInv /\ Offering /\ TypeOK /\ Placed /\ WInv /\ [Next]_vars => WInv'
  <2> SUFFICES ASSUME AllInv, [Next]_vars PROVE WInv'
    BY DEF AllInv
  <2>1. CASE Next
    BY <2>1, TickWire, CpuWire DEF Next
  <2>2. CASE UNCHANGED vars
    <3>1. UNCHANGED <<csr, byteregs, bitouts, serving, driver, reply, left, history>>
      BY <2>2 DEF vars, hardware
    <3>2. ThisOp' = ThisOp /\ Before' = Before /\ ThisByte' = ThisByte /\ Pending' = Pending
      BY <3>1 DEF ThisOp, Before, ThisByte, Pending, driver, history
    <3>3. WInv
      BY DEF AllInv
    <3>4. Kept' /\ Stored'
      BY <3>1, <3>2, <3>3 DEF WInv, Kept, Stored, csr, driver
    <3>5. InProgress'
      <4>1. BitsDone' = BitsDone /\ Place' = Place /\ ThisAck' = ThisAck
        BY <3>1, <3>2 DEF BitsDone, Place, Acked, ThisAck, byteregs, bitouts
      <4>2. Turn' = Turn /\ Position' = Position /\ Writing' = Writing /\ Reading' = Reading
        BY <3>1, <3>2, <4>1
        DEF Turn, Position, Writing, Reading, csr, byteregs, bitouts, history
      <4>3. QED
        BY <3>1, <3>2, <3>3, <4>2 DEF WInv, InProgress, bitouts
    <3>6. OnWire' /\ Returned'
      BY <3>1, <3>2, <3>3 DEF WInv, OnWire, Returned, driver, history
    <3>7. Complete' /\ Told'
      BY <3>1, <3>3 DEF WInv, Complete, Told, byteregs, driver, history
    <3>8. Answered'
      BY <3>1, <3>2, <3>3 DEF WInv, Answered, byteregs, driver, history
    <3>9. QED
      BY <3>4, <3>5, <3>6, <3>7, <3>8 DEF WInv
  <2>3. QED
    BY <2>1, <2>2
<1>3. QED
  BY <1>1, <1>2, Invariance, OfferInvariance, TypeInvariance, PTL DEF Spec

\* WirePrefix (I2CSession): whatever happens, what is on the bus is a prefix of
\* what the driver asked for (custom-bios/i2c.c:44), every byte of it bit by
\* bit, a byte received included.
THEOREM WireIsPrefix == Spec => []WirePrefix
<1>1. TypeOK /\ Placed /\ WInv => WirePrefix
  <2> SUFFICES ASSUME TypeOK, Placed, WInv, txn # <<>>
               PROVE  \E a \in {"0", "1"} : IsPrefix(wire, TxnSymbols(Begun, a))
    BY DEF WirePrefix
  <2>1. txn \in Txns /\ k \in 1..Len(txn)
    BY DEF WInv, Kept
  <2>2. WellFormed(txn) /\ k \in Nat /\ k >= 1 /\ k \in 0..Len(txn) /\ k - 1 \in 0..Len(txn)
        /\ k - 1 \in Nat
    BY <2>1, TxnsWellFormed DEF WellFormed
  <2>3. "0" \in Symbols /\ "1" \in Symbols
    BY DEF Symbols
  <2>4. Before \in Seq(Symbols)
    BY <2>2, <2>3, SymbolledType DEF Before
  <2>5. CASE pc \in {"txr", "command"}
    <3>1. wire = Before /\ Begun = k - 1
      BY <2>1, <2>2, <2>5, EmptySeq DEF WInv, OnWire, Begun
    <3>2. TxnSymbols(Begun, "0") = wire
      BY <2>2, <2>3, <3>1, SymbolledIs DEF Before
    <3>3. IsPrefix(wire, wire)
      BY <2>4, <3>1 DEF IsPrefix
    <3>4. QED
      BY <3>2, <3>3
  <2>6. CASE pc \notin {"txr", "command"}
    <3>1. PICK a \in {"0", "1"}, p \in 0..OpLength(ThisOp) :
            wire = Before \o Sent(ThisOp, ThisByte, a, p)
      BY <2>6 DEF WInv, OnWire
    <3>2. a \in Symbols
      BY <2>3
    <3>3. TxnSymbols(k, a) = Before \o Sent(ThisOp, ThisByte, a, OpLength(ThisOp))
      <4>1. TxnSymbols(k, a) = Symbolled(txn, replies, k, a)
        BY <2>2, <3>2, SymbolledIs
      <4>2. QED
        BY <2>2, <3>2, <4>1, SymbolledHere
    <3>4. IsPrefix(wire, TxnSymbols(k, a))
      BY <2>4, <3>1, <3>2, <3>3, SentIsPrefix
    <3>5. Begun = k
      BY <2>6 DEF Begun
    <3>6. QED
      BY <3>4, <3>5
  <2>7. QED
    BY <2>5, <2>6
<1>2. QED
  BY <1>1, WireInvariance, TypeInvariance, PTL

\* ReturnTruthful (I2CSession): success, ENACK, EARB and the two bytes of a read
\* are what happened on the bus (custom-bios/i2c.c:82), and EUNK is never
\* returned.
THEOREM ReturnIsTruthful == Spec => []ReturnTruthful
<1>1. WInv => ReturnTruthful
  <2> SUFFICES ASSUME WInv, pc = "idle", ret # NoReturn PROVE ReturnTruthful
    BY DEF ReturnTruthful
  <2>1. Returned /\ txn # <<>> /\ txn \in Txns /\ k \in 1..Len(txn)
    BY DEF WInv, Returned, Kept
  <2>2. WellFormed(txn) /\ k \in 0..Len(txn) /\ Len(txn) \in 0..Len(txn)
    BY <2>1, TxnsWellFormed DEF WellFormed
  <2>3. "0" \in Symbols /\ "1" \in Symbols
    BY DEF Symbols
  <2>4. /\ TxnSymbols(Len(txn), "0") = Symbolled(txn, replies, Len(txn), "0")
        /\ TxnSymbols(k, "1") = Symbolled(txn, replies, k, "1")
    BY <2>2, <2>3, SymbolledIs
  <2>5. QED
    BY <2>1, <2>4 DEF Returned, ReturnTruthful, ThisOp
<1>2. QED
  BY <1>1, WireInvariance, PTL
=============================================================================
