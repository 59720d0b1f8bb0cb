----------------------------- MODULE I2CTransfer -----------------------------
(***************************************************************************)
(* The BIOS driver, the CSR wrapper and the byte controller over the       *)
(* abstract bit service: everything between a call of an i2c_*_txn and the *)
(* START, STOP and data bits that the bit controller puts on the bus.      *)
(*                                                                         *)
(* The peripheral at the other end is external: it acknowledges or not,    *)
(* and answers a read with reply, most significant bit first, left being   *)
(* the number of bits of it still to be sent.                              *)
(***************************************************************************)
EXTENDS I2CSession

CONSTANTS Setup,      \* clocks the bit service holds a command before using its bit
          RxBytes     \* bytes the peripheral may answer
ASSUME TransferAssumption == Setup \in Nat \ {0} /\ RxBytes \subseteq 0..255

VARIABLES serving, age       \* the bit service
VARIABLES reply, left        \* the peripheral

hardware == <<byteregs, bitouts, serving, age>>
vars == <<csr, hardware, driver, reply, left, history>>

Bit == INSTANCE I2CBitService WITH
    rst <- core_reset, cmd <- core_cmd, din <- core_txd,
    cmd_ack <- core_ack, dout <- core_rxd, al <- i2c_al

\* The types of all the variables.
TypeOK ==
    /\ CsrTypeOK
    /\ Byte!TypeOK
    /\ Bit!TypeOK
    /\ DriverTypeOK
    /\ HistoryTypeOK
    /\ reply \in 0..255
    /\ left \in 0..8

Init ==
    /\ CsrInit
    /\ Byte!Init
    /\ Bit!Init
    /\ DriverInit
    /\ HistoryInit
    /\ reply = 0
    /\ left = 0

-----------------------------------------------------------------------------
(* The clock.                                                              *)

\* What the peripheral puts on the bus for a READ bit command: the next bit
\* of its reply, or, with no reply to send, an acknowledge bit of its choice.
PeripheralTick ==
    /\ UNCHANGED <<reply, replies>>
    /\ IF serving = "READ" /\ core_ack' /\ left > 0
       THEN /\ core_rxd' = BitOf(reply, left - 1)
            /\ left' = left - 1
       ELSE left' = left

\* The bit command that ends with this clock, unless arbitration is lost.
WireTick ==
    wire' = IF core_ack' /\ ~i2c_al'
            THEN Append(wire, IF serving \in {"READ", "WRITE"}
                              THEN BitSymbol(core_rxd') ELSE serving)
            ELSE wire

\* One clock in which the bit service takes the step BitStep.
Clock(BitStep) ==
    /\ BitStep
    /\ CoreTick
    /\ DriverTick
    /\ PeripheralTick
    /\ WireTick
    /\ OutcomeTick

TickAbort  == Clock(Bit!Abort)
TickAccept == Clock(Bit!Accept)
TickRest   == Clock(Bit!Rest)
TickWork   == Clock(Bit!Work)
TickFinish == Clock(Bit!Finish)

Tick == TickAbort \/ TickAccept \/ TickRest \/ TickWork \/ TickFinish

-----------------------------------------------------------------------------
\* With a receive command the peripheral chooses what it answers.
PeripheralReply ==
    IF txn[k].rx
    THEN \E b \in RxBytes : reply' = b /\ left' = 8 /\ replies' = Append(replies, b)
    ELSE left' = 0 /\ UNCHANGED <<reply, replies>>

Cpu ==
    /\ \/ CpuCommand /\ PeripheralReply
       \/ (CpuInit \/ CpuOther) /\ UNCHANGED <<reply, left>>
    /\ UNCHANGED hardware

\* A new transaction has had no answer yet.
Caller ==
    /\ CpuCall
    /\ reply' = 0 /\ left' = 0
    /\ UNCHANGED hardware

Next == Tick \/ Cpu \/ Caller

\* The clock runs and the CPU executes; the bit service takes a command that
\* waits, moves it on and ends it, which the bit controller does as long as
\* the peripheral does not hold SCL low for ever.
Fairness ==
    /\ WF_vars(Cpu)
    /\ WF_vars(Tick)
    /\ WF_vars(TickAccept)
    /\ WF_vars(Clock(Bit!Work /\ age' = age + 1))
    /\ WF_vars(TickFinish)

Spec == Init /\ [][Next]_vars

-----------------------------------------------------------------------------
(* Properties, besides those of I2CSession.                                *)

\* When i2c_wait_tip leaves its loop the command it waited for is over and
\* the core is at rest: nothing of it can still touch the bus or change
\* status and rxr before the next command.
TipSound ==
    TipClear =>
        /\ outcome \in {"done", "lost"}
        /\ command = NoCommand
        /\ byte_state = "IDLE" /\ core_cmd = "NOP" /\ serving = "NOP"
        /\ ~done /\ ~core_ack /\ ~i2c_al /\ ~shift /\ ~ld

\* The data bit that the byte controller offers (core_txd) does not change
\* once the bit controller may sample it, which it does at each quarter of
\* the bit: the shift register has settled by then.
TxdStable ==
    [][serving = "WRITE" /\ age = Setup /\ serving' = "WRITE" /\ ~i2c_al
         => core_txd' = core_txd]_vars
=============================================================================
