------------------------------- MODULE I2CBus --------------------------------
(***************************************************************************)
(* The whole I2C path, clock by clock: BIOS driver, CSR wrapper, byte      *)
(* controller, bit controller, the two open-drain lines and one peripheral *)
(* on them.  The core is the only controller on this bus.                  *)
(*                                                                         *)
(* The peripheral is external and behaves as the I2C standard has it: it   *)
(* moves SDA only while SCL is low, acknowledges a byte or not, answers a  *)
(* read, and may hold SCL low for a while before the bits of StretchAt     *)
(* (bit 8 is the ACK).  It and the observer who records wire see the lines *)
(* one clock late and know nothing of the core's registers.                *)
(***************************************************************************)
EXTENDS I2CSession

CONSTANTS RxBytes,     \* bytes the peripheral may answer
          StretchAt    \* bits before which the peripheral may hold SCL low
ASSUME BusAssumption == RxBytes \subseteq 0..255 /\ StretchAt \subseteq 0..8

VARIABLES dscl_oen, peripheral_wait, cnt, clk_en, cSCL, cSDA, filter_cnt, fSCL, fSDA,
          sSCL, sSDA, dSCL, dSDA, sta_condition, sto_condition, busy, cmd_stop,
          bit_state, scl_oen, sda_oen, sda_chk
VARIABLES dev_scl, dev_sda,        \* the peripheral releases the line
          role, nbit, rw, reply,   \* its state
          was_scl, was_sda,        \* the lines one clock ago
          bit                      \* data bit of the current high phase of SCL

bitregs == <<dscl_oen, peripheral_wait, cnt, clk_en, cSCL, cSDA, filter_cnt, fSCL, fSDA,
             sSCL, sSDA, dSCL, dSDA, sta_condition, sto_condition, busy, cmd_stop,
             bit_state, scl_oen, sda_oen, sda_chk>>
peripheral == <<dev_scl, dev_sda, role, nbit, rw, reply>>
lines == <<was_scl, was_sda, bit>>
hardware == <<byteregs, bitouts, bitregs>>
vars == <<csr, hardware, peripheral, lines, driver, history>>

\* Open drain: a line is high when nobody pulls it low.
scl == scl_oen /\ dev_scl
sda == sda_oen /\ dev_sda

Bit == INSTANCE I2CBitCtrl WITH
    rst <- core_reset, ena <- control.EN, clk_cnt <- prescale,
    cmd <- core_cmd, din <- core_txd, scl_i <- scl, sda_i <- sda,
    c_state <- bit_state, cmd_ack <- core_ack, dout <- core_rxd, al <- i2c_al

Roles == {"off", "address", "listen", "talk"}

\* The types of all the variables.
TypeOK ==
    /\ CsrTypeOK
    /\ Byte!TypeOK
    /\ Bit!TypeOK
    /\ DriverTypeOK
    /\ HistoryTypeOK
    /\ {dev_scl, dev_sda, rw, was_scl, was_sda} \subseteq BOOLEAN
    /\ role \in Roles /\ nbit \in 0..8 /\ reply \in 0..255
    /\ bit \in {"none", "0", "1"}

Init ==
    /\ CsrInit
    /\ Byte!Init
    /\ Bit!Init
    /\ DriverInit
    /\ HistoryInit
    /\ dev_scl = TRUE /\ dev_sda = TRUE
    /\ role = "off" /\ nbit = 0 /\ rw = FALSE /\ reply = 0
    /\ was_scl = TRUE /\ was_sda = TRUE
    /\ bit = "none"

-----------------------------------------------------------------------------
(* Events on the lines.                                                    *)

Rise == scl /\ ~was_scl
Fall == ~scl /\ was_scl
StartSeen == scl /\ was_scl /\ ~sda /\ was_sda
StopSeen == scl /\ was_scl /\ sda /\ ~was_sda

\* A bit is what SDA is at the rise of SCL, unless SDA moves before the fall.
ObserverTick ==
    /\ was_scl' = scl
    /\ was_sda' = sda
    /\ bit' = IF Rise THEN BitSymbol(sda)
              ELSE IF StartSeen \/ StopSeen \/ Fall THEN "none" ELSE bit
    /\ wire' = IF StartSeen THEN Append(wire, "START")
               ELSE IF StopSeen THEN Append(wire, "STOP")
               ELSE IF Fall /\ bit # "none" THEN Append(wire, bit)
               ELSE wire

-----------------------------------------------------------------------------
(* The peripheral.                                                         *)

Listen(next, n) ==
    /\ role' = next /\ nbit' = n
    /\ dev_sda' = TRUE
    /\ UNCHANGED <<rw, reply, replies>>

\* It was addressed or acknowledged: it answers one more byte.
Talk ==
    /\ role' = "talk" /\ nbit' = 0
    /\ \E b \in RxBytes :
         reply' = b /\ replies' = Append(replies, b) /\ dev_sda' = BitOf(b, 7)
    /\ UNCHANGED rw

\* The end of bit nbit of a byte.
AfterBit ==
    \/ /\ role = "off"
       /\ Listen("off", 0)
    \/ /\ role \in {"address", "listen"} /\ nbit < 7
       /\ Listen(role, nbit + 1)
    \/ /\ role \in {"address", "listen"} /\ nbit = 7     \* acknowledge, or not
       /\ role' = role /\ nbit' = 8
       /\ rw' = (role = "address" /\ bit = "1")
       /\ dev_sda' \in BOOLEAN
       /\ UNCHANGED <<reply, replies>>
    \/ /\ role = "talk" /\ nbit < 7
       /\ role' = "talk" /\ nbit' = nbit + 1
       /\ dev_sda' = BitOf(reply, 7 - nbit')
       /\ UNCHANGED <<rw, reply, replies>>
    \/ /\ role = "talk" /\ nbit = 7
       /\ Listen("talk", 8)
    \/ /\ role # "off" /\ nbit = 8
       /\ IF bit = "1" THEN Listen("off", 0)
          ELSE IF role = "talk" \/ rw THEN Talk
          ELSE Listen("listen", 0)

PeripheralTick ==
    /\ \/ StartSeen /\ Listen("address", 0)
       \/ StopSeen /\ Listen("off", 0)
       \/ Fall /\ bit # "none" /\ AfterBit
       \/ /\ ~StartSeen /\ ~StopSeen /\ ~(Fall /\ bit # "none")
          /\ UNCHANGED <<dev_sda, role, nbit, rw, reply, replies>>
    /\ dev_scl' \in IF ~dev_scl \/ (Fall /\ role' # "off" /\ nbit' \in StretchAt)
                    THEN BOOLEAN ELSE {TRUE}

-----------------------------------------------------------------------------
Clock ==
    /\ CoreTick
    /\ Bit!Tick
    /\ DriverTick
    /\ ObserverTick
    /\ PeripheralTick
    /\ OutcomeTick

\* A clock through which the peripheral goes on holding SCL, and any other.
TickStretched == Clock /\ ~dev_scl /\ ~dev_scl'
TickRunning == Clock /\ (dev_scl \/ dev_scl')

Cpu ==
    /\ \/ CpuCommand /\ UNCHANGED replies
       \/ CpuInit
       \/ CpuOther
    /\ UNCHANGED <<hardware, peripheral, lines>>

Caller == CpuCall /\ UNCHANGED <<hardware, peripheral, lines>>

Next == TickRunning \/ TickStretched \/ Cpu \/ Caller

\* The clock runs and the CPU executes; the peripheral lets go of SCL.
Spec == Init /\ [][Next]_vars /\ WF_vars(Cpu) /\ WF_vars(TickRunning)

-----------------------------------------------------------------------------
(* Properties, besides those of I2CSession.                                *)

\* With no other controller on the bus, a stretching or refusing peripheral
\* is never taken for one: arbitration is never lost.
NoArbitrationLoss == ~i2c_al /\ ~arb_lost

\* A transaction that succeeds leaves both lines released.
BusReleased == pc = "idle" /\ ret >= 0 => scl /\ sda

\* The bit controller keeps the promise of I2CBitService, with one clock of
\* setup for the data bit: what is proved and checked of I2CTransfer holds
\* for the real bit controller.
Serving ==
    CASE bit_state \in {"start_a", "start_b", "start_c", "start_d", "start_e"} -> "START"
      [] bit_state \in {"stop_a", "stop_b", "stop_c", "stop_d"} -> "STOP"
      [] bit_state \in {"rd_a", "rd_b", "rd_c", "rd_d"} -> "READ"
      [] bit_state \in {"wr_a", "wr_b", "wr_c", "wr_d"} -> "WRITE"
      [] OTHER -> "NOP"

FirstQuarters == {"start_a", "stop_a", "rd_a", "wr_a"}

\* The data bit is first sampled at the clock enable that ends the first
\* quarter.
Age == IF bit_state = "idle" \/ (bit_state \in FirstQuarters /\ ~clk_en) THEN 0 ELSE 1

Service == INSTANCE I2CBitService WITH
    Setup <- 1, rst <- core_reset, cmd <- core_cmd, din <- core_txd,
    serving <- Serving, age <- Age, cmd_ack <- core_ack, dout <- core_rxd, al <- i2c_al

ImplementsBitService == Service!Spec

-----------------------------------------------------------------------------
(* I2CBus implements I2CTransfer.  There a symbol is on the bus with the   *)
(* clock that ends its bit command, and the peripheral has the answer to a *)
(* receive command with the store of that command.  On the lines, a START  *)
(* is seen two quarters before its command ends, any other symbol in the   *)
(* clock after, and the peripheral has its answer as soon as it has been   *)
(* addressed, or its last byte acknowledged.                               *)

\* All but the last element of a sequence, and the last one.
Front(s) == SubSeq(s, 1, Len(s) - 1)
Last(s) == s[Len(s)]

\* The START has been seen, its command has not ended.
StartSent == bit_state \in {"start_d", "start_e"} /\ ~was_sda

\* The command has ended, the symbol will be seen with the next clock.
OnItsWay ==
    IF ~core_ack THEN <<>>
    ELSE IF core_cmd \in {"READ", "WRITE"} THEN <<bit>>
    ELSE IF core_cmd = "STOP" THEN <<"STOP">>
    ELSE <<>>

SymbolsSent == IF StartSent THEN Front(wire) ELSE wire \o OnItsWay

\* A receive command is under way.
Receiving == pc = "wait" /\ outcome = "pending" /\ txn[k].rx /\ ~done

\* Without the answer that is ready and has not been asked for.
RepliesAsked ==
    IF role = "talk" /\ nbit = 0 /\ ~Receiving THEN Front(replies) ELSE replies

ReplyAsked == IF RepliesAsked = <<>> THEN 0 ELSE Last(RepliesAsked)

\* Bits of the answer still to be read.
BitsLeft ==
    IF ~Receiving THEN 0
    ELSE IF byte_state = "IDLE" THEN 8
    ELSE IF byte_state = "READ" THEN 8 - nbit - (IF core_ack THEN 1 ELSE 0)
    ELSE 0

Transfer == INSTANCE I2CTransfer WITH
    Setup <- 1, serving <- Serving, age <- Age,
    wire <- SymbolsSent, replies <- RepliesAsked, reply <- ReplyAsked, left <- BitsLeft

ImplementsTransfer == Transfer!Spec
=============================================================================
