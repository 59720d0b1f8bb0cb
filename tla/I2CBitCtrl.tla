----------------------------- MODULE I2CBitCtrl ------------------------------
(***************************************************************************)
(* The bit controller of the I2C core (i2c_controller_bit_ctrl.v), clock   *)
(* by clock, with every register: the clock divider, clock stretching and  *)
(* synchronization, the capture, filter and edge detection of the two      *)
(* lines, START, STOP, busy and arbitration detection, and the state       *)
(* machine that drives the lines in four or five quarters per bit command. *)
(*                                                                         *)
(* The lines are open drain: scl_oen and sda_oen TRUE release them.  The   *)
(* input ports scl_i and sda_i are driven by whoever instantiates the      *)
(* module.  nReset is tied to 1; Init is the state that the synchronous    *)
(* reset rst of power-on leaves.                                           *)
(***************************************************************************)
EXTENDS Naturals

VARIABLES rst, ena, clk_cnt, cmd, din,    \* from the wrapper and the byte controller
          scl_i, sda_i                    \* the two lines

VARIABLES dscl_oen, peripheral_wait, cnt, clk_en,         \* clock divider
          cSCL, cSDA, filter_cnt, fSCL, fSDA,             \* capture, filter
          sSCL, sSDA, dSCL, dSDA,                         \* filtered, delayed lines
          sta_condition, sto_condition, busy, cmd_stop, al, dout,
          c_state, cmd_ack, scl_oen, sda_oen, sda_chk     \* state machine

divider == <<dscl_oen, peripheral_wait, cnt, clk_en>>
inputs == <<cSCL, cSDA, filter_cnt, fSCL, fSDA, sSCL, sSDA, dSCL, dSDA>>
detectors == <<sta_condition, sto_condition, busy, cmd_stop, al, dout>>
drivers == <<c_state, cmd_ack, scl_oen, sda_oen, sda_chk>>
registers == <<divider, inputs, detectors, drivers>>

BitStates ==
    {"idle", "start_a", "start_b", "start_c", "start_d", "start_e",
     "stop_a", "stop_b", "stop_c", "stop_d", "rd_a", "rd_b", "rd_c", "rd_d",
     "wr_a", "wr_b", "wr_c", "wr_d"}

Bits(n) == [1..n -> BOOLEAN]   \* a register of n bits, the last one shifted in last

TypeOK ==
    /\ cnt \in 0..(2^16 - 1) /\ filter_cnt \in 0..(2^14 - 1)
    /\ cSCL \in Bits(2) /\ cSDA \in Bits(2)
    /\ fSCL \in Bits(3) /\ fSDA \in Bits(3)
    /\ c_state \in BitStates
    /\ \A b \in {dscl_oen, peripheral_wait, clk_en, sSCL, sSDA, dSCL, dSDA,
                 sta_condition, sto_condition, busy, cmd_stop, al, dout,
                 cmd_ack, scl_oen, sda_oen, sda_chk} : b \in BOOLEAN

Init ==
    /\ dscl_oen = TRUE /\ peripheral_wait = FALSE
    /\ cnt = clk_cnt /\ clk_en = TRUE
    /\ cSCL = <<FALSE, FALSE>> /\ cSDA = <<FALSE, FALSE>>
    /\ filter_cnt = 0
    /\ fSCL = <<TRUE, TRUE, TRUE>> /\ fSDA = <<TRUE, TRUE, TRUE>>
    /\ sSCL = TRUE /\ sSDA = TRUE /\ dSCL = TRUE /\ dSDA = TRUE
    /\ sta_condition = FALSE /\ sto_condition = FALSE
    /\ busy = FALSE /\ cmd_stop = FALSE /\ al = FALSE
    /\ dout \in BOOLEAN                     \* the one register without reset
    /\ c_state = "idle" /\ cmd_ack = FALSE
    /\ scl_oen = TRUE /\ sda_oen = TRUE /\ sda_chk = FALSE

-----------------------------------------------------------------------------
(* The clock divider: clk_en is TRUE for one clock in clk_cnt + 1.  It     *)
(* freezes while a peripheral holds SCL low that the core has released,    *)
(* and starts anew when another controller pulls SCL low.                  *)

scl_sync == dSCL /\ ~sSCL /\ scl_oen

\* Mutant: one quarter is one clock shorter.
DividerShort ==
    /\ dscl_oen' = scl_oen
    /\ peripheral_wait' = ((scl_oen /\ ~dscl_oen /\ ~sSCL) \/ (peripheral_wait /\ ~sSCL))
    /\ \/ /\ rst \/ cnt = 1 \/ ~ena \/ scl_sync
          /\ cnt' = clk_cnt
          /\ clk_en' = TRUE
       \/ /\ ~(rst \/ cnt = 1 \/ ~ena \/ scl_sync)
          /\ cnt' = IF peripheral_wait THEN cnt ELSE cnt - 1
          /\ clk_en' = FALSE

\* Mutant: a stretched clock does not stop it.
DividerDeaf ==
    /\ dscl_oen' = scl_oen
    /\ peripheral_wait' = FALSE
    /\ \/ /\ rst \/ cnt = 0 \/ ~ena \/ scl_sync
          /\ cnt' = clk_cnt
          /\ clk_en' = TRUE
       \/ /\ ~(rst \/ cnt = 0 \/ ~ena \/ scl_sync)
          /\ cnt' = cnt - 1
          /\ clk_en' = FALSE

\* Mutant: the end of a stretch is not noticed.
DividerFrozen ==
    /\ dscl_oen' = scl_oen
    /\ peripheral_wait' = ((scl_oen /\ ~dscl_oen /\ ~sSCL) \/ peripheral_wait)
    /\ \/ /\ rst \/ cnt = 0 \/ ~ena \/ scl_sync
          /\ cnt' = clk_cnt
          /\ clk_en' = TRUE
       \/ /\ ~(rst \/ cnt = 0 \/ ~ena \/ scl_sync)
          /\ cnt' = IF peripheral_wait THEN cnt ELSE cnt - 1
          /\ clk_en' = FALSE

Divider ==
    /\ dscl_oen' = scl_oen
    /\ peripheral_wait' = ((scl_oen /\ ~dscl_oen /\ ~sSCL) \/ (peripheral_wait /\ ~sSCL))
    /\ \/ /\ rst \/ cnt = 0 \/ ~ena \/ scl_sync
          /\ cnt' = clk_cnt
          /\ clk_en' = TRUE
       \/ /\ ~(rst \/ cnt = 0 \/ ~ena \/ scl_sync)
          /\ cnt' = IF peripheral_wait THEN cnt ELSE cnt - 1
          /\ clk_en' = FALSE

-----------------------------------------------------------------------------
(* Capture, filter, edges.                                                 *)

Majority(f) == (f[1] /\ f[2]) \/ (f[2] /\ f[3]) \/ (f[1] /\ f[3])

Capture ==
    IF rst
    THEN cSCL' = <<FALSE, FALSE>> /\ cSDA' = <<FALSE, FALSE>>
    ELSE cSCL' = <<cSCL[2], scl_i>> /\ cSDA' = <<cSDA[2], sda_i>>

Sampled ==
    IF rst
    THEN fSCL' = <<TRUE, TRUE, TRUE>> /\ fSDA' = <<TRUE, TRUE, TRUE>>
    ELSE IF filter_cnt = 0
    THEN fSCL' = <<fSCL[2], fSCL[3], cSCL[1]>> /\ fSDA' = <<fSDA[2], fSDA[3], cSDA[1]>>
    ELSE UNCHANGED <<fSCL, fSDA>>

\* Mutant: the filter counter does not start again.
FilterOnce ==
    /\ filter_cnt' = IF rst \/ ~ena THEN 0 ELSE filter_cnt - 1
    /\ Sampled

\* A line is sampled once in clk_cnt \div 4 + 1 clocks.
Filter ==
    /\ filter_cnt' = IF rst \/ ~ena THEN 0
                     ELSE IF filter_cnt = 0 THEN clk_cnt \div 4
                     ELSE filter_cnt - 1
    /\ Sampled

Edges ==
    /\ sSCL' = (rst \/ Majority(fSCL))
    /\ sSDA' = (rst \/ Majority(fSDA))
    /\ dSCL' = (rst \/ sSCL)
    /\ dSDA' = (rst \/ sSDA)

-----------------------------------------------------------------------------
(* What the core sees on the lines.                                        *)

BusState ==
    /\ sta_condition' = (~rst /\ ~sSDA /\ dSDA /\ sSCL)
    /\ sto_condition' = (~rst /\ sSDA /\ ~dSDA /\ sSCL)
    /\ busy' = (~rst /\ (sta_condition \/ busy) /\ ~sto_condition)

\* Arbitration is lost when SDA is low that the core has released, or at a
\* STOP that nobody asked the core for.
Arbitration ==
    /\ cmd_stop' = IF rst THEN FALSE ELSE IF clk_en THEN cmd = "STOP" ELSE cmd_stop
    /\ al' = (/\ ~rst
              /\ \/ sda_chk /\ ~sSDA /\ sda_oen
                 \/ c_state # "idle" /\ sto_condition /\ ~cmd_stop)

\* Mutant: SDA is taken at the falling edge.
DataOutLate == dout' = IF ~sSCL /\ dSCL THEN sSDA ELSE dout

\* SDA is taken at the rising edge of SCL.
DataOut == dout' = IF sSCL /\ ~dSCL THEN sSDA ELSE dout

-----------------------------------------------------------------------------
(* The state machine.                                                      *)

\* One quarter of a bit command: the lines as driven from here on.
Quarter(from, to, scl, sda, chk) ==
    /\ c_state = from
    /\ c_state' = to
    /\ scl_oen' = scl
    /\ sda_oen' = sda
    /\ sda_chk' = chk

Abort ==
    /\ c_state' = "idle"
    /\ scl_oen' = TRUE
    /\ sda_oen' = TRUE
    /\ sda_chk' = FALSE

FirstQuarter ==
    CASE cmd = "START" -> "start_a"
      [] cmd = "STOP"  -> "stop_a"
      [] cmd = "WRITE" -> "wr_a"
      [] cmd = "READ"  -> "rd_a"
      [] OTHER         -> "idle"

\* Mutant: SDA falls while SCL rises.
DriveStartEarly ==
    \/ Quarter("start_a", "start_b", scl_oen, TRUE, FALSE)
    \/ Quarter("start_b", "start_c", TRUE, FALSE, FALSE)
    \/ Quarter("start_c", "start_d", TRUE, FALSE, FALSE)
    \/ Quarter("start_d", "start_e", TRUE, FALSE, FALSE)
    \/ Quarter("start_e", "idle", FALSE, FALSE, FALSE)

DriveStart ==
    \/ Quarter("start_a", "start_b", scl_oen, TRUE, FALSE)
    \/ Quarter("start_b", "start_c", TRUE, TRUE, FALSE)
    \/ Quarter("start_c", "start_d", TRUE, FALSE, FALSE)
    \/ Quarter("start_d", "start_e", TRUE, FALSE, FALSE)
    \/ Quarter("start_e", "idle", FALSE, FALSE, FALSE)

\* Mutant: SDA is not released at the end.
DriveStopHeld ==
    \/ Quarter("stop_a", "stop_b", FALSE, FALSE, FALSE)
    \/ Quarter("stop_b", "stop_c", TRUE, FALSE, FALSE)
    \/ Quarter("stop_c", "stop_d", TRUE, FALSE, FALSE)
    \/ Quarter("stop_d", "idle", TRUE, FALSE, FALSE)

DriveStop ==
    \/ Quarter("stop_a", "stop_b", FALSE, FALSE, FALSE)
    \/ Quarter("stop_b", "stop_c", TRUE, FALSE, FALSE)
    \/ Quarter("stop_c", "stop_d", TRUE, FALSE, FALSE)
    \/ Quarter("stop_d", "idle", TRUE, TRUE, FALSE)

\* Mutant: SDA is checked while the peripheral drives it.
DriveReadChecked ==
    \/ Quarter("rd_a", "rd_b", FALSE, TRUE, FALSE)
    \/ Quarter("rd_b", "rd_c", TRUE, TRUE, FALSE)
    \/ Quarter("rd_c", "rd_d", TRUE, TRUE, TRUE)
    \/ Quarter("rd_d", "idle", FALSE, TRUE, FALSE)

DriveRead ==
    \/ Quarter("rd_a", "rd_b", FALSE, TRUE, FALSE)
    \/ Quarter("rd_b", "rd_c", TRUE, TRUE, FALSE)
    \/ Quarter("rd_c", "rd_d", TRUE, TRUE, FALSE)
    \/ Quarter("rd_d", "idle", FALSE, TRUE, FALSE)

DriveWrite ==
    \/ Quarter("wr_a", "wr_b", FALSE, din, FALSE)
    \/ Quarter("wr_b", "wr_c", TRUE, din, FALSE)
    \/ Quarter("wr_c", "wr_d", TRUE, din, TRUE)
    \/ Quarter("wr_d", "idle", FALSE, din, FALSE)

Drive ==
    \/ Quarter("idle", FirstQuarter, scl_oen, sda_oen, FALSE)
    \/ DriveStart
    \/ DriveStop
    \/ DriveRead
    \/ DriveWrite

LastQuarters == {"start_e", "stop_d", "rd_d", "wr_d"}

\* Mutant: cmd_ack lasts the whole last quarter.
StateMachineLevel ==
    /\ cmd_ack' = (~rst /\ ~al /\ c_state \in LastQuarters)
    /\ \/ (rst \/ al) /\ Abort
       \/ ~(rst \/ al) /\ clk_en /\ Drive
       \/ ~(rst \/ al) /\ ~clk_en /\ UNCHANGED <<c_state, scl_oen, sda_oen, sda_chk>>

StateMachine ==
    /\ cmd_ack' = (~rst /\ ~al /\ clk_en /\ c_state \in LastQuarters)
    /\ \/ (rst \/ al) /\ Abort
       \/ ~(rst \/ al) /\ clk_en /\ Drive
       \/ ~(rst \/ al) /\ ~clk_en /\ UNCHANGED <<c_state, scl_oen, sda_oen, sda_chk>>

Tick ==
    /\ Divider
    /\ Capture /\ Filter /\ Edges
    /\ BusState /\ Arbitration /\ DataOut
    /\ StateMachine
=============================================================================
