------------------------------- MODULE RTLI2C --------------------------------
(***************************************************************************)
(* The CSR wrapper of the I2C core (rtl/i2c/core.py) around the byte       *)
(* controller.  The bit controller is left open: a module that EXTENDS     *)
(* this one conjoins the step of a bit controller, abstract or detailed,   *)
(* that drives core_ack, core_rxd and i2c_al.                              *)
(*                                                                         *)
(* A register write by a bus master is a step of its own between two       *)
(* clocks; the value is seen by the next Tick.  A write at the clock edge  *)
(* at which the core clears the command register wins over the clear, as   *)
(* it does in the CSRStorage of LiteX: the write comes after that Tick.    *)
(***************************************************************************)
EXTENDS Naturals

CONSTANTS ResetPrescale,   \* value of the prescale register after power-on
          DriverPrescale   \* value the driver programs
ASSUME PrescaleAssumption ==
    /\ ResetPrescale \in Nat /\ ResetPrescale < 65536
    /\ DriverPrescale \in Nat /\ DriverPrescale < 65536

VARIABLES prescale, control, txr, command, core_reset,   \* CSR storage
          tip, intflag, arb_lost                         \* status flags
VARIABLES byte_state, core_cmd, core_txd, rxr, dcnt, shift, ld, done, rxack
VARIABLES core_ack, core_rxd, i2c_al                     \* bit controller outputs

csr == <<prescale, control, txr, command, core_reset, tip, intflag, arb_lost>>
byteregs == <<byte_state, core_cmd, core_txd, rxr, dcnt, shift, ld, done, rxack>>
bitouts == <<core_ack, core_rxd, i2c_al>>

Byte == INSTANCE I2CByteCtrl WITH
    rst <- core_reset,
    start <- command.STA,
    stop <- command.STO /\ ~done,
    read <- command.RD /\ ~done,
    write <- command.WR /\ ~done,
    ack_in <- command.ACK,
    din <- txr,
    c_state <- byte_state,
    sr <- rxr,
    cmd_ack <- done,
    ack_out <- rxack

Command == [STA : BOOLEAN, STO : BOOLEAN, RD : BOOLEAN, WR : BOOLEAN,
            ACK : BOOLEAN, IACK : BOOLEAN]

NoCommand == [STA |-> FALSE, STO |-> FALSE, RD |-> FALSE, WR |-> FALSE,
              ACK |-> FALSE, IACK |-> FALSE]

CsrTypeOK ==
    /\ prescale \in {ResetPrescale, DriverPrescale}
    /\ control \in [EN : BOOLEAN, IEN : BOOLEAN]
    /\ txr \in 0..255
    /\ command \in Command
    /\ core_reset \in BOOLEAN
    /\ tip \in BOOLEAN
    /\ intflag \in BOOLEAN
    /\ arb_lost \in BOOLEAN

CsrInit ==
    /\ prescale = ResetPrescale
    /\ control = [EN |-> FALSE, IEN |-> FALSE]
    /\ txr = 0
    /\ command = NoCommand
    /\ core_reset = FALSE
    /\ tip = FALSE
    /\ intflag = FALSE
    /\ arb_lost = FALSE

-----------------------------------------------------------------------------
(* Register writes.                                                        *)

WriteCoreReset ==
    /\ core_reset' = TRUE
    /\ UNCHANGED <<prescale, control, txr, command, tip, intflag, arb_lost>>

WritePrescale(p) ==
    /\ prescale' = p
    /\ UNCHANGED <<control, txr, command, core_reset, tip, intflag, arb_lost>>

WriteControl(c) ==
    /\ control' = c
    /\ UNCHANGED <<prescale, txr, command, core_reset, tip, intflag, arb_lost>>

WriteTxr(byte) ==
    /\ txr' = byte
    /\ UNCHANGED <<prescale, control, command, core_reset, tip, intflag, arb_lost>>

WriteCommand(c) ==
    /\ command' = c
    /\ UNCHANGED <<prescale, control, txr, core_reset, tip, intflag, arb_lost>>

-----------------------------------------------------------------------------
(* One clock of the wrapper and of the byte controller.                    *)

\* The core clears the whole command register when it is done with it; IACK
\* and core_reset are pulses that last one clock.
CommandAfter ==
    IF done \/ i2c_al THEN NoCommand ELSE [command EXCEPT !.IACK = FALSE]

\* Mutant: a START does not clear ArbLost.
CsrTickSticky ==
    /\ command' = CommandAfter
    /\ core_reset' = FALSE
    /\ tip' = (command.RD \/ command.WR)
    /\ intflag' = ((done \/ i2c_al \/ intflag) /\ ~command.IACK)
    /\ arb_lost' = (i2c_al \/ arb_lost)
    /\ UNCHANGED <<prescale, control, txr>>

CsrTick ==
    /\ command' = CommandAfter
    /\ core_reset' = FALSE
    /\ tip' = (command.RD \/ command.WR)
    /\ intflag' = ((done \/ i2c_al \/ intflag) /\ ~command.IACK)
    /\ arb_lost' = (i2c_al \/ (arb_lost /\ ~command.STA))
    /\ UNCHANGED <<prescale, control, txr>>

CoreTick == CsrTick /\ Byte!Tick
=============================================================================
