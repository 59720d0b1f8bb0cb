----------------------------- MODULE I2CByteCtrl -----------------------------
(***************************************************************************)
(* The byte controller of the I2C core (i2c_controller_byte_ctrl.v): it    *)
(* turns one byte command (START?, 8 data bits, ACK bit, STOP?) into a     *)
(* sequence of bit commands for the bit controller.                        *)
(*                                                                         *)
(* The module is one synchronous block.  Its input ports are the variables *)
(* of the first declaration and are driven by whoever instantiates it; its *)
(* registers are those of the second, all updated at once by Tick, the     *)
(* rising edge of clk.  nReset is tied to 1 in this system.                *)
(***************************************************************************)
EXTENDS Naturals

VARIABLES rst, start, stop, read, write, ack_in, din,   \* from the CSR wrapper
          core_ack, core_rxd, i2c_al                    \* from the bit controller

VARIABLES c_state,   \* state machine: IDLE, START, READ, WRITE, ACK, STOP
          core_cmd,  \* bit command presented to the bit controller
          core_txd,  \* data bit presented to the bit controller
          sr,        \* 8-bit shift register, the rxr register of the wrapper
          dcnt,      \* 3-bit counter of data bits still to come
          shift, ld, \* one-clock strobes: shift sr, load sr and dcnt
          cmd_ack,   \* one-clock strobe: the byte command is complete
          ack_out    \* ACK bit of the last byte: TRUE is "no acknowledge"

registers == <<c_state, core_cmd, core_txd, sr, dcnt, shift, ld, cmd_ack, ack_out>>

ByteStates == {"IDLE", "START", "READ", "WRITE", "ACK", "STOP"}
BitCommands == {"NOP", "START", "STOP", "READ", "WRITE"}

TypeOK ==
    /\ c_state \in ByteStates
    /\ core_cmd \in BitCommands
    /\ sr \in 0..255
    /\ dcnt \in 0..7
    /\ core_txd \in BOOLEAN
    /\ shift \in BOOLEAN
    /\ ld \in BOOLEAN
    /\ cmd_ack \in BOOLEAN
    /\ ack_out \in BOOLEAN

Init ==
    /\ c_state = "IDLE"
    /\ core_cmd = "NOP"
    /\ core_txd = FALSE
    /\ sr = 0
    /\ dcnt = 0
    /\ shift = FALSE
    /\ ld = FALSE
    /\ cmd_ack = FALSE
    /\ ack_out = FALSE

-----------------------------------------------------------------------------
(* The shift register and the bit counter.                                 *)

Msb(byte) == byte >= 128

BitValue(b) == IF b THEN 1 ELSE 0

\* {sr[6:0], core_rxd}
ShiftIn(byte, b) == ((2 * byte) % 256) + BitValue(b)

ShiftRegister ==
    sr' = IF rst THEN 0
          ELSE IF ld THEN din
          ELSE IF shift THEN ShiftIn(sr, core_rxd)
          ELSE sr

\* Mutant: the counter is not cut to its 3 bits.
BitCounterWide ==
    dcnt' = IF rst THEN 0
            ELSE IF ld THEN 7
            ELSE IF shift THEN dcnt + 7
            ELSE dcnt

BitCounter ==
    dcnt' = IF rst THEN 0
            ELSE IF ld THEN 7
            ELSE IF shift THEN (dcnt + 7) % 8
            ELSE dcnt

\* Mutant: off by one.
cnt_done_early == dcnt = 1

cnt_done == dcnt = 0

-----------------------------------------------------------------------------
(* The state machine.                                                      *)

go == (read \/ write \/ stop) /\ ~cmd_ack

Goto(state, cmd) == c_state' = state /\ core_cmd' = cmd

Strobes(shifting, loading, acking) ==
    /\ shift' = shifting
    /\ ld' = loading
    /\ cmd_ack' = acking

Abort ==
    /\ rst \/ i2c_al
    /\ Goto("IDLE", "NOP")
    /\ Strobes(FALSE, FALSE, FALSE)
    /\ core_txd' = FALSE
    /\ ack_out' = FALSE

\* The first bit command of a byte command, by priority.
FirstCommand ==
    IF start THEN "START" ELSE IF read THEN "READ" ELSE IF write THEN "WRITE" ELSE "STOP"

Idle ==
    /\ c_state = "IDLE"
    /\ \/ /\ go
          /\ Goto(FirstCommand, FirstCommand)
          /\ Strobes(FALSE, TRUE, FALSE)
       \/ /\ ~go
          /\ UNCHANGED <<c_state, core_cmd>>
          /\ Strobes(FALSE, FALSE, FALSE)
    /\ core_txd' = Msb(sr)
    /\ UNCHANGED ack_out

\* Mutant: the shift strobe lasts as long as the bit command.
PendingShifting ==
    /\ c_state # "IDLE"
    /\ ~core_ack
    /\ UNCHANGED <<c_state, core_cmd, ack_out>>
    /\ Strobes(shift, FALSE, FALSE)
    /\ core_txd' = IF c_state = "ACK" THEN ack_in ELSE Msb(sr)

\* A bit command is under way: nothing moves but the data bit on offer.
Pending ==
    /\ c_state # "IDLE"
    /\ ~core_ack
    /\ UNCHANGED <<c_state, core_cmd, ack_out>>
    /\ Strobes(FALSE, FALSE, FALSE)
    /\ core_txd' = IF c_state = "ACK" THEN ack_in ELSE Msb(sr)

Started ==
    /\ c_state = "START"
    /\ core_ack
    /\ IF read THEN Goto("READ", "READ") ELSE Goto("WRITE", "WRITE")
    /\ Strobes(FALSE, TRUE, FALSE)
    /\ core_txd' = Msb(sr)
    /\ UNCHANGED ack_out

BitWritten ==
    /\ c_state = "WRITE"
    /\ core_ack
    /\ IF cnt_done THEN Goto("ACK", "READ") ELSE Goto("WRITE", "WRITE")
    /\ Strobes(~cnt_done, FALSE, FALSE)
    /\ core_txd' = Msb(sr)
    /\ UNCHANGED ack_out

BitRead ==
    /\ c_state = "READ"
    /\ core_ack
    /\ IF cnt_done THEN Goto("ACK", "WRITE") ELSE Goto("READ", "READ")
    /\ Strobes(TRUE, FALSE, FALSE)
    /\ core_txd' = ack_in
    /\ UNCHANGED ack_out

\* Mutant: the command is reported complete before its STOP.
AcknowledgedEarly ==
    /\ c_state = "ACK"
    /\ core_ack
    /\ IF stop THEN Goto("STOP", "STOP") ELSE Goto("IDLE", "NOP")
    /\ Strobes(FALSE, FALSE, TRUE)
    /\ core_txd' = TRUE
    /\ ack_out' = core_rxd

\* Mutant: the STOP is not passed on to the bit controller.
AcknowledgedSilent ==
    /\ c_state = "ACK"
    /\ core_ack
    /\ IF stop THEN Goto("STOP", "NOP") ELSE Goto("IDLE", "NOP")
    /\ Strobes(FALSE, FALSE, ~stop)
    /\ core_txd' = TRUE
    /\ ack_out' = core_rxd

Acknowledged ==
    /\ c_state = "ACK"
    /\ core_ack
    /\ IF stop THEN Goto("STOP", "STOP") ELSE Goto("IDLE", "NOP")
    /\ Strobes(FALSE, FALSE, ~stop)
    /\ core_txd' = TRUE
    /\ ack_out' = core_rxd

Stopped ==
    /\ c_state = "STOP"
    /\ core_ack
    /\ Goto("IDLE", "NOP")
    /\ Strobes(FALSE, FALSE, TRUE)
    /\ core_txd' = Msb(sr)
    /\ UNCHANGED ack_out

StateMachine ==
    \/ Abort
    \/ /\ ~(rst \/ i2c_al)
       /\ (Idle \/ Pending \/ Started \/ BitWritten \/ BitRead \/ Acknowledged \/ Stopped)

Tick == ShiftRegister /\ BitCounter /\ StateMachine
=============================================================================
