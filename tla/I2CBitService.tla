---------------------------- MODULE I2CBitService ----------------------------
(***************************************************************************)
(* What the bit controller (i2c_controller_bit_ctrl.v) promises to the     *)
(* byte controller, with no wires: it takes one bit command at a time,     *)
(* carries it out after some number of clocks, and says so with one clock  *)
(* of cmd_ack.  It takes no command in the clock of cmd_ack, when the byte *)
(* controller has not yet replaced the one just served.  The data bit on   *)
(* din is looked at only when the command has been held for Setup clocks,  *)
(* and until the command ends.  Arbitration may be lost while a command is *)
(* served; the loss aborts it.                                             *)
(***************************************************************************)
EXTENDS Naturals

CONSTANT Setup   \* a natural number

VARIABLES rst, cmd, din                        \* inputs
VARIABLES serving, age, cmd_ack, dout, al      \* state and outputs

outputs == <<serving, age, cmd_ack, dout, al>>

Commands == {"NOP", "START", "STOP", "READ", "WRITE"}

TypeOK ==
    /\ serving \in Commands
    /\ age \in 0..Setup
    /\ cmd_ack \in BOOLEAN
    /\ dout \in BOOLEAN
    /\ al \in BOOLEAN

Init ==
    /\ serving = "NOP"
    /\ age = 0
    /\ cmd_ack = FALSE
    /\ dout \in BOOLEAN
    /\ al = FALSE

Free == serving = "NOP"

\* rst or al: the command under way is dropped.  The arbitration check still
\* sees the state it aborts, so al may last a second clock.
Abort ==
    /\ rst \/ al
    /\ serving' = "NOP"
    /\ age' = 0
    /\ cmd_ack' = FALSE
    /\ al' \in BOOLEAN
    /\ al' => ~rst /\ ~Free
    /\ dout' \in BOOLEAN

Accept ==
    /\ ~rst /\ ~al
    /\ Free /\ ~cmd_ack
    /\ cmd # "NOP"
    /\ serving' = cmd
    /\ age' = 0
    /\ cmd_ack' = FALSE
    /\ al' = FALSE
    /\ dout' \in BOOLEAN

\* Nothing to do yet, or nothing to do at all.  The bit just received stays
\* on dout in the clock of cmd_ack, so that it can be shifted in.
Rest ==
    /\ ~rst /\ ~al
    /\ Free
    /\ cmd_ack' = FALSE
    /\ al' = FALSE
    /\ UNCHANGED <<serving, age>>
    /\ dout' \in BOOLEAN
    /\ cmd_ack => dout' = dout

\* The command is being carried out; it may lose arbitration.
Work ==
    /\ ~rst /\ ~al
    /\ ~Free
    /\ cmd_ack' = FALSE
    /\ serving' = serving
    /\ age' \in {age, age + 1} \cap 0..Setup
    /\ dout' \in BOOLEAN
    /\ al' \in BOOLEAN

\* A written bit is read back from the wire: nobody else pulled it down, or
\* arbitration is lost, in this very clock at the latest.
Finish ==
    /\ ~rst /\ ~al
    /\ ~Free
    /\ age = Setup
    /\ serving' = "NOP"
    /\ age' = 0
    /\ cmd_ack' = TRUE
    /\ al' \in BOOLEAN
    /\ dout' \in BOOLEAN
    /\ serving = "WRITE" /\ ~al' => dout' = din

Next == Abort \/ Accept \/ Rest \/ Work \/ Finish

Spec == Init /\ [][Next]_outputs
=============================================================================
