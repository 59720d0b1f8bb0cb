------------------------------- MODULE I2CReset ------------------------------
(***************************************************************************)
(* The same CSRs are on the bus of the USB debug bridge, and the scripts   *)
(* of tools/ begin by writing core_reset (tools/i2c_probe.sh:9,            *)
(* tools/i2c_test_dac.sh, tools/i2c_test_codec.sh) whatever the CPU is     *)
(* doing.  This is I2CTransfer with one such write, at any time.           *)
(***************************************************************************)
EXTENDS I2CTransfer

VARIABLE reset   \* "none", "written", "over" until the next command, "done"

HostReset ==
    /\ reset = "none"
    /\ elapsed >= 1              \* the bus takes one access in a clock
    /\ reset' = "written"
    /\ WriteCoreReset
    /\ UNCHANGED <<hardware, driver, reply, left, history>>

\* The clock of the pulse ends the reset; a new command ends what it promises.
ResetInit == Init /\ reset = "none"

ResetNext ==
    \/ HostReset
    \/ Tick /\ reset' = IF reset = "written" THEN "over" ELSE reset
    \/ /\ reset # "written" /\ (Cpu \/ Caller)
       /\ reset' = IF reset = "over" /\ pc = "command" THEN "done" ELSE reset

ResetSpec == ResetInit /\ [][ResetNext]_<<vars, reset>>

\* core.py:56, of the field reset: "Write `1` for a synchronous reset of the
\* I2C core."  A core that was reset does nothing on the bus before it is
\* given a new command.
ResetQuiesces == reset = "over" => serving = "NOP"
=============================================================================
