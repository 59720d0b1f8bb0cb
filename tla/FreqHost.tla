------------------------------ MODULE FreqHost -------------------------------
(***************************************************************************)
(* A frequency counter with its two users: the BIOS, which resets it and   *)
(* reads it for ever (dac_test_loop in custom-bios/main.c), and the script *)
(* tools/read_freq.py on the host, which resets it, pauses it, reads both  *)
(* registers and starts it again, over the USB bridge to the same bus.     *)
(*                                                                         *)
(* The CSR accessor freq_cnt0_ctrl_reset_write of the BIOS writes one      *)
(* field of a register with two: it reads the register and writes it back. *)
(***************************************************************************)
EXTENDS FreqCounter

VARIABLES bios, old,             \* where the BIOS is, the ctrl value it read
          host                   \* where the script is

hostvars == <<vars, bios, old, host>>

HostInit ==
    /\ Init
    /\ bios = "read" /\ old = [reset |-> FALSE, disable |-> FALSE]
    /\ host = "reset"

\* freq_cnt0_ctrl_reset_write(1), in two bus accesses
BiosReadCtrl ==
    /\ bios = "read" /\ bios' = "write"
    /\ old' = ctrl
    /\ UNCHANGED <<vars, host>>

BiosWriteCtrl ==
    /\ bios = "write" /\ bios' = "sample"
    /\ WriteCtrl([old EXCEPT !.reset = TRUE])
    /\ UNCHANGED <<old, host>>

\* osc0_cycles_low = freq_cnt0_cycles_read(), after the DAC is set
BiosSample ==
    /\ bios = "sample" /\ bios' = "read"
    /\ UNCHANGED <<vars, old, host>>

HostStep(from, to) == host = from /\ host' = to /\ UNCHANGED <<bios, old>>

HostReset ==
    /\ HostStep("reset", "pause")
    /\ WriteCtrl([reset |-> TRUE, disable |-> FALSE])

HostPause ==
    /\ HostStep("pause", "elapse")
    /\ WriteCtrl([reset |-> FALSE, disable |-> TRUE])

HostReadElapse == HostStep("elapse", "cycles") /\ UNCHANGED vars

HostReadCycles == HostStep("cycles", "restart") /\ UNCHANGED vars

HostRestart ==
    /\ HostStep("restart", "reset")
    /\ WriteCtrl([reset |-> TRUE, disable |-> FALSE])

HostNext ==
    \/ Tick /\ UNCHANGED <<bios, old, host>>
    \/ BiosReadCtrl \/ BiosWriteCtrl \/ BiosSample
    \/ HostReset \/ HostPause \/ HostReadElapse \/ HostReadCycles \/ HostRestart

HostSpec == HostInit /\ [][HostNext]_hostvars

-----------------------------------------------------------------------------
(* The comment of tools/read_freq.py, before the script reads elapse and   *)
(* cycles: "pause frequency counters".                                     *)

\* From the script's pause to its restart the counter does not count.
PauseHolds == host \in {"elapse", "cycles", "restart"} => ctrl.disable
=============================================================================
