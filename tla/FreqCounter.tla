----------------------------- MODULE FreqCounter -----------------------------
(***************************************************************************)
(* One frequency counter of the theremin (rtl/freq_counter.py): in each    *)
(* clock elapse goes up, and cycles goes up at a rising edge of the        *)
(* oscillator.  Both are Modulus = 2^32 wide in the firmware; when elapse  *)
(* wraps, cycles starts anew.                                              *)
(*                                                                         *)
(* ctrl is the storage of the ctrl register, which any bus master may      *)
(* write; reset_pulse is its reset field, a pulse of one clock.            *)
(*                                                                         *)
(* History: was is sig one clock ago, rises the rising edges of sig since  *)
(* the count began, pauses the times counting was resumed in that period.  *)
(***************************************************************************)
EXTENDS Integers

CONSTANT Modulus
ASSUME ModulusAssumption == Modulus \in Nat /\ Modulus > 1

VARIABLES ctrl, reset_pulse,
          meta, sig,                  \* the two stages of the synchronizer
          sig_prev, elapse, cycles,
          was, rises, pauses, halted  \* history

counter == <<sig_prev, elapse, cycles>>
history == <<was, rises, pauses, halted>>
vars == <<ctrl, reset_pulse, meta, sig, counter, history>>

Ctrl == [reset : BOOLEAN, disable : BOOLEAN]

\* The types of all the variables.
TypeOK ==
    /\ ctrl \in Ctrl
    /\ reset_pulse \in BOOLEAN
    /\ meta \in BOOLEAN /\ sig \in BOOLEAN /\ sig_prev \in BOOLEAN
    /\ elapse \in 0..(Modulus - 1)
    /\ cycles \in 0..(Modulus - 1)
    /\ was \in BOOLEAN /\ halted \in BOOLEAN
    /\ rises \in Nat /\ pauses \in Nat

Init ==
    /\ ctrl = [reset |-> FALSE, disable |-> FALSE]
    /\ reset_pulse = FALSE
    /\ meta = FALSE /\ sig = FALSE /\ sig_prev = FALSE
    /\ elapse = 0 /\ cycles = 0
    /\ was = FALSE /\ halted = FALSE
    /\ rises = 0 /\ pauses = 0

-----------------------------------------------------------------------------
disable == ctrl.disable

WriteCtrl(c) ==
    /\ ctrl' = c
    /\ reset_pulse' = c.reset
    /\ UNCHANGED <<meta, sig, counter, history>>

\* Mutant: the registers have no width.
IncrementWide(n) == n + 1

Increment(n) == IF n = Modulus - 1 THEN 0 ELSE n + 1

elapse_next == Increment(elapse)
cycles_next == Increment(cycles)

\* Mutant: both edges.
sig_any_edge == sig # sig_prev

sig_rising_edge == sig /\ ~sig_prev

\* Mutant: when elapse wraps, cycles goes on.
CountOn ==
    /\ sig_prev' = sig
    /\ elapse' = elapse_next
    /\ cycles' = IF sig_rising_edge THEN cycles_next ELSE cycles

Count ==
    /\ sig_prev' = sig
    /\ elapse' = elapse_next
    /\ cycles' = IF elapse_next = 0 THEN 0
                 ELSE IF sig_rising_edge THEN cycles_next
                 ELSE cycles

Counter ==
    \/ disable /\ UNCHANGED counter
    \/ ~disable /\ reset_pulse /\ elapse' = 0 /\ cycles' = 0 /\ UNCHANGED sig_prev
    \/ ~disable /\ ~reset_pulse /\ Count

HistoryTick ==
    /\ was' = sig
    /\ halted' = disable
    /\ IF ~disable /\ (reset_pulse \/ elapse_next = 0)
       THEN rises' = 0 /\ pauses' = 0
       ELSE /\ rises' = IF ~disable /\ sig /\ ~was THEN rises + 1 ELSE rises
            /\ pauses' = IF ~disable /\ halted THEN pauses + 1 ELSE pauses

\* One clock; the oscillator may be at any level.
Tick ==
    /\ meta' \in BOOLEAN
    /\ sig' = meta
    /\ Counter
    /\ HistoryTick
    /\ reset_pulse' = FALSE
    /\ UNCHANGED ctrl

Write == \E c \in Ctrl : WriteCtrl(c)

Next == Tick \/ Write

Spec == Init /\ [][Next]_vars

-----------------------------------------------------------------------------
(* Properties.                                                             *)

\* No pattern of the input, of pauses and of resets makes the counter report
\* a frequency above half its clock: a cycle takes two clocks at least.  So
\* cycles never overflows.
NyquistBound == 2 * cycles <= elapse + 1

\* The count is off by one edge at most, and by one more for each pause: at
\* a reset sig_prev keeps its value, so an edge in the clock of the reset is
\* counted afterwards or one right after it is missed.
CountError ==
    /\ cycles - rises <= 1 + pauses
    /\ rises - cycles <= 1 + pauses
=============================================================================
