-------------------------- MODULE FreqCounterProofs --------------------------
(***************************************************************************)
(* Proofs about FreqCounter for every width of the counters: the types,    *)
(* the bound on the reported frequency, and the error of the count.        *)
(***************************************************************************)
EXTENDS FreqCounter, TLAPS

\* NyquistBound is not inductive: it does not say that the high level that
\* the last counted cycle began with must end before the next one is counted.
\* Half a cycle is still owed while sig_prev is high.
HalfCycle == 2 * cycles <= elapse + (IF sig_prev THEN 1 ELSE 0)

\* A clock keeps the types of the counter's own registers.
LEMMA CounterTypes ==
    ASSUME TypeOK, Counter
    PROVE  /\ sig_prev' \in BOOLEAN
           /\ elapse' \in 0..(Modulus - 1)
           /\ cycles' \in 0..(Modulus - 1)
<1> USE ModulusAssumption
<1>1. sig_prev' \in BOOLEAN
  BY DEF TypeOK, Counter, Count, counter
<1>2. elapse' \in 0..(Modulus - 1)
  BY DEF TypeOK, Counter, Count, counter, elapse_next, Increment
<1>3. cycles' \in 0..(Modulus - 1)
  BY DEF TypeOK, Counter, Count, counter, cycles_next, Increment
<1> QED BY <1>1, <1>2, <1>3

\* Type correctness of the frequency counter, whatever is written to ctrl.
THEOREM FreqTypeCorrect == Spec => []TypeOK
<1>1. Init => TypeOK
  <2> SUFFICES ASSUME Init PROVE TypeOK
    OBVIOUS
  <2>1. /\ elapse \in 0..(Modulus - 1) /\ cycles \in 0..(Modulus - 1)
        /\ rises \in Nat /\ pauses \in Nat
    BY ModulusAssumption DEF Init
  <2>2. /\ ctrl \in Ctrl /\ reset_pulse \in BOOLEAN
        /\ meta \in BOOLEAN /\ sig \in BOOLEAN /\ sig_prev \in BOOLEAN
        /\ was \in BOOLEAN /\ halted \in BOOLEAN
    BY Zenon DEF Init, Ctrl
  <2> QED BY <2>1, <2>2 DEF TypeOK
<1>2. TypeOK /\ [Next]_vars => TypeOK'
  <2> SUFFICES ASSUME TypeOK, [Next]_vars PROVE TypeOK'
    OBVIOUS
  <2>1. CASE Tick
    <3>1. /\ sig_prev' \in BOOLEAN
          /\ elapse' \in 0..(Modulus - 1)
          /\ cycles' \in 0..(Modulus - 1)
      BY <2>1, CounterTypes DEF Tick
    <3>2. /\ ctrl' \in Ctrl /\ reset_pulse' \in BOOLEAN
          /\ meta' \in BOOLEAN /\ sig' \in BOOLEAN
      BY <2>1, Zenon DEF Tick, TypeOK
    <3>3. was' \in BOOLEAN /\ halted' \in BOOLEAN
      BY <2>1 DEF Tick, HistoryTick, TypeOK, disable, Ctrl
    <3>4. rises' \in Nat /\ pauses' \in Nat
      BY <2>1 DEF Tick, HistoryTick, TypeOK
    <3> QED BY <3>1, <3>2, <3>3, <3>4 DEF TypeOK
  <2>2. CASE Write
    <3>1. PICK c \in Ctrl : WriteCtrl(c)
      BY <2>2 DEF Write
    <3>2. ctrl' \in Ctrl /\ reset_pulse' \in BOOLEAN
      BY <3>1 DEF WriteCtrl, Ctrl
    <3> QED BY <3>1, <3>2 DEF WriteCtrl, TypeOK, counter, history
  <2>3. CASE UNCHANGED vars
    BY <2>3 DEF vars, TypeOK, counter, history
  <2> QED BY <2>1, <2>2, <2>3 DEF Next
<1> QED BY <1>1, <1>2, PTL DEF Spec

\* One clock of the counter keeps HalfCycle.
LEMMA CounterHalfCycle ==
    ASSUME TypeOK, HalfCycle, Counter
    PROVE  HalfCycle'
<1> USE ModulusAssumption DEF TypeOK, HalfCycle
<1>1. CASE disable /\ UNCHANGED counter
  BY <1>1 DEF counter
<1>2. CASE ~disable /\ reset_pulse /\ elapse' = 0 /\ cycles' = 0 /\ UNCHANGED sig_prev
  BY <1>2
<1>3. CASE Count /\ elapse_next = 0
  BY <1>3 DEF Count
<1>4. CASE Count /\ elapse_next # 0
  <2>1. elapse' = elapse + 1
    BY <1>4 DEF Count, elapse_next, Increment
  <2>2. CASE sig /\ ~sig_prev
    <3>1. 2 * cycles <= elapse
      BY <2>2
    <3>2. cycles # Modulus - 1
      BY <3>1
    <3>3. cycles' = cycles + 1
      BY <1>4, <2>2, <3>2 DEF Count, cycles_next, Increment, sig_rising_edge
    <3>4. sig_prev' = TRUE
      BY <1>4, <2>2 DEF Count
    <3> QED BY <2>1, <3>1, <3>3, <3>4
  <2>3. CASE ~(sig /\ ~sig_prev)
    <3>1. cycles' = cycles
      BY <1>4, <2>3 DEF Count, sig_rising_edge
    <3>2. 2 * cycles <= elapse + 1
      OBVIOUS
    <3> QED BY <2>1, <3>1, <3>2
  <2> QED BY <2>2, <2>3
<1> QED BY <1>1, <1>2, <1>3, <1>4 DEF Counter

\* HalfCycle holds in every reachable state.
LEMMA HalfCycleInvariance == Spec => []HalfCycle
<1>1. Init => HalfCycle
  BY DEF Init, HalfCycle
<1>2. TypeOK /\ HalfCycle /\ [Next]_vars => HalfCycle'
  <2> SUFFICES ASSUME TypeOK, HalfCycle, [Next]_vars PROVE HalfCycle'
    OBVIOUS
  <2>1. CASE Tick
    BY <2>1, CounterHalfCycle DEF Tick
  <2>2. CASE Write
    BY <2>2 DEF Write, WriteCtrl, HalfCycle, counter
  <2>3. CASE UNCHANGED vars
    BY <2>3 DEF vars, HalfCycle, counter
  <2> QED BY <2>1, <2>2, <2>3 DEF Next
<1> QED BY <1>1, <1>2, FreqTypeCorrect, PTL DEF Spec

\* NyquistBound (FreqCounter) for counters of any width: no input and no
\* sequence of writes to ctrl makes the counter report more than half its
\* clock.
THEOREM FreqNyquist == Spec => []NyquistBound
<1>1. TypeOK /\ HalfCycle => NyquistBound
  BY DEF TypeOK, HalfCycle, NyquistBound
<1> QED BY <1>1, FreqTypeCorrect, HalfCycleInvariance, PTL

-----------------------------------------------------------------------------
\* CountError is not inductive: it does not say when an edge can be counted
\* twice or missed.  While counting goes on sig_prev is the level one clock
\* ago, except right after a reset, when nothing has been counted yet; only
\* a pause leaves it older than that.
EdgeSeen ==
    /\ CountError
    /\ ~halted => was = sig_prev \/ (cycles = rises /\ pauses = 0)

\* One clock of the counter and of its history keeps EdgeSeen.
LEMMA CounterEdgeSeen ==
    ASSUME TypeOK, HalfCycle, EdgeSeen, Counter, HistoryTick
    PROVE  EdgeSeen'
<1>1. /\ cycles \in Nat /\ rises \in Nat /\ pauses \in Nat
      /\ cycles - rises <= 1 + pauses /\ rises - cycles <= 1 + pauses
      /\ was' = sig /\ halted' = disable
      /\ sig \in BOOLEAN /\ was \in BOOLEAN /\ sig_prev \in BOOLEAN
  BY ModulusAssumption DEF TypeOK, EdgeSeen, CountError, HistoryTick
<1>2. CASE disable
  <2>1. UNCHANGED <<cycles, rises, pauses>> /\ halted'
    BY <1>1, <1>2 DEF Counter, HistoryTick, counter
  <2>2. QED
    BY <1>1, <2>1 DEF EdgeSeen, CountError
<1>3. CASE ~disable /\ (reset_pulse \/ elapse_next = 0)
  <2>1. cycles' = 0 /\ rises' = 0 /\ pauses' = 0
    BY <1>3 DEF Counter, Count, HistoryTick
  <2>2. QED
    BY <2>1 DEF EdgeSeen, CountError
<1>4. CASE ~disable /\ ~reset_pulse /\ elapse_next # 0
  <2>1. Count
    BY <1>4 DEF Counter
  <2>2. sig_prev' = was'
    BY <1>1, <2>1 DEF Count
  <2>3. cycles' = IF sig /\ ~sig_prev THEN cycles + 1 ELSE cycles
    <3>1. sig /\ ~sig_prev => cycles # Modulus - 1
      BY ModulusAssumption DEF TypeOK, HalfCycle
    <3>2. QED
      BY <1>4, <2>1, <3>1 DEF Count, sig_rising_edge, cycles_next, Increment
  <2>4. /\ rises' = IF sig /\ ~was THEN rises + 1 ELSE rises
        /\ pauses' = IF halted THEN pauses + 1 ELSE pauses
    BY <1>4 DEF HistoryTick
  <2>5. CASE halted
    <3>1. cycles' - rises' <= 1 + pauses' /\ rises' - cycles' <= 1 + pauses'
      BY <1>1, <2>3, <2>4, <2>5
    <3>2. QED
      BY <2>2, <3>1 DEF EdgeSeen, CountError
  <2>6. CASE ~halted
    <3>1. was = sig_prev \/ (cycles = rises /\ pauses = 0)
      BY <2>6 DEF EdgeSeen
    <3>2. cycles' - rises' <= 1 + pauses' /\ rises' - cycles' <= 1 + pauses'
      BY <1>1, <2>3, <2>4, <2>6, <3>1
    <3>3. QED
      BY <2>2, <3>2 DEF EdgeSeen, CountError
  <2>7. QED
    BY <2>5, <2>6
<1>5. QED
  BY <1>2, <1>3, <1>4

\* CountError (FreqCounter) for counters of any width: the count is off by one
\* edge at most, and by one more for each pause, whatever is written to ctrl
\* (rtl/freq_counter.py:44) and however often elapse wraps.
THEOREM FreqCountError == Spec => []CountError
<1>1. Init => EdgeSeen
  BY DEF Init, EdgeSeen, CountError
<1>2. TypeOK /\ HalfCycle /\ EdgeSeen /\ [Next]_vars => EdgeSeen'
  <2> SUFFICES ASSUME TypeOK, HalfCycle, EdgeSeen, [Next]_vars PROVE EdgeSeen'
    OBVIOUS
  <2>1. CASE Tick
    BY <2>1, CounterEdgeSeen DEF Tick
  <2>2. CASE Write
    BY <2>2 DEF Write, WriteCtrl, EdgeSeen, CountError, counter, history
  <2>3. CASE UNCHANGED vars
    BY <2>3 DEF vars, EdgeSeen, CountError, counter, history
  <2> QED BY <2>1, <2>2, <2>3 DEF Next
<1>3. EdgeSeen => CountError
  BY DEF EdgeSeen
<1> QED BY <1>1, <1>2, <1>3, FreqTypeCorrect, HalfCycleInvariance, PTL DEF Spec
=============================================================================
