----------------------------- MODULE BiosProofs ------------------------------
(***************************************************************************)
(* Proofs about Bios: what the LED says is true for every default level of *)
(* the DAC and every wrong answer, whatever an earlier boot left behind.   *)
(***************************************************************************)
EXTENDS Bios, TLAPS

\* The latch is up only where the extended test raised it, or where a hot
\* reload cut that test short.
LatchIsDown == latch => pc \in {"init", "dac_write", "latch_down"}

\* As long as nothing went wrong, no check fails: each finds what the step
\* before it wrote.
CleanSoFar ==
    ~faults =>
        /\ pc \in SelfTest \cup ExtTest => ~post_failed
        /\ pc = "latch_down" => reg[addr] = TestVal
        /\ pc = "dac_read" => out[addr] = TestVal
        /\ pc = "codec_read" => adc_ctrl = 1

\* The codec register is restored, or the test has failed.
RestoredSoFar ==
    pc \in {"ext_reset", "ext_report"} /\ ~post_failed => adc_ctrl = 0

\* While the LED is blue the outputs are where the loop has set them, and
\* there are no samples of an earlier boot.
SetSoFar ==
    /\ pc \notin Loop => osc_low = NoSample /\ osc_high = NoSample
    /\ pc \in Loop /\ led = "blue" =>
          /\ pc = "low1" => out[0] = LowVal
          /\ pc = "low_sample" => out = Levels(LowVal)
          /\ pc = "high1" => out[0] = HighVal
          /\ pc = "high_sample" => out = Levels(HighVal)

Truthful == NoFalseAlarm /\ BlueMeansLevels /\ BlueMeansRestored

IInv == TypeOK /\ LatchIsDown /\ CleanSoFar /\ RestoredSoFar /\ SetSoFar /\ Truthful

-----------------------------------------------------------------------------
\* The invariant holds at the beginning.
LEMMA InitInv == Init => IInv
BY DEF Init, IInv, TypeOK, LatchIsDown, CleanSoFar, RestoredSoFar, SetSoFar, Truthful,
    NoFalseAlarm, BlueMeansLevels, BlueMeansRestored, SelfTest, ExtTest, Loop,
    Levels, Channels, Values, NoSample

\* The bytes that the self test compares.
LEMMA Ids == LO(DacId) = DAC_I2C_ADDR /\ HI(CodecId) = CODEC_PARTID
BY DEF LO, HI, DacId, CodecId, DAC_I2C_ADDR, CODEC_PARTID

\* What DacStore does to a register and an output that are in use.
LEMMA DacStoreFacts ==
  ASSUME TypeOK, NEW channel \in Channels, NEW v \in Values, DacStore(channel, v)
  PROVE  /\ reg' \in [Channels -> Values] /\ out' \in [Channels -> Values]
         /\ adc_ctrl' = adc_ctrl
         /\ reg'[channel] = v
         /\ ~latch => out'[channel] = v /\ \A c \in Channels \ {channel} : out'[c] = out[c]
BY DEF DacStore, TypeOK

-----------------------------------------------------------------------------
(* A step, one part of the invariant after the other.                      *)

\* Every step keeps the types.
LEMMA TypeStep ==
  ASSUME TypeOK, [Next]_vars
  PROVE  TypeOK'
<1> USE DEF TypeOK, Goto, samples, verdicts, devices, SelfTest, ExtTest, Loop
<1>1. CASE Start
  BY <1>1 DEF Start
<1>2. CASE GeneralCallReset
  BY <1>2 DEF GeneralCallReset, Write, DacReset, Levels, Values
<1>3. CASE AskDac
  BY <1>3 DEF AskDac, Read, Check
<1>4. CASE AskCodec
  BY <1>4 DEF AskCodec, Read, Check
<1>5. CASE Report
  BY <1>5 DEF Report, Colour, Verdict, Channels
<1>6. CASE LatchUp
  BY <1>6 DEF LatchUp
<1>7. CASE TestWrite
  BY <1>7 DEF TestWrite, Write, DacStore, Check, Values
<1>8. CASE LatchDown
  BY <1>8 DEF LatchDown
<1>9. CASE TestRead
  BY <1>9 DEF TestRead, Read, Check, Channels
<1>10. CASE CodecWrite
  BY <1>10 DEF CodecWrite, Write, CodecStore, Check
<1>11. CASE CodecRead
  BY <1>11 DEF CodecRead, Read, Check
<1>12. CASE ExtReport
  BY <1>12 DEF ExtReport, Colour, Verdict
<1>13. CASE SetDac
  <2>1. ASSUME NEW channel \in Channels, NEW v \in Values, NEW from,
               NEW next \in Loop, NEW sample \in Loop,
               SetChannel(from, channel, v, next, sample)
        PROVE  TypeOK'
    <3>1. PICK ok \in BOOLEAN :
             /\ Write(DacStore(channel, v), ok)
             /\ pc' = IF ok THEN next ELSE sample
             /\ led' = IF ok THEN led ELSE "red"
      BY <2>1 DEF SetChannel
    <3>2. /\ reg' \in [Channels -> Values] /\ out' \in [Channels -> Values]
          /\ adc_ctrl' = adc_ctrl /\ faults' \in BOOLEAN
      BY <3>1, DacStoreFacts DEF Write
    <3>3. pc' \in Loop /\ led' \in {"off", "blue", "red"}
      BY <3>1
    <3>4. UNCHANGED <<addr, post_failed, latch, samples, verdicts>>
      BY <2>1 DEF SetChannel
    <3>5. QED
      BY <3>2, <3>3, <3>4
  <2>2. LowVal \in Values /\ HighVal \in Values /\ {0, 1} \subseteq Channels
    BY DEF Values, Channels
  <2>3. QED
    BY <1>13, <2>1, <2>2 DEF SetDac
<1>14. CASE Sample
  BY <1>14 DEF Sample
<1>15. CASE HotReload
  BY <1>15 DEF HotReload, Channels, NoSample, Levels
<1>16. CASE UNCHANGED vars
  BY <1>16 DEF vars, program
<1>17. QED
  BY <1>1, <1>2, <1>3, <1>4, <1>5, <1>6, <1>7, <1>8,
     <1>9, <1>10, <1>11, <1>12, <1>13, <1>14, <1>15, <1>16 DEF Next

\* Every step keeps the latch where the program expects it.
LEMMA LatchStep ==
  ASSUME LatchIsDown, [Next]_vars
  PROVE  LatchIsDown'
<1> USE DEF LatchIsDown, Goto
<1>1. CASE Start
  BY <1>1 DEF Start
<1>2. CASE GeneralCallReset
  BY <1>2 DEF GeneralCallReset
<1>3. CASE AskDac
  BY <1>3 DEF AskDac
<1>4. CASE AskCodec
  BY <1>4 DEF AskCodec
<1>5. CASE Report
  BY <1>5 DEF Report
<1>6. CASE LatchUp
  BY <1>6 DEF LatchUp
<1>7. CASE TestWrite
  BY <1>7 DEF TestWrite
<1>8. CASE LatchDown
  BY <1>8 DEF LatchDown
<1>9. CASE TestRead
  BY <1>9 DEF TestRead
<1>10. CASE CodecWrite
  BY <1>10 DEF CodecWrite
<1>11. CASE CodecRead
  BY <1>11 DEF CodecRead
<1>12. CASE ExtReport
  BY <1>12 DEF ExtReport
<1>13. CASE SetDac
  BY <1>13 DEF SetDac, SetChannel
<1>14. CASE Sample
  BY <1>14 DEF Sample
<1>15. CASE HotReload
  BY <1>15 DEF HotReload
<1>16. CASE UNCHANGED vars
  BY <1>16 DEF vars, program
<1>17. QED
  BY <1>1, <1>2, <1>3, <1>4, <1>5, <1>6, <1>7, <1>8,
     <1>9, <1>10, <1>11, <1>12, <1>13, <1>14, <1>15, <1>16 DEF Next

\* A step without a fault keeps the checks good and the LED of the loop blue.
LEMMA CleanStep ==
  ASSUME TypeOK, LatchIsDown, CleanSoFar, NoFalseAlarm, [Next]_vars
  PROVE  CleanSoFar' /\ NoFalseAlarm'
<1> USE DEF TypeOK, LatchIsDown, CleanSoFar, NoFalseAlarm, Goto, Check, samples, verdicts, devices, SelfTest, ExtTest, Loop
<1>1. CASE Start
  BY <1>1 DEF Start
<1>2. CASE GeneralCallReset
  BY <1>2 DEF GeneralCallReset, Write
<1>3. CASE AskDac
  BY <1>3, Ids DEF AskDac, Read
<1>4. CASE AskCodec
  BY <1>4, Ids DEF AskCodec, Read
<1>5. CASE Report
  BY <1>5 DEF Report
<1>6. CASE LatchUp
  BY <1>6 DEF LatchUp
<1>7. CASE TestWrite
  BY <1>7, DacStoreFacts DEF TestWrite, Write, Values
<1>8. CASE LatchDown
  BY <1>8 DEF LatchDown
<1>9. CASE TestRead
  BY <1>9 DEF TestRead, Read
<1>10. CASE CodecWrite
  BY <1>10 DEF CodecWrite, Write, CodecStore
<1>11. CASE CodecRead
  BY <1>11 DEF CodecRead, Read
<1>12. CASE ExtReport
  BY <1>12 DEF ExtReport, Colour
<1>13. CASE SetDac
  BY <1>13 DEF SetDac, SetChannel, Write
<1>14. CASE Sample
  BY <1>14 DEF Sample
<1>15. CASE HotReload
  BY <1>15 DEF HotReload
<1>16. CASE UNCHANGED vars
  BY <1>16 DEF vars, program
<1>17. QED
  BY <1>1, <1>2, <1>3, <1>4, <1>5, <1>6, <1>7, <1>8,
     <1>9, <1>10, <1>11, <1>12, <1>13, <1>14, <1>15, <1>16 DEF Next

\* A step keeps the codec restored, or the LED red.
LEMMA RestoredStep ==
  ASSUME LatchIsDown, RestoredSoFar, BlueMeansRestored, [Next]_vars
  PROVE  RestoredSoFar' /\ BlueMeansRestored'
<1> USE DEF LatchIsDown, RestoredSoFar, BlueMeansRestored, Goto, Check, samples, verdicts, devices, SelfTest, ExtTest, Loop
<1>1. CASE Start
  BY <1>1 DEF Start
<1>2. CASE GeneralCallReset
  BY <1>2 DEF GeneralCallReset, Write, DacReset
<1>3. CASE AskDac
  BY <1>3 DEF AskDac
<1>4. CASE AskCodec
  BY <1>4 DEF AskCodec
<1>5. CASE Report
  BY <1>5 DEF Report
<1>6. CASE LatchUp
  BY <1>6 DEF LatchUp
<1>7. CASE TestWrite
  BY <1>7 DEF TestWrite
<1>8. CASE LatchDown
  BY <1>8 DEF LatchDown
<1>9. CASE TestRead
  BY <1>9 DEF TestRead
<1>10. CASE CodecWrite
  BY <1>10 DEF CodecWrite, Write, CodecStore
<1>11. CASE CodecRead
  BY <1>11 DEF CodecRead
<1>12. CASE ExtReport
  BY <1>12 DEF ExtReport, Colour
<1>13. CASE SetDac
  BY <1>13 DEF SetDac, SetChannel, Write, DacStore
<1>14. CASE Sample
  BY <1>14 DEF Sample
<1>15. CASE HotReload
  BY <1>15 DEF HotReload
<1>16. CASE UNCHANGED vars
  BY <1>16 DEF vars, program
<1>17. QED
  BY <1>1, <1>2, <1>3, <1>4, <1>5, <1>6, <1>7, <1>8,
     <1>9, <1>10, <1>11, <1>12, <1>13, <1>14, <1>15, <1>16 DEF Next

\* A step of the loop moves both channels before it samples, or turns the LED red.
LEMMA SetStep ==
  ASSUME TypeOK, LatchIsDown, SetSoFar, BlueMeansLevels, [Next]_vars
  PROVE  SetSoFar' /\ BlueMeansLevels'
<1> USE DEF TypeOK, LatchIsDown, SetSoFar, BlueMeansLevels, Goto, samples, verdicts, devices, SelfTest, ExtTest, Loop
<1>1. CASE Start
  BY <1>1 DEF Start
<1>2. CASE GeneralCallReset
  BY <1>2 DEF GeneralCallReset
<1>3. CASE AskDac
  BY <1>3 DEF AskDac
<1>4. CASE AskCodec
  BY <1>4 DEF AskCodec
<1>5. CASE Report
  BY <1>5 DEF Report
<1>6. CASE LatchUp
  BY <1>6 DEF LatchUp
<1>7. CASE TestWrite
  BY <1>7 DEF TestWrite
<1>8. CASE LatchDown
  BY <1>8 DEF LatchDown
<1>9. CASE TestRead
  BY <1>9 DEF TestRead
<1>10. CASE CodecWrite
  BY <1>10 DEF CodecWrite
<1>11. CASE CodecRead
  BY <1>11 DEF CodecRead
<1>12. CASE ExtReport
  BY <1>12 DEF ExtReport
<1>13. CASE SetDac
  BY <1>13, DacStoreFacts DEF SetDac, SetChannel, Write, Values, Levels, Channels
<1>14. CASE Sample
  BY <1>14 DEF Sample
<1>15. CASE HotReload
  BY <1>15 DEF HotReload
<1>16. CASE UNCHANGED vars
  BY <1>16 DEF vars, program
<1>17. QED
  BY <1>1, <1>2, <1>3, <1>4, <1>5, <1>6, <1>7, <1>8,
     <1>9, <1>10, <1>11, <1>12, <1>13, <1>14, <1>15, <1>16 DEF Next

\* Every step keeps the invariant.
LEMMA StepInv == IInv /\ [Next]_vars => IInv'
BY TypeStep, LatchStep, CleanStep, RestoredStep, SetStep DEF IInv, Truthful

-----------------------------------------------------------------------------
(* The theorems.                                                           *)

\* So it holds in every reachable state.
LEMMA Invariance == Spec => []IInv
<1>1. IInv /\ [Next]_vars => IInv'
  BY StepInv
<1>2. QED
  BY InitInv, <1>1, PTL DEF Spec

\* The variables of the program and the devices keep their types.
THEOREM BiosTypeCorrect == Spec => []TypeOK
<1>1. IInv => TypeOK
  BY DEF IInv, Truthful
<1>2. QED
  BY Invariance, <1>1, PTL

\* If no transaction of a boot went wrong, the LED is blue in the loop, whatever
\* an earlier boot that was cut short left behind (custom-bios/main.c:107, :154).
THEOREM LedRaisesNoFalseAlarm == Spec => []NoFalseAlarm
<1>1. IInv => NoFalseAlarm
  BY DEF IInv, Truthful
<1>2. QED
  BY Invariance, <1>1, PTL

\* While the LED is blue in the loop, all samples were taken with both channels of
\* the DAC where the loop meant to set them (custom-bios/main.c:57).
THEOREM BlueSampledAtLevels == Spec => []BlueMeansLevels
<1>1. IInv => BlueMeansLevels
  BY DEF IInv, Truthful
<1>2. QED
  BY Invariance, <1>1, PTL

\* While the LED is blue in the loop, the codec register of the extended test has
\* its value back and the latch is down (custom-bios/main.c:148).
THEOREM BlueLeavesDevicesRestored == Spec => []BlueMeansRestored
<1>1. IInv => BlueMeansRestored
  BY DEF IInv, Truthful
<1>2. QED
  BY Invariance, <1>1, PTL
=============================================================================
