-------------------------------- MODULE Bios ---------------------------------
(***************************************************************************)
(* The main program of the BIOS (custom-bios/main.c) with the calls it     *)
(* makes in dac.c, codec.c and rgb.c, one I2C transaction per step: the    *)
(* power-on self test, the extended one, and the loop that moves the DAC   *)
(* and samples the oscillators.  That a transaction returns, and means     *)
(* what it returns, is shown in I2CTransfer and I2CBus; here it succeeds   *)
(* or fails.                                                               *)
(*                                                                         *)
(* The DAC and the codec are external: a DAC register that is written is   *)
(* put out, and read back, once the latch pin is low; a transaction that   *)
(* fails may or may not have had its effect; a device may give a wrong     *)
(* answer.  tools/hot_reload.sh resets the CPU alone, at any time: the     *)
(* BIOS starts anew and everything else stays as it was.                   *)
(***************************************************************************)
EXTENDS Integers

CONSTANTS DacDefault,   \* DAC output after its reset
          WrongWord     \* a word that no device should answer
ASSUME WordAssumption == DacDefault \in 0..255 /\ WrongWord \in 0..65535

VARIABLES pc,
          addr,               \* loop variable of extended_post
          post_failed,        \* local of the self test that runs
          led,                \* "off", "blue" or "red"
          latch,              \* the latch pin is high
          reg, out,           \* DAC: registers written, outputs
          adc_ctrl,           \* codec: register CHIP_ANA_ADC_CTRL
          osc_low, osc_high   \* DAC outputs when the cycles were last sampled
VARIABLES post_verdict, ext_verdict,  \* history: results of the tests of this boot
          faults                      \* history: some transaction went wrong

program == <<pc, addr, post_failed>>
devices == <<reg, out, adc_ctrl>>
samples == <<osc_low, osc_high>>
verdicts == <<post_verdict, ext_verdict>>
vars == <<program, led, latch, devices, samples, verdicts, faults>>

Errors == {-1, -2}            \* ENACK and EARB
DAC_I2C_ADDR == 96
CODEC_PARTID == 160
DacId == DAC_I2C_ADDR         \* what the devices answer when asked who they are
CodecId == 256 * CODEC_PARTID + 17
TestVal == 110
LowVal == 0
HighVal == 255

\* The bytes of an int, negative ones included, as & and >> have them.
LO(x) == x % 256
HI(x) == (x \div 256) % 256

Channels == {0, 1}
Levels(v) == [c \in Channels |-> v]
NoSample == Levels(-1)
Values == {DacDefault, TestVal, LowVal, HighVal}

SelfTest == {"reset1", "dac_id", "codec_id", "reset2", "report"}
ExtTest == {"latch_up", "dac_write", "latch_down", "dac_read", "codec_write",
            "codec_read", "codec_restore", "ext_reset", "ext_report"}
Loop == {"low0", "low1", "low_sample", "high0", "high1", "high_sample"}

\* The types of all the variables.
TypeOK ==
    /\ pc \in {"init"} \cup SelfTest \cup ExtTest \cup Loop
    /\ addr \in Channels
    /\ post_failed \in BOOLEAN /\ latch \in BOOLEAN /\ faults \in BOOLEAN
    /\ led \in {"off", "blue", "red"}
    /\ reg \in [Channels -> Values] /\ out \in [Channels -> Values]
    /\ adc_ctrl \in {0, 1}
    /\ {osc_low, osc_high} \subseteq [Channels -> Values \cup {-1}]
    /\ {post_verdict, ext_verdict} \subseteq {"none", "passed", "failed"}

Init ==
    /\ pc = "init" /\ addr = 0 /\ post_failed = FALSE
    /\ led = "off" /\ latch = FALSE
    /\ reg = Levels(DacDefault) /\ out = Levels(DacDefault)
    /\ adc_ctrl \in {0, 1}
    /\ osc_low = NoSample /\ osc_high = NoSample
    /\ post_verdict = "none" /\ ext_verdict = "none"
    /\ faults = FALSE

-----------------------------------------------------------------------------
(* One transaction.                                                        *)

\* A write that succeeds (ok) has its effect; one that fails may have had it.
Write(Effect, ok) ==
    /\ Effect \/ (~ok /\ UNCHANGED devices)
    /\ faults' = (faults \/ ~ok)

\* A read gives rx: the right word, a wrong one or an error.
Answers(word) == {word, WrongWord} \cup Errors

Read(word, rx) ==
    /\ UNCHANGED devices
    /\ faults' = (faults \/ rx # word)

DacStore(channel, v) ==
    /\ reg' = [reg EXCEPT ![channel] = v]
    /\ out' = IF latch THEN out ELSE [out EXCEPT ![channel] = v]
    /\ UNCHANGED adc_ctrl

CodecStore(v) == adc_ctrl' = v /\ UNCHANGED <<reg, out>>

\* i2c_general_call_reset, which only the DAC obeys
DacReset ==
    /\ reg' = Levels(DacDefault) /\ out' = Levels(DacDefault)
    /\ UNCHANGED adc_ctrl

-----------------------------------------------------------------------------
(* The program.                                                            *)

Goto(from, to) == pc = from /\ pc' = to

\* post_failed is set by a check that fails and never cleared by one.
Check(good) == post_failed' = (post_failed \/ ~good)

Verdict == IF post_failed THEN "failed" ELSE "passed"
Colour == IF post_failed THEN "red" ELSE "blue"

\* rgb_init, dac_init, i2c_init: the LED keeps its colour.
Start ==
    /\ Goto("init", "reset1")
    /\ latch' = FALSE
    /\ out' = reg
    /\ post_failed' = FALSE
    /\ UNCHANGED <<addr, led, reg, adc_ctrl, samples, verdicts, faults>>

GeneralCallReset ==
    /\ \/ Goto("reset1", "dac_id")
       \/ Goto("reset2", "report")
       \/ Goto("ext_reset", "ext_report")
    /\ \E ok \in BOOLEAN : Write(DacReset, ok)   \* result ignored
    /\ UNCHANGED <<addr, post_failed, led, latch, samples, verdicts>>

AskDac ==
    /\ Goto("dac_id", "codec_id")
    /\ \E rx \in Answers(DacId) : Read(DacId, rx) /\ Check(LO(rx) = DAC_I2C_ADDR)
    /\ UNCHANGED <<addr, led, latch, samples, verdicts>>

AskCodec ==
    /\ Goto("codec_id", "reset2")
    /\ \E rx \in Answers(CodecId) : Read(CodecId, rx) /\ Check(HI(rx) = CODEC_PARTID)
    /\ UNCHANGED <<addr, led, latch, samples, verdicts>>

\* The end of post, and the beginning of extended_post with its own flag.
Report ==
    /\ Goto("report", "latch_up")
    /\ led' = Colour
    /\ post_verdict' = Verdict
    /\ post_failed' = FALSE
    /\ addr' = 0
    /\ UNCHANGED <<latch, devices, samples, ext_verdict, faults>>

LatchUp ==
    /\ Goto("latch_up", "dac_write")
    /\ latch' = TRUE
    /\ UNCHANGED <<addr, post_failed, led, devices, samples, verdicts, faults>>

TestWrite ==
    /\ Goto("dac_write", "latch_down")
    /\ \E ok \in BOOLEAN : Write(DacStore(addr, TestVal), ok) /\ Check(ok)
    /\ UNCHANGED <<addr, led, latch, samples, verdicts>>

\* Mutant: the latch stays up.
LatchDownNot ==
    /\ Goto("latch_down", "dac_read")
    /\ UNCHANGED <<addr, post_failed, led, latch, devices, samples, verdicts, faults>>

LatchDown ==
    /\ Goto("latch_down", "dac_read")
    /\ latch' = FALSE
    /\ out' = reg
    /\ UNCHANGED <<addr, post_failed, led, reg, adc_ctrl, samples, verdicts, faults>>

\* Mutant: the loop over the channels goes one too far.
TestReadPastLast ==
    /\ Goto("dac_read", IF addr <= 1 THEN "latch_up" ELSE "codec_write")
    /\ addr' = addr + 1
    /\ \E rx \in Answers(out[addr]) : Read(out[addr], rx) /\ Check(rx = TestVal)
    /\ UNCHANGED <<led, latch, samples, verdicts>>

TestRead ==
    /\ Goto("dac_read", IF addr = 0 THEN "latch_up" ELSE "codec_write")
    /\ addr' = 1 - addr
    /\ \E rx \in Answers(out[addr]) : Read(out[addr], rx) /\ Check(rx = TestVal)
    /\ UNCHANGED <<led, latch, samples, verdicts>>

\* Mutant: the result of the write that restores the register is ignored.
CodecWriteUnchecked ==
    /\ \/ Goto("codec_write", "codec_read")
          /\ \E ok \in BOOLEAN : Write(CodecStore(1), ok) /\ Check(ok)
       \/ Goto("codec_restore", "ext_reset")
          /\ \E ok \in BOOLEAN : Write(CodecStore(0), ok) /\ Check(TRUE)
    /\ UNCHANGED <<addr, led, latch, samples, verdicts>>

CodecWrite ==
    /\ \/ Goto("codec_write", "codec_read")
          /\ \E ok \in BOOLEAN : Write(CodecStore(1), ok) /\ Check(ok)
       \/ Goto("codec_restore", "ext_reset")
          /\ \E ok \in BOOLEAN : Write(CodecStore(0), ok) /\ Check(ok)
    /\ UNCHANGED <<addr, led, latch, samples, verdicts>>

CodecRead ==
    /\ Goto("codec_read", "codec_restore")
    /\ \E rx \in Answers(adc_ctrl) : Read(adc_ctrl, rx) /\ Check(rx = 1)
    /\ UNCHANGED <<addr, led, latch, samples, verdicts>>

ExtReport ==
    /\ Goto("ext_report", "low0")
    /\ led' = Colour
    /\ ext_verdict' = Verdict
    /\ UNCHANGED <<addr, post_failed, latch, devices, samples, post_verdict, faults>>

\* Mutant: the result of dac_set_val is ignored.
SetChannelUnchecked(from, channel, v, next, sample) ==
    /\ pc = from
    /\ \E ok \in BOOLEAN :
         /\ Write(DacStore(channel, v), ok)
         /\ pc' = IF ok THEN next ELSE sample
    /\ UNCHANGED led
    /\ UNCHANGED <<addr, post_failed, latch, samples, verdicts>>

\* dac_set_val leaves at the first error, and the loop turns the LED red but
\* goes on to sample.
SetChannel(from, channel, v, next, sample) ==
    /\ pc = from
    /\ \E ok \in BOOLEAN :
         /\ Write(DacStore(channel, v), ok)
         /\ pc' = IF ok THEN next ELSE sample
         /\ led' = IF ok THEN led ELSE "red"
    /\ UNCHANGED <<addr, post_failed, latch, samples, verdicts>>

SetDac ==
    \/ SetChannel("low0", 0, LowVal, "low1", "low_sample")
    \/ SetChannel("low1", 1, LowVal, "low_sample", "low_sample")
    \/ SetChannel("high0", 0, HighVal, "high1", "high_sample")
    \/ SetChannel("high1", 1, HighVal, "high_sample", "high_sample")

Sample ==
    /\ \/ Goto("low_sample", "high0") /\ osc_low' = out /\ UNCHANGED osc_high
       \/ Goto("high_sample", "low0") /\ osc_high' = out /\ UNCHANGED osc_low
    /\ UNCHANGED <<addr, post_failed, led, latch, devices, verdicts, faults>>

\* tools/hot_reload.sh; the C runtime clears the samples.
HotReload ==
    /\ pc' = "init"
    /\ addr' = 0 /\ post_failed' = FALSE
    /\ osc_low' = NoSample /\ osc_high' = NoSample
    /\ post_verdict' = "none" /\ ext_verdict' = "none"
    /\ faults' = FALSE
    /\ UNCHANGED <<led, latch, devices>>

Next ==
    \/ Start \/ GeneralCallReset \/ AskDac \/ AskCodec \/ Report
    \/ LatchUp \/ TestWrite \/ LatchDown \/ TestRead
    \/ CodecWrite \/ CodecRead \/ ExtReport
    \/ SetDac \/ Sample
    \/ HotReload

Spec == Init /\ [][Next]_vars

-----------------------------------------------------------------------------
(* Properties.                                                             *)

\* If no transaction of this boot went wrong, the LED is blue when the loop
\* runs: the self tests have no false alarm, whatever an earlier boot that
\* was cut short left in the devices, the latch and the LED.
NoFalseAlarm == pc \in Loop /\ ~faults => led = "blue"

\* While the LED is blue in the loop, each pair of cycle counts was sampled
\* with both DAC channels at the level the loop meant to set: a DAC that
\* failed to move turns the LED red, and it stays red.
BlueMeansLevels ==
    pc \in Loop /\ led = "blue" =>
        /\ osc_low \in {NoSample, Levels(LowVal)}
        /\ osc_high \in {NoSample, Levels(HighVal)}

\* While the LED is blue in the loop the codec register that the extended
\* test changes has its old value again, and the latch is transparent.
BlueMeansRestored ==
    pc \in Loop /\ led = "blue" => adc_ctrl = 0 /\ ~latch

\* README.md:52: "BLUE is good and means power on self test passed."
BlueMeansPostPassed ==
    pc \in Loop /\ led = "blue" => post_verdict = "passed"
=============================================================================
