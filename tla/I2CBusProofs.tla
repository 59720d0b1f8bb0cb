---------------------------- MODULE I2CBusProofs -----------------------------
(***************************************************************************)
(* Proofs about I2CBus, for every address, data byte, reply, stretch and   *)
(* divider of a useful size.                                               *)
(*                                                                         *)
(* The bit controller is proved to do, clock by clock, what I2CBitService  *)
(* promises the byte controller.  All that I2CTransferProofs proves of the *)
(* layers above it then holds of I2CBus as well, T being that module with  *)
(* the state of the service read off the registers.                        *)
(*                                                                         *)
(* The history of I2CTransfer can be read off the lines too (Transfer, in  *)
(* I2CBus), so that I2CBus implements I2CTransfer as a whole, its frames   *)
(* and replies included, and what the driver promises its callers carries  *)
(* over to the lines; W is I2CTransferProofs under that mapping.           *)
(*                                                                         *)
(* The proof rests on three facts.  A quarter of a bit is longer than the  *)
(* way of a line through capture and filter, so that what the core sees at *)
(* the end of a quarter is the line.  SDA moves only where the filtered    *)
(* SCL is low, but for START and STOP.  And the peripheral, which sees the *)
(* lines and no register of the core, counts bits and bytes in step with   *)
(* the byte controller, so that it pulls SDA only where the core lets go   *)
(* of it.  Lines says the first two, Together the third; neither is        *)
(* inductive without the other.                                            *)
(***************************************************************************)
EXTENDS I2CBus, SequenceTheorems, TLAPS

\* The layers above the bit controller, as I2CTransferProofs knows them.
T == INSTANCE I2CTransferProofs WITH
    serving <- Serving, age <- Age, left <- nbit, Setup <- 1

-----------------------------------------------------------------------------
\* Quarters of ten clocks or more, in which a line that is sampled twice has
\* settled before the quarter is over (i2c.c sets 24), and four clocks or more
\* between two stores of the CPU, so that the filters have settled before the
\* core is enabled (a store is a bus cycle after a fetch of its own).
Timed == DriverPrescale >= 10 /\ AccessTime >= 4

\* The driver before the last store of i2c_init.
Initialising == {"core_reset", "prescale", "control"}

\* Clocks between two samples of the filter, less one.
Spacing == DriverPrescale \div 4

\* Clocks until the end of the quarter.
Left == IF clk_en THEN 0 ELSE cnt + 1

(* One line and its stages: capture c, filter f, filtered s, delayed d. *)
Still(line, c, f, s, d) ==
    /\ c[2] <=> line
    /\ c[1] <=> line
    /\ f[3] <=> line
    /\ f[2] <=> line
    /\ s <=> line
    /\ d <=> line

\* Each stage has the level of the line, or enough of the quarter is left (n
\* clocks, of which wait until the next sample) for it to get there.
Settles(line, c, f, s, d, wait, n) ==
    /\ (c[2] <=> line) \/ n >= 2 * Spacing + 6
    /\ (c[1] <=> line) \/ n >= 2 * Spacing + 5
    /\ (f[3] <=> line) \/ n >= wait + Spacing + 4
    /\ (f[2] <=> line) \/ n >= wait + 3
    /\ (s <=> line) \/ n >= 2
    /\ (d <=> line) \/ n >= 1

\* The level v comes in from the line and has passed the stages in their order.
Moves(v, line, c, f, s, d) ==
    /\ (c[2] <=> v) => (line <=> v)
    /\ (c[1] <=> v) => (c[2] <=> v)
    /\ (f[3] <=> v) => (c[1] <=> v)
    /\ (f[2] <=> v) => (f[3] <=> v)
    /\ (f[3] <=> v) /\ (f[1] <=> v) => (f[2] <=> v)
    /\ (s <=> v) => (f[2] <=> v)
    /\ (d <=> v) => (s <=> v)

\* The two lines in these terms.
SclStill == Still(scl, cSCL, fSCL, sSCL, dSCL)
SdaStill == Still(sda, cSDA, fSDA, sSDA, dSDA)
SclSettles == Settles(scl, cSCL, fSCL, sSCL, dSCL, filter_cnt, Left)
SdaSettles == Settles(sda, cSDA, fSDA, sSDA, dSDA, filter_cnt, Left)
SclRises == Moves(TRUE, scl, cSCL, fSCL, sSCL, dSCL)
SclFalls == Moves(FALSE, scl, cSCL, fSCL, sSCL, dSCL)
SdaFalls == Moves(FALSE, sda, cSDA, fSDA, sSDA, dSDA)

\* The conditions SCL can be in: high, low, on its way up and on its way down.
\* A rise stops the divider until the sampled line is high; a fall does not.
High == scl_oen /\ scl /\ dscl_oen /\ ~peripheral_wait /\ SclStill

Low == ~scl_oen /\ ~peripheral_wait /\ SclStill

Rising ==
    /\ scl_oen /\ SclRises
    /\ \/ ~dscl_oen /\ ~peripheral_wait /\ ~sSCL /\ ~clk_en /\ cnt = DriverPrescale - 1
       \/ dscl_oen /\ peripheral_wait /\ ~clk_en /\ cnt = DriverPrescale - 2
       \/ dscl_oen /\ ~peripheral_wait /\ sSCL /\ dSCL

\* No move of SDA reaches a stage before the fall of SCL does.
LowSafe ==
    sSCL =>
        /\ dSDA <=> sSDA
        /\ ~cSCL[2] \/ (cSDA[2] <=> sSDA)
        /\ ~cSCL[1] \/ (cSDA[1] <=> sSDA)
        /\ ~fSCL[3] \/ (fSDA[3] <=> sSDA)
        /\ ~fSCL[2] \/ (fSDA[2] <=> sSDA)
        /\ fSCL[3] \/ ~fSCL[1] \/ (fSDA[1] <=> sSDA)

Falling == ~scl_oen /\ ~peripheral_wait /\ SclFalls /\ SclSettles /\ LowSafe

\* What is on the lines in each quarter, and what of it has reached the stages.
OnLines ==
    CASE bit_state = "idle" ->
            IF scl_oen THEN High /\ sda /\ sda_oen /\ SdaSettles ELSE Falling
      [] bit_state = "start_a" ->
            IF scl_oen THEN High /\ sda /\ SdaStill ELSE Low
      [] bit_state = "start_b" ->
            IF scl_oen THEN High /\ sda /\ SdaStill ELSE Low /\ sda /\ SdaSettles
      [] bit_state = "start_c" -> Rising /\ sda /\ SdaStill
      [] bit_state = "start_d" -> High /\ ~sda_oen /\ SdaSettles /\ SdaFalls
      [] bit_state = "start_e" -> High /\ ~sda_oen /\ SdaStill
      [] bit_state = "stop_b" -> Low /\ ~sda_oen /\ SdaSettles
      [] bit_state = "stop_c" -> Rising /\ ~sda_oen /\ SdaStill
      [] bit_state = "stop_d" -> High /\ ~sda_oen /\ SdaStill
      [] bit_state = "rd_b" -> Low /\ sda_oen /\ SdaSettles
      [] bit_state = "rd_c" -> Rising /\ sda_oen /\ SdaStill
      [] bit_state = "rd_d" -> High /\ sda_oen /\ SdaStill
      [] bit_state = "wr_b" -> Low /\ (sda_oen <=> core_txd) /\ SdaSettles
      [] bit_state = "wr_c" -> Rising /\ (sda_oen <=> core_txd) /\ SdaStill
      [] bit_state = "wr_d" -> High /\ (sda_oen <=> core_txd) /\ SdaStill
      [] OTHER -> Low

\* In the high phase of a bit, core and observer have the bit that SDA is.
DataIn ==
    /\ bit_state \in {"rd_c", "rd_d", "wr_c", "wr_d"} =>
         /\ dSCL => (core_rxd <=> sda)
         /\ was_scl => bit = BitSymbol(sda)
    /\ bit_state \in {"start_d", "start_e"} /\ ~was_sda => bit = "none"

\* STOP and arbitration are looked for only where the core drives the lines so,
\* and the observer is as far behind as the first stage of the capture.
Flags ==
    /\ sto_condition => bit_state = "idle"
    /\ sda_chk => bit_state = "wr_d"
    /\ was_scl <=> cSCL[2]
    /\ was_sda <=> cSDA[2]

\* The enabled core, and the range of its two counters.
Dividing ==
    /\ prescale = DriverPrescale
    /\ control.EN
    /\ ~core_reset
    /\ cnt \in 0..DriverPrescale
    /\ clk_en => cnt = DriverPrescale
    /\ filter_cnt \in 0..Spacing

\* In the clock of cmd_ack the end of the bit is not yet seen on the lines; in
\* every other clock of rest it has been.
AckSeen ==
    /\ core_ack =>
         /\ bit_state = "idle" /\ ~clk_en
         /\ IF core_cmd = "STOP" THEN scl_oen /\ was_scl /\ ~was_sda ELSE ~scl_oen /\ was_scl
         /\ core_cmd \in {"READ", "WRITE"} => bit = BitSymbol(core_rxd)
         /\ core_cmd = "WRITE" => (core_rxd <=> T!Offered)
         /\ core_cmd = "START" => bit = "none"
    /\ ~core_ack /\ bit_state = "idle" =>
         IF scl_oen THEN was_sda ELSE ~was_scl

\* The lines and the bit controller, once the core is enabled.
Lines == Dividing /\ OnLines /\ DataIn /\ Flags /\ AckSeen

\* Before the driver enables the core.
Asleep ==
    /\ ~control.EN
    /\ bit_state = "idle" /\ scl_oen /\ sda_oen /\ ~sda_chk
    /\ dev_scl /\ dev_sda /\ role = "off" /\ nbit = 0
    /\ was_scl /\ was_sda
    /\ dscl_oen /\ ~peripheral_wait /\ clk_en /\ filter_cnt = 0
    /\ \A c \in {cSCL, cSDA} :
         /\ pc = "control" \/ (pc = "prescale" /\ elapsed >= 2) => c[2]
         /\ pc = "control" \/ (pc = "prescale" /\ elapsed >= 3) => c[1]
    /\ \A f \in {fSCL, fSDA} :
         /\ pc = "control" \/ (pc = "prescale" /\ elapsed >= 4) => f[3]
         /\ pc = "control" /\ elapsed >= 1 => f[2]
    /\ pc = "control" /\ elapsed >= 2 => sSCL /\ sSDA
    /\ pc = "control" /\ elapsed >= 3 => dSCL /\ dSDA
    /\ pc = "control" => prescale = DriverPrescale
    /\ pc = "control" /\ elapsed >= 1 => cnt = DriverPrescale

\* No arbitration loss, and none remembered.
NeverLost == ~i2c_al /\ ~arb_lost

-----------------------------------------------------------------------------
\* The peripheral waits for the operation that comes next.
Ready(op) ==
    /\ nbit = 0
    /\ IF op.rx THEN role = "talk" ELSE IF op.sta THEN role # "talk" ELSE role = "listen"
    /\ op.sta \/ ~scl_oen

\* What the peripheral does once an operation is over.
RoleAfter(op, nak) ==
    IF op.sto \/ (op.rx /\ op.nack) \/ (~op.rx /\ nak) THEN "off"
    ELSE IF op.rx \/ (op.sta /\ BitOf(op.byte, 0)) THEN "talk"
    ELSE "listen"

After(op) ==
    /\ nbit = 0
    /\ role = RoleAfter(op, rxack)
    /\ scl_oen <=> op.sto

\* The bits of the byte that the peripheral has seen the end of.
BitsGone == IF ld THEN 0 ELSE IF shift THEN 8 - dcnt ELSE 7 - dcnt

\* Its role while it is sent a byte.
Addressed(op) == IF op.sta THEN "address" ELSE "listen"

\* Between two bits of an operation the core keeps SCL low.
Owned == bit_state = "idle" => ~scl_oen

\* The peripheral is where the byte controller thinks it is.
InStep(op) ==
    CASE byte_state = "IDLE" -> IF done THEN After(op) ELSE Ready(op)
      [] byte_state = "START" ->
            /\ nbit = 0 /\ role # "talk"
            /\ core_ack \/ (bit_state \in {"start_d", "start_e"} /\ ~was_sda) => role = "address"
      [] byte_state = "WRITE" ->
            /\ nbit = BitsGone /\ role = Addressed(op) /\ Owned
            /\ ~ld => (BitOf(rxr, 7 - dcnt) <=> BitOf(op.byte, 0))
      [] byte_state = "READ" ->
            nbit = BitsGone /\ role = "talk" /\ Owned
      [] byte_state = "ACK" ->
            /\ nbit = 8 /\ Owned
            /\ IF op.rx THEN role = "talk"
               ELSE role = Addressed(op) /\ (rw <=> op.sta /\ BitOf(op.byte, 0))
      [] byte_state = "STOP" ->
            nbit = 0 /\ role # "talk" /\ (~core_ack => Owned)
      [] OTHER -> FALSE

\* The peripheral pulls SDA low only to answer a read or to acknowledge.
Drives == dev_sda \/ (role = "talk" /\ nbit # 8) \/ (role \in {"address", "listen"} /\ nbit = 8)

\* An operation under way is that of the driver, and peripheral and byte
\* controller go through it together.
InTurn ==
    T!Pending =>
        /\ command = CommandOf(txn[k])
        /\ txn[k].rx \/ txr = txn[k].byte
        /\ T!Turn
        /\ InStep(txn[k])

\* They are together between the operations too, from i2c_init to the return.
Together ==
    /\ Drives
    /\ InTurn
    /\ pc = "command" => txn[k].rx \/ txr = txn[k].byte
    /\ pc = "txr" => ~txn[k].rx
    /\ pc \in {"txr", "command"} => Ready(txn[k])
    /\ pc \in {"wait", "rxr", "check"} /\ outcome # "pending" => After(txn[k])
    /\ pc \in {"rxr", "check"} => outcome # "pending" /\ (status.RxACK <=> rxack)
    /\ pc = "idle" => nbit = 0 /\ role # "talk" /\ (ret >= 0 => scl_oen)

\* The inductive invariant: that of the layers above the bit controller, which
\* I2CTransferProofs proves of any bit service, and what the lines and the
\* peripheral add to it.
BInv ==
    /\ T!IInv /\ T!Offering /\ TypeOK /\ T!Placed
    /\ NeverLost
    /\ IF pc \in Initialising THEN Asleep ELSE Lines
    /\ Together

-----------------------------------------------------------------------------
(* One line.                                                               *)

\* What a clock does to the stages of a line.
Pipe(line, c, f, s, wait, c2, f2, s2, d2) ==
    /\ c2[2] <=> line
    /\ c2[1] <=> c[2]
    /\ f2[3] <=> IF wait = 0 THEN c[1] ELSE f[3]
    /\ f2[2] <=> IF wait = 0 THEN f[3] ELSE f[2]
    /\ f2[1] <=> IF wait = 0 THEN f[2] ELSE f[1]
    /\ s2 <=> Bit!Majority(f)
    /\ d2 <=> s

-----------------------------------------------------------------------------
(* The parts of a clock.                                                   *)

\* A clock of the enabled core, in these terms.
LEMMA TickPipes ==
    ASSUME Bit!Tick, Dividing
    PROVE  /\ Pipe(scl, cSCL, fSCL, sSCL, filter_cnt, cSCL', fSCL', sSCL', dSCL')
           /\ Pipe(sda, cSDA, fSDA, sSDA, filter_cnt, cSDA', fSDA', sSDA', dSDA')
           /\ filter_cnt' = IF filter_cnt = 0 THEN Spacing ELSE filter_cnt - 1
<1> USE DEF Dividing
<1>1. Bit!Capture /\ Bit!Filter /\ Bit!Edges
  BY DEF Bit!Tick
<1>2. cSCL' = <<cSCL[2], scl>> /\ cSDA' = <<cSDA[2], sda>>
  BY <1>1 DEF Bit!Capture
<1>3. IF filter_cnt = 0
      THEN fSCL' = <<fSCL[2], fSCL[3], cSCL[1]>> /\ fSDA' = <<fSDA[2], fSDA[3], cSDA[1]>>
      ELSE fSCL' = fSCL /\ fSDA' = fSDA
  BY <1>1 DEF Bit!Filter, Bit!Sampled
<1>4. /\ sSCL' <=> Bit!Majority(fSCL)
      /\ sSDA' <=> Bit!Majority(fSDA)
      /\ dSCL' <=> sSCL
      /\ dSDA' <=> sSDA
  BY <1>1, Zenon DEF Bit!Edges
<1>5. filter_cnt' = IF filter_cnt = 0 THEN Spacing ELSE filter_cnt - 1
  BY <1>1 DEF Bit!Filter, Spacing
<1> HIDE DEF Dividing
<1>6. QED
  BY <1>2, <1>3, <1>4, <1>5 DEF Pipe

\* Two samples of a line, and its way to the delayed stage, take no longer than
\* a quarter of a bit.
LEMMA QuarterIsEnough ==
    ASSUME Timed
    PROVE  /\ DriverPrescale \in Nat /\ DriverPrescale >= 10
           /\ Spacing \in Nat /\ 2 * Spacing + 6 <= DriverPrescale
<1>1. DriverPrescale \in Nat
  BY PrescaleAssumption
<1>2. QED
  BY <1>1 DEF Timed, Spacing

\* In any state SCL is in one of four conditions.
SclModes == High \/ Low \/ Rising \/ Falling

\* In every quarter SCL is in one of them.
LEMMA LinesModes ==
    ASSUME OnLines
    PROVE  SclModes
BY DEF OnLines, SclModes

\* The divider runs freely but for a peripheral that holds SCL.
LEMMA DividerStep ==
    ASSUME Timed, Bit!Tick, Dividing, SclModes
    PROVE  /\ cnt' \in 0..DriverPrescale
           /\ clk_en' => cnt' = DriverPrescale
           /\ clk_en => ~clk_en' /\ cnt' = DriverPrescale - 1
           /\ dscl_oen' <=> scl_oen
           /\ peripheral_wait' <=> (scl_oen /\ ~dscl_oen /\ ~sSCL) \/ (peripheral_wait /\ ~sSCL)
           /\ cnt # 0 /\ ~clk_en => ~clk_en' /\ cnt' = IF peripheral_wait THEN cnt ELSE cnt - 1
<1>1. Bit!Divider
  BY DEF Bit!Tick
<1>2. ~Bit!scl_sync
  BY DEF Bit!scl_sync, SclModes, High, Low, Rising, Falling, SclStill, SclRises, Still, Moves
<1>3. /\ dscl_oen' <=> scl_oen
      /\ peripheral_wait' <=> (scl_oen /\ ~dscl_oen /\ ~sSCL) \/ (peripheral_wait /\ ~sSCL)
  BY <1>1, Zenon DEF Bit!Divider
<1>4. IF cnt = 0 THEN cnt' = DriverPrescale /\ clk_en'
      ELSE cnt' = (IF peripheral_wait THEN cnt ELSE cnt - 1) /\ ~clk_en'
  BY <1>1, <1>2 DEF Bit!Divider, Dividing
<1>5. clk_en => ~peripheral_wait
  <2>1. DriverPrescale \in Nat /\ DriverPrescale >= 10
    BY QuarterIsEnough
  <2>2. QED
    BY <2>1 DEF SclModes, High, Low, Rising, Falling
<1>6. DriverPrescale \in Nat /\ DriverPrescale >= 10
  BY QuarterIsEnough
<1>7. cnt \in 0..DriverPrescale /\ (clk_en => cnt = DriverPrescale)
  BY DEF Dividing
<1>8. QED
  BY <1>3, <1>4, <1>5, <1>6, <1>7

\* A quarter gets shorter by a clock at a time.
LEMMA LeftStep ==
    ASSUME Timed, Bit!Tick, Dividing, SclModes
    PROVE  /\ Left \in Nat /\ Left' \in Nat /\ Left' >= Left - 1
           /\ clk_en => Left = 0 /\ Left' = DriverPrescale
<1>1. DriverPrescale \in Nat /\ DriverPrescale >= 10
  BY QuarterIsEnough
<1>2. cnt \in 0..DriverPrescale /\ (clk_en => cnt = DriverPrescale)
  BY DEF Dividing
<1>3. /\ cnt' \in 0..DriverPrescale
      /\ clk_en => ~clk_en' /\ cnt' = DriverPrescale - 1
      /\ cnt # 0 /\ ~clk_en => ~clk_en' /\ cnt' = IF peripheral_wait THEN cnt ELSE cnt - 1
  BY DividerStep
<1>4. CASE clk_en
  <2>1. Left = 0 /\ Left' = DriverPrescale
    BY <1>1, <1>3, <1>4 DEF Left
  <2>2. QED
    BY <1>1, <1>4, <2>1
<1>5. CASE ~clk_en /\ cnt = 0
  <2>1. Left = 1 /\ (Left' = 0 \/ Left' = cnt' + 1)
    BY <1>5 DEF Left
  <2>2. cnt' \in Nat
    BY <1>1, <1>3
  <2>3. QED
    BY <1>5, <2>1, <2>2
<1>6. CASE ~clk_en /\ cnt # 0
  <2>1. Left = cnt + 1 /\ Left' = cnt' + 1
    BY <1>3, <1>6 DEF Left
  <2>2. cnt \in Nat /\ cnt' \in Nat /\ cnt' >= cnt - 1
    BY <1>1, <1>2, <1>3, <1>6
  <2>3. \A m, n, a, b : /\ m = a + 1 /\ n = b + 1
                       /\ a \in Nat /\ b \in Nat /\ b >= a - 1
                       => m \in Nat /\ n \in Nat /\ n >= m - 1
    OBVIOUS
  <2>5. Left \in Nat /\ Left' \in Nat /\ Left' >= Left - 1
    BY ONLY <2>1, <2>2, <2>3, Zenon
  <2>6. QED
    BY <1>6, <2>5, Zenon
<1>7. QED
  BY <1>4, <1>5, <1>6

\* The wrapper leaves the enabled core enabled.
LEMMA DividingKept ==
    ASSUME Timed, Bit!Tick, CsrTick, Dividing, SclModes
    PROVE  Dividing'
<1>1. /\ cnt' \in 0..DriverPrescale
      /\ clk_en' => cnt' = DriverPrescale
  BY DividerStep
<1>2. filter_cnt' \in 0..Spacing
  BY TickPipes, QuarterIsEnough DEF Dividing
<1>3. prescale' = prescale /\ control' = control /\ ~core_reset'
  BY DEF CsrTick
<1>4. QED
  BY <1>1, <1>2, <1>3 DEF Dividing

-----------------------------------------------------------------------------
(* The lines from one clock to the next.                                   *)

\* The peripheral lets SCL rise once, and moves SDA only after SCL has fallen.
LEMMA Environment ==
    ASSUME PeripheralTick
    PROVE  /\ dev_scl /\ ~Fall => dev_scl'
           /\ ~Fall /\ ~StartSeen /\ ~StopSeen => dev_sda' = dev_sda
           /\ StartSeen \/ StopSeen => dev_sda'
<1>1. dev_scl /\ ~Fall => dev_scl'
  BY DEF PeripheralTick
<1>2. ~Fall /\ ~StartSeen /\ ~StopSeen => dev_sda' = dev_sda
  BY DEF PeripheralTick
<1>3. StartSeen \/ StopSeen => dev_sda'
  BY DEF PeripheralTick, StartSeen, StopSeen, Fall, Listen
<1>4. QED
  BY <1>1, <1>2, <1>3

\* SCL goes down only when the core pulls it, and up only when it lets go.
LEMMA SclStays ==
    ASSUME PeripheralTick, scl, scl_oen'
    PROVE  scl'
BY Environment DEF scl, Fall

\* And it stays down as long as the core pulls it.
LEMMA SclStaysLow ==
    ASSUME ~scl_oen'
    PROVE  ~scl'
BY DEF scl

\* What the stages of the two lines keep.
LEMMA SclLine ==
    ASSUME Bit!Tick, Dividing
    PROVE  /\ SclStill /\ (scl' <=> scl) => SclStill'
           /\ SclRises /\ (scl => scl') => SclRises'
           /\ SclFalls /\ (~scl => ~scl') => SclFalls'
           /\ SclStill /\ scl => SclFalls'
           /\ SclStill /\ ~scl => SclRises'
<1>1. Pipe(scl, cSCL, fSCL, sSCL, filter_cnt, cSCL', fSCL', sSCL', dSCL')
  BY TickPipes
<1> USE DEF Pipe, Bit!Majority
<1>2. SclStill /\ (scl' <=> scl) => SclStill'
  BY <1>1 DEF SclStill, Still
<1>3. SclRises /\ (scl => scl') => SclRises'
  BY <1>1 DEF SclRises, Moves
<1>4. SclFalls /\ (~scl => ~scl') => SclFalls'
  BY <1>1 DEF SclFalls, Moves
<1>5. SclStill /\ scl => SclFalls'
  BY <1>1 DEF SclStill, Still, SclFalls, Moves
<1>6. SclStill /\ ~scl => SclRises'
  BY <1>1 DEF SclStill, Still, SclRises, Moves
<1>7. QED
  BY <1>2, <1>3, <1>4, <1>5, <1>6

\* And of SDA.
LEMMA SdaLine ==
    ASSUME Bit!Tick, Dividing
    PROVE  /\ SdaStill /\ (sda' <=> sda) => SdaStill'
           /\ SdaFalls /\ (~sda => ~sda') => SdaFalls'
           /\ SdaStill /\ sda => SdaFalls'
<1>1. Pipe(sda, cSDA, fSDA, sSDA, filter_cnt, cSDA', fSDA', sSDA', dSDA')
  BY TickPipes
<1> USE DEF Pipe, Bit!Majority
<1>2. SdaStill /\ (sda' <=> sda) => SdaStill'
  BY <1>1 DEF SdaStill, Still
<1>3. SdaFalls /\ (~sda => ~sda') => SdaFalls'
  BY <1>1 DEF SdaFalls, Moves
<1>4. SdaStill /\ sda => SdaFalls'
  BY <1>1 DEF SdaStill, Still, SdaFalls, Moves
<1>5. QED
  BY <1>2, <1>3, <1>4

\* A line settles while it stands still, and has settled when the quarter ends.
LEMMA SettlingStep ==
    ASSUME Timed, Bit!Tick, Dividing, SclModes
    PROVE  /\ SclSettles /\ (scl' <=> scl) => SclSettles'
           /\ SdaSettles /\ (sda' <=> sda) => SdaSettles'
           /\ clk_en => SclSettles' /\ SdaSettles'
           /\ clk_en /\ SclSettles => SclStill
           /\ clk_en /\ SdaSettles => SdaStill
<1>1. /\ Pipe(scl, cSCL, fSCL, sSCL, filter_cnt, cSCL', fSCL', sSCL', dSCL')
      /\ Pipe(sda, cSDA, fSDA, sSDA, filter_cnt, cSDA', fSDA', sSDA', dSDA')
      /\ filter_cnt' = IF filter_cnt = 0 THEN Spacing ELSE filter_cnt - 1
  BY TickPipes
<1>2. /\ Left \in Nat /\ Left' \in Nat /\ Left' >= Left - 1
      /\ clk_en => Left = 0 /\ Left' = DriverPrescale
  BY LeftStep
<1>3. filter_cnt \in 0..Spacing /\ Spacing \in Nat
  BY QuarterIsEnough DEF Dividing
<1>4. filter_cnt' \in 0..Spacing
  BY <1>1, <1>3
<1>5. SclSettles /\ (scl' <=> scl) => SclSettles'
  BY <1>1, <1>2, <1>3 DEF SclSettles, Settles, Pipe, Bit!Majority
<1>6. SdaSettles /\ (sda' <=> sda) => SdaSettles'
  BY <1>1, <1>2, <1>3 DEF SdaSettles, Settles, Pipe, Bit!Majority
<1>7. clk_en => SclSettles' /\ SdaSettles'
  <2> SUFFICES ASSUME clk_en PROVE SclSettles' /\ SdaSettles'
    OBVIOUS
  <2>1. Left' >= 2 * Spacing + 6
    BY <1>2, QuarterIsEnough
  <2>2. QED
    BY <1>2, <1>3, <1>4, <2>1 DEF SclSettles, SdaSettles, Settles
<1>8. clk_en /\ SclSettles => SclStill
  BY <1>2, <1>3 DEF SclSettles, Settles, SclStill, Still
<1>9. clk_en /\ SdaSettles => SdaStill
  BY <1>2, <1>3 DEF SdaSettles, Settles, SdaStill, Still
<1>10. QED
  BY <1>5, <1>6, <1>7, <1>8, <1>9

\* SCL and its stages while the core does not move it.
LEMMA HighKept ==
    ASSUME Timed, Bit!Tick, PeripheralTick, Dividing, High, scl_oen'
    PROVE  High'
<1>1. scl'
  BY SclStays DEF High
<1>2. SclStill'
  BY <1>1, SclLine DEF High
<1>3. dscl_oen' /\ ~peripheral_wait'
  BY DividerStep DEF High, SclModes
<1>4. QED
  BY <1>1, <1>2, <1>3 DEF High

\* As HighKept, for a low line.
LEMMA LowKept ==
    ASSUME Timed, Bit!Tick, Dividing, Low, ~scl_oen'
    PROVE  Low'
<1>1. ~scl' /\ ~scl
  BY DEF Low, scl
<1>2. SclStill'
  BY <1>1, SclLine DEF Low
<1>3. ~peripheral_wait'
  BY DividerStep DEF Low, SclModes
<1>4. QED
  BY <1>2, <1>3 DEF Low

\* As HighKept, for a rise: it goes through its three phases.
LEMMA RisingKept ==
    ASSUME Timed, Bit!Tick, PeripheralTick, Dividing, Rising, scl_oen'
    PROVE  Rising'
<1>1. scl => scl'
  BY SclStays
<1>2. SclRises'
  BY <1>1, SclLine DEF Rising
<1>3. DriverPrescale \in Nat /\ DriverPrescale >= 10
  BY QuarterIsEnough
<1>4. /\ dscl_oen' /\ (peripheral_wait' <=> (~dscl_oen /\ ~sSCL) \/ (peripheral_wait /\ ~sSCL))
      /\ cnt # 0 /\ ~clk_en => ~clk_en' /\ cnt' = IF peripheral_wait THEN cnt ELSE cnt - 1
  BY DividerStep DEF Rising, SclModes
<1>5. sSCL => sSCL' /\ dSCL'
  BY TickPipes DEF Rising, SclRises, Moves, Pipe, Bit!Majority
<1>6. CASE ~dscl_oen /\ ~peripheral_wait /\ ~sSCL /\ ~clk_en /\ cnt = DriverPrescale - 1
  BY <1>2, <1>3, <1>4, <1>6 DEF Rising
<1>7. CASE dscl_oen /\ peripheral_wait /\ ~clk_en /\ cnt = DriverPrescale - 2
  BY <1>2, <1>3, <1>4, <1>5, <1>7 DEF Rising
<1>8. CASE dscl_oen /\ ~peripheral_wait /\ sSCL /\ dSCL
  BY <1>2, <1>4, <1>5, <1>8 DEF Rising
<1>9. QED
  BY <1>6, <1>7, <1>8 DEF Rising

\* SDA stays behind SCL on the way through the stages.
LEMMA SafeKept ==
    ASSUME Bit!Tick, Dividing, ~scl, SclFalls, LowSafe
    PROVE  LowSafe'
BY TickPipes DEF SclFalls, LowSafe, Moves, Pipe, Bit!Majority

\* As HighKept, for a fall.
LEMMA FallingKept ==
    ASSUME Timed, Bit!Tick, Dividing, Falling, ~scl_oen'
    PROVE  Falling'
<1>1. ~scl /\ ~scl'
  BY DEF Falling, scl
<1>2. SclFalls'
  BY <1>1, SclLine DEF Falling
<1>3. SclSettles'
  BY <1>1, SettlingStep DEF Falling, SclModes
<1>4. ~peripheral_wait'
  BY DividerStep DEF Falling, SclModes
<1>5. LowSafe'
  BY <1>1, SafeKept DEF Falling
<1>6. QED
  BY <1>2, <1>3, <1>4, <1>5 DEF Falling

-----------------------------------------------------------------------------
(* The ends of the quarters.                                               *)

\* A rise has reached every stage when a quarter ends.
LEMMA Risen ==
    ASSUME Timed, Dividing, Rising, clk_en
    PROVE  High
BY DEF Rising, SclRises, Moves, High, SclStill, Still

\* A fall has reached every stage when a quarter ends.
LEMMA Fallen ==
    ASSUME Timed, Bit!Tick, Dividing, Falling, clk_en
    PROVE  Low
<1>1. SclStill
  BY SettlingStep DEF Falling, SclModes
<1>2. QED
  BY <1>1 DEF Falling, Low

\* The core lets go of a low SCL.
LEMMA LowRises ==
    ASSUME Timed, Bit!Tick, Dividing, Low, clk_en, scl_oen'
    PROVE  Rising'
<1>1. ~scl
  BY DEF Low, scl
<1>2. SclRises'
  BY <1>1, SclLine DEF Low
<1>3. ~clk_en' /\ cnt' = DriverPrescale - 1 /\ ~dscl_oen' /\ ~peripheral_wait'
  BY DividerStep DEF Low, SclModes
<1>4. ~sSCL'
  BY <1>1, TickPipes DEF Low, SclStill, Still, Pipe, Bit!Majority
<1>5. QED
  BY <1>2, <1>3, <1>4 DEF Rising

\* A line that is high already needs no time to rise.
LEMMA HighRises ==
    ASSUME High'
    PROVE  Rising'
BY DEF High, Rising, SclStill, SclRises, Still, Moves

\* The core pulls a high SCL down.
LEMMA HighFalls ==
    ASSUME Timed, Bit!Tick, Dividing, High, SdaStill, clk_en, ~scl_oen'
    PROVE  Falling'
<1>1. SclFalls'
  BY SclLine DEF High
<1>2. SclSettles'
  BY SettlingStep DEF High, SclModes
<1>3. ~peripheral_wait'
  BY DividerStep DEF High, SclModes
<1>4. LowSafe'
  BY TickPipes DEF High, SclStill, SdaStill, Still, LowSafe, Pipe, Bit!Majority
<1>5. QED
  BY <1>1, <1>2, <1>3, <1>4 DEF Falling

-----------------------------------------------------------------------------
(* What the peripheral does in a bit command.                              *)

\* The quarters of the four bit commands.
Addressing == {"start_a", "start_b", "start_c", "start_d", "start_e"}
Stopping == {"stop_a", "stop_b", "stop_c", "stop_d"}
Getting == {"rd_a", "rd_b", "rd_c", "rd_d"}
Putting == {"wr_a", "wr_b", "wr_c", "wr_d"}

\* The byte controller's part: it holds its command while one is served, asks
\* for a bit or a STOP only with SCL low, and drives SDA only while the
\* peripheral does not.
Obeyed ==
    /\ Serving \in {"NOP", core_cmd}
    /\ bit_state \in Addressing \cup Stopping \cup Putting => dev_sda
    /\ bit_state = "idle" /\ scl_oen /\ ~core_ack => core_cmd \in {"NOP", "START"}

\* SCL falls only at the end of a bit command, and SDA moves with SCL high only
\* in a START and at the end of a STOP.
LEMMA EventsInTurn ==
    ASSUME OnLines, Flags, bit_state \in Bit!BitStates
    PROVE  /\ Fall => bit_state = "idle" /\ Falling
           /\ StartSeen => bit_state = "start_d"
           /\ StopSeen => bit_state = "idle" /\ High
<1> USE DEF Flags
<1>1. High => ~Fall
  BY DEF High, SclStill, Still, Fall
<1>2. Low => ~Fall /\ ~StartSeen /\ ~StopSeen
  BY DEF Low, SclStill, Still, Fall, scl, StartSeen, StopSeen
<1>3. Rising => ~Fall
  BY DEF Rising, SclRises, Moves, Fall
<1>4. Falling => ~StartSeen /\ ~StopSeen
  BY DEF Falling, scl, StartSeen, StopSeen
<1>5. SdaStill => ~StartSeen /\ ~StopSeen
  BY DEF SdaStill, Still, StartSeen, StopSeen
<1>6. (sda => ~StartSeen) /\ (~sda => ~StopSeen) /\ (~sda_oen => ~sda)
  BY DEF StartSeen, StopSeen, sda
<1> HIDE DEF Flags
<1>7. CASE bit_state = "idle"
  BY <1>1, <1>4, <1>6, <1>7 DEF OnLines
<1>8. CASE bit_state \in Addressing
  BY <1>1, <1>2, <1>3, <1>5, <1>6, <1>8 DEF OnLines, Addressing
<1>9. CASE bit_state \in Stopping
  BY <1>1, <1>2, <1>3, <1>5, <1>9 DEF OnLines, Stopping
<1>10. CASE bit_state \in Getting
  BY <1>1, <1>2, <1>3, <1>5, <1>10 DEF OnLines, Getting
<1>11. CASE bit_state \in Putting
  BY <1>1, <1>2, <1>3, <1>5, <1>11 DEF OnLines, Putting
<1>12. QED
  BY <1>7, <1>8, <1>9, <1>10, <1>11
  DEF Addressing, Stopping, Getting, Putting, Bit!BitStates

\* So the peripheral leaves SDA alone while a command is served, and lets it go
\* at a START or STOP.
LEMMA SdaFree ==
    ASSUME PeripheralTick, OnLines, Flags, bit_state \in Bit!BitStates
    PROVE  /\ bit_state \notin {"idle", "start_d"} => dev_sda' = dev_sda
           /\ bit_state = "start_d" \/ (bit_state = "idle" /\ scl_oen) =>
                dev_sda' = dev_sda \/ dev_sda'
<1>1. CASE bit_state \notin {"idle", "start_d"}
  BY <1>1, EventsInTurn, Environment
<1>2. CASE bit_state = "start_d"
  BY <1>2, EventsInTurn, Environment
<1>3. CASE bit_state = "idle" /\ scl_oen
  <2>1. ~Falling
    BY <1>3 DEF Falling
  <2>2. QED
    BY <1>3, <2>1, EventsInTurn, Environment
<1>4. QED
  BY <1>1, <1>2, <1>3

\* The part of the bit controller that no reset or loss interrupts.
LEMMA DriveStep ==
    ASSUME Bit!Tick, ~core_reset, ~i2c_al
    PROVE  /\ core_ack' = (clk_en /\ bit_state \in Bit!LastQuarters)
           /\ clk_en => Bit!Drive
           /\ ~clk_en => /\ bit_state' = bit_state /\ scl_oen' = scl_oen
                         /\ sda_oen' = sda_oen /\ sda_chk' = sda_chk
<1>1. Bit!StateMachine
  BY DEF Bit!Tick
<1>2. QED
  BY <1>1 DEF Bit!StateMachine, Bit!Abort

\* Which quarter follows which.
LEMMA NextQuarter ==
    ASSUME Bit!Tick, ~core_reset, ~i2c_al, clk_en, bit_state \in Bit!BitStates
    PROVE  /\ bit_state = "idle" => bit_state' = Bit!FirstQuarter /\ scl_oen' = scl_oen
                                      /\ sda_oen' = sda_oen
           /\ bit_state = "start_a" => bit_state' = "start_b" /\ scl_oen' = scl_oen /\ sda_oen'
           /\ bit_state = "start_b" => bit_state' = "start_c" /\ scl_oen' /\ sda_oen'
           /\ bit_state = "start_c" => bit_state' = "start_d" /\ scl_oen' /\ ~sda_oen'
           /\ bit_state = "start_d" => bit_state' = "start_e" /\ scl_oen' /\ ~sda_oen'
           /\ bit_state = "start_e" => bit_state' = "idle" /\ ~scl_oen' /\ ~sda_oen'
           /\ bit_state = "stop_a" => bit_state' = "stop_b" /\ ~scl_oen' /\ ~sda_oen'
           /\ bit_state = "stop_b" => bit_state' = "stop_c" /\ scl_oen' /\ ~sda_oen'
           /\ bit_state = "stop_c" => bit_state' = "stop_d" /\ scl_oen' /\ ~sda_oen'
           /\ bit_state = "stop_d" => bit_state' = "idle" /\ scl_oen' /\ sda_oen'
           /\ bit_state = "rd_a" => bit_state' = "rd_b" /\ ~scl_oen' /\ sda_oen'
           /\ bit_state = "rd_b" => bit_state' = "rd_c" /\ scl_oen' /\ sda_oen'
           /\ bit_state = "rd_c" => bit_state' = "rd_d" /\ scl_oen' /\ sda_oen'
           /\ bit_state = "rd_d" => bit_state' = "idle" /\ ~scl_oen' /\ sda_oen'
           /\ bit_state = "wr_a" => bit_state' = "wr_b" /\ ~scl_oen' /\ (sda_oen' <=> core_txd)
           /\ bit_state = "wr_b" => bit_state' = "wr_c" /\ scl_oen' /\ (sda_oen' <=> core_txd)
           /\ bit_state = "wr_c" => bit_state' = "wr_d" /\ scl_oen' /\ (sda_oen' <=> core_txd)
           /\ bit_state = "wr_d" => bit_state' = "idle" /\ ~scl_oen' /\ (sda_oen' <=> core_txd)
           /\ sda_chk' => bit_state = "wr_c"
<1>1. Bit!Drive
  BY DriveStep
<1>2. CASE bit_state = "idle"
  BY <1>1, <1>2 DEF Bit!Drive, Bit!DriveStart, Bit!DriveStop, Bit!DriveRead, Bit!DriveWrite,
     Bit!Quarter
<1>3. CASE bit_state \in Addressing
  BY <1>1, <1>3 DEF Addressing, Bit!Drive, Bit!DriveStart, Bit!DriveStop, Bit!DriveRead,
     Bit!DriveWrite, Bit!Quarter
<1>4. CASE bit_state \in Stopping
  BY <1>1, <1>4 DEF Stopping, Bit!Drive, Bit!DriveStart, Bit!DriveStop, Bit!DriveRead,
     Bit!DriveWrite, Bit!Quarter
<1>5. CASE bit_state \in Getting
  BY <1>1, <1>5 DEF Getting, Bit!Drive, Bit!DriveStart, Bit!DriveStop, Bit!DriveRead,
     Bit!DriveWrite, Bit!Quarter
<1>6. CASE bit_state \in Putting
  BY <1>1, <1>6 DEF Putting, Bit!Drive, Bit!DriveStart, Bit!DriveStop, Bit!DriveRead,
     Bit!DriveWrite, Bit!Quarter
<1>7. QED
  BY <1>2, <1>3, <1>4, <1>5, <1>6 DEF Addressing, Stopping, Getting, Putting, Bit!BitStates

-----------------------------------------------------------------------------
(* The lines in a clock and after it.                                      *)

\* What carries over when the core leaves a line alone.
LEMMA Carried ==
    ASSUME Timed, Bit!Tick, PeripheralTick, Dividing, SclModes
    PROVE  /\ High /\ scl_oen' => High'
           /\ Low /\ ~scl_oen' => Low'
           /\ Rising /\ scl_oen' => Rising'
           /\ Falling /\ ~scl_oen' => Falling'
           /\ SdaStill /\ (sda' <=> sda) => SdaStill'
           /\ SdaSettles /\ (sda' <=> sda) => SdaSettles'
           /\ SdaFalls /\ (~sda => ~sda') => SdaFalls'
<1>1. (High /\ scl_oen' => High') /\ (Low /\ ~scl_oen' => Low')
  BY HighKept, LowKept
<1>2. (Rising /\ scl_oen' => Rising') /\ (Falling /\ ~scl_oen' => Falling')
  BY RisingKept, FallingKept
<1>3. SdaStill /\ (sda' <=> sda) => SdaStill'
  BY SdaLine
<1>4. SdaSettles /\ (sda' <=> sda) => SdaSettles'
  BY SettlingStep
<1>5. SdaFalls /\ (~sda => ~sda') => SdaFalls'
  BY SdaLine
<1>6. QED
  BY <1>1, <1>2, <1>3, <1>4, <1>5

\* Within a quarter.
LEMMA QuarterLines ==
    ASSUME Timed, Bit!Tick, PeripheralTick, Dividing, OnLines, Flags, Obeyed,
           ~core_reset, ~i2c_al, ~clk_en, bit_state \in Bit!BitStates,
           bit_state \in Putting \ {"wr_a"} => core_txd' = core_txd
    PROVE  OnLines'
<1>1. bit_state' = bit_state /\ scl_oen' = scl_oen /\ sda_oen' = sda_oen
  BY DriveStep
<1>2. SclModes
  BY LinesModes
<1>3. /\ High /\ scl_oen' => High'
      /\ Low /\ ~scl_oen' => Low'
      /\ Rising /\ scl_oen' => Rising'
      /\ Falling /\ ~scl_oen' => Falling'
      /\ SdaStill /\ (sda' <=> sda) => SdaStill'
      /\ SdaSettles /\ (sda' <=> sda) => SdaSettles'
      /\ SdaFalls /\ (~sda => ~sda') => SdaFalls'
  BY <1>2, Carried
<1>4. High => scl_oen
  BY DEF High
<1>5. Rising => scl_oen
  BY DEF Rising
<1>6. (Low => ~scl_oen) /\ (Falling => ~scl_oen)
  BY DEF Low, Falling
<1>7. bit_state \notin {"idle", "start_d"} => dev_sda' = dev_sda
  BY SdaFree
<1>8. bit_state \notin {"idle", "start_d"} => (sda' <=> sda)
  BY <1>1, <1>7 DEF sda
<1>9. ~sda_oen' => ~sda'
  BY DEF sda
<1>10. CASE bit_state = "idle"
  <2>1. CASE scl_oen
    <3>1. High /\ sda /\ sda_oen /\ SdaSettles
      BY <1>10, <2>1 DEF OnLines
    <3>2. dev_sda'
      BY <1>10, <2>1, <3>1, SdaFree, Zenon DEF sda
    <3>3. sda' /\ sda_oen'
      BY <1>1, <3>1, <3>2 DEF sda
    <3>4. High' /\ SdaSettles'
      BY <1>1, <1>3, <2>1, <3>1, <3>3
    <3>5. QED
      BY <1>1, <1>10, <2>1, <3>3, <3>4 DEF OnLines
  <2>2. CASE ~scl_oen
    <3>1. Falling'
      BY <1>1, <1>3, <1>10, <2>2 DEF OnLines
    <3>2. QED
      BY <1>1, <1>10, <2>2, <3>1 DEF OnLines
  <2>3. QED
    BY <2>1, <2>2
<1>11. CASE bit_state = "start_d"
  <2>1. High /\ ~sda_oen /\ SdaSettles /\ SdaFalls
    BY <1>11 DEF OnLines
  <2>2. ~sda /\ ~sda'
    BY <1>1, <2>1 DEF sda
  <2>3. High' /\ ~sda_oen' /\ SdaSettles' /\ SdaFalls'
    BY <1>1, <1>3, <1>4, <2>1, <2>2
  <2>4. QED
    BY <1>1, <1>11, <2>3 DEF OnLines
<1>12. CASE bit_state \in Addressing /\ bit_state # "start_d"
  BY <1>1, <1>3, <1>4, <1>5, <1>6, <1>8, <1>12 DEF OnLines, Addressing
<1>13. CASE bit_state \in Stopping
  BY <1>1, <1>3, <1>4, <1>5, <1>6, <1>8, <1>13 DEF OnLines, Stopping
<1>14. CASE bit_state \in Getting
  BY <1>1, <1>3, <1>4, <1>5, <1>6, <1>8, <1>14 DEF OnLines, Getting
<1>15. CASE bit_state \in Putting
  BY <1>1, <1>3, <1>4, <1>5, <1>6, <1>8, <1>15 DEF OnLines, Putting
<1>16. QED
  BY <1>10, <1>11, <1>12, <1>13, <1>14, <1>15
  DEF Addressing, Stopping, Getting, Putting, Bit!BitStates

\* Across the end of a quarter.
LEMMA NextQuarterLines ==
    ASSUME Timed, Bit!Tick, PeripheralTick, Dividing, OnLines, Flags, AckSeen, Obeyed,
           ~core_reset, ~i2c_al, clk_en, bit_state \in Bit!BitStates,
           bit_state \in Putting \ {"wr_d"} => core_txd' = core_txd
    PROVE  OnLines'
<1>1. SclModes
  BY LinesModes
<1>2. /\ High /\ scl_oen' => High'
      /\ Low /\ ~scl_oen' => Low'
      /\ SdaStill /\ (sda' <=> sda) => SdaStill'
      /\ SdaFalls /\ (~sda => ~sda') => SdaFalls'
  BY <1>1, Carried
<1>3. (Rising => High) /\ (Falling => Low)
  BY Risen, Fallen
<1>4. (Low /\ scl_oen' => Rising') /\ (High' => Rising')
  BY LowRises, HighRises
<1>5. High /\ SdaStill /\ ~scl_oen' => Falling'
  BY HighFalls
<1>6. SdaSettles' /\ (SdaSettles => SdaStill)
  BY <1>1, SettlingStep
<1>7. SdaStill /\ sda => SdaFalls'
  BY SdaLine
<1>8. bit_state \notin {"idle", "start_d"} => dev_sda' = dev_sda
  BY SdaFree
<1>9. (sda <=> sda_oen /\ dev_sda) /\ (sda' <=> sda_oen' /\ dev_sda')
  BY DEF sda
<1>10. CASE bit_state = "idle"
  <2>1. /\ bit_state' = Bit!FirstQuarter
        /\ scl_oen' = scl_oen /\ sda_oen' = sda_oen
    BY <1>10, NextQuarter
  <2>2. CASE scl_oen
    <3>1. High /\ sda /\ sda_oen /\ SdaStill
      BY <1>6, <1>10, <2>2 DEF OnLines
    <3>2. dev_sda'
      BY <1>9, <1>10, <2>2, <3>1, SdaFree, Zenon
    <3>3. High' /\ sda' /\ sda_oen' /\ SdaStill'
      BY <1>2, <1>9, <2>1, <2>2, <3>1, <3>2
    <3>4. bit_state' \in {"idle", "start_a"}
      BY <1>10, <2>1, <2>2 DEF Bit!FirstQuarter, Obeyed, AckSeen
    <3>5. QED
      BY <1>6, <2>1, <2>2, <3>3, <3>4 DEF OnLines
  <2>3. CASE ~scl_oen
    <3>1. Falling /\ Low
      BY <1>3, <1>10, <2>3 DEF OnLines
    <3>2. Low'
      BY <1>2, <2>1, <2>3, <3>1
    <3>3. Falling'
      BY <1>1, <2>1, <2>3, <3>1, FallingKept
    <3>4. bit_state' \in {"idle", "start_a", "stop_a", "rd_a", "wr_a"}
      BY <2>1 DEF Bit!FirstQuarter
    <3>5. QED
      BY <2>1, <2>3, <3>2, <3>3, <3>4 DEF OnLines
  <2>4. QED
    BY <2>2, <2>3
<1>11. CASE bit_state = "start_a"
  <2>1. bit_state' = "start_b" /\ scl_oen' = scl_oen /\ sda_oen' /\ dev_sda /\ dev_sda'
    BY <1>8, <1>11, NextQuarter DEF Obeyed, Addressing
  <2>2. QED
    BY <1>2, <1>6, <1>9, <1>11, <2>1 DEF OnLines
<1>12. CASE bit_state = "start_b"
  <2>1. bit_state' = "start_c" /\ scl_oen' /\ sda_oen' /\ dev_sda /\ dev_sda'
    BY <1>8, <1>12, NextQuarter DEF Obeyed, Addressing
  <2>2. sda /\ SdaStill /\ (High \/ Low)
    BY <1>6, <1>12 DEF OnLines
  <2>3. QED
    BY <1>2, <1>4, <1>9, <2>1, <2>2 DEF OnLines
<1>13. CASE bit_state = "start_c"
  <2>1. bit_state' = "start_d" /\ scl_oen' /\ ~sda_oen'
    BY <1>13, NextQuarter
  <2>2. High /\ sda /\ SdaStill
    BY <1>3, <1>13 DEF OnLines
  <2>3. QED
    BY <1>2, <1>6, <1>7, <2>1, <2>2 DEF OnLines
<1>14. CASE bit_state = "start_d"
  <2>1. bit_state' = "start_e" /\ scl_oen' /\ ~sda_oen'
    BY <1>14, NextQuarter
  <2>2. High /\ SdaStill /\ ~sda_oen
    BY <1>6, <1>14 DEF OnLines
  <2>3. QED
    BY <1>2, <1>9, <2>1, <2>2 DEF OnLines
<1>15. CASE bit_state = "start_e"
  <2>1. bit_state' = "idle" /\ ~scl_oen'
    BY <1>15, NextQuarter
  <2>2. High /\ SdaStill
    BY <1>15 DEF OnLines
  <2>3. QED
    BY <1>5, <2>1, <2>2 DEF OnLines
<1>16. CASE bit_state = "stop_a"
  <2>1. bit_state' = "stop_b" /\ ~scl_oen' /\ ~sda_oen'
    BY <1>16, NextQuarter
  <2>2. Low
    BY <1>16 DEF OnLines
  <2>3. QED
    BY <1>2, <1>6, <2>1, <2>2 DEF OnLines
<1>17. CASE bit_state = "stop_b"
  <2>1. bit_state' = "stop_c" /\ scl_oen' /\ ~sda_oen'
    BY <1>17, NextQuarter
  <2>2. Low /\ ~sda_oen /\ SdaStill
    BY <1>6, <1>17 DEF OnLines
  <2>3. QED
    BY <1>2, <1>4, <1>9, <2>1, <2>2 DEF OnLines
<1>18. CASE bit_state = "stop_c"
  <2>1. bit_state' = "stop_d" /\ scl_oen' /\ ~sda_oen'
    BY <1>18, NextQuarter
  <2>2. High /\ ~sda_oen /\ SdaStill
    BY <1>3, <1>18 DEF OnLines
  <2>3. QED
    BY <1>2, <1>9, <2>1, <2>2 DEF OnLines
<1>19. CASE bit_state = "stop_d"
  <2>1. bit_state' = "idle" /\ scl_oen' /\ sda_oen' /\ dev_sda'
    BY <1>8, <1>19, NextQuarter DEF Obeyed, Stopping
  <2>2. High
    BY <1>19 DEF OnLines
  <2>3. QED
    BY <1>2, <1>6, <1>9, <2>1, <2>2 DEF OnLines
<1>20. CASE bit_state \in Getting
  <2>1. CASE bit_state \in {"rd_a", "rd_b"}
    BY <1>2, <1>4, <1>6, <1>8, <1>9, <2>1, NextQuarter DEF OnLines
  <2>2. CASE bit_state \in {"rd_c", "rd_d"}
    BY <1>2, <1>3, <1>5, <1>8, <1>9, <2>2, NextQuarter DEF OnLines
  <2>3. QED
    BY <1>20, <2>1, <2>2 DEF Getting
<1>21. CASE bit_state \in Putting
  <2>1. CASE bit_state = "wr_a"
    BY <1>2, <1>6, <2>1, NextQuarter DEF OnLines, Putting
  <2>2. CASE bit_state = "wr_b"
    BY <1>2, <1>4, <1>6, <1>8, <1>9, <2>2, NextQuarter DEF OnLines, Putting
  <2>3. CASE bit_state = "wr_c"
    BY <1>2, <1>3, <1>8, <1>9, <2>3, NextQuarter DEF OnLines, Putting
  <2>4. CASE bit_state = "wr_d"
    BY <1>5, <2>4, NextQuarter DEF OnLines
  <2>5. QED
    BY <1>21, <2>1, <2>2, <2>3, <2>4 DEF Putting
<1>22. QED
  BY <1>10, <1>11, <1>12, <1>13, <1>14, <1>15, <1>16, <1>17, <1>18, <1>19, <1>20, <1>21
  DEF Bit!BitStates, Getting, Putting

-----------------------------------------------------------------------------
(* What is taken from the lines.                                           *)

\* The quarters in which a data bit is on the bus with SCL released.
Sampling == {"rd_c", "rd_d", "wr_c", "wr_d"}

\* In the high phase of a data bit the core takes the bit that the observer
\* takes.
LEMMA DataStep ==
    ASSUME Bit!Tick, ObserverTick, Dividing, OnLines, DataIn, Flags,
           bit_state \in Sampling
    PROVE  /\ dSCL' => (core_rxd' <=> sda)
           /\ was_scl' => bit' = BitSymbol(sda)
<1> USE DEF Sampling
<1>1. SdaStill
  BY DEF OnLines
<1>2. dSCL' <=> sSCL
  BY TickPipes DEF Pipe
<1>3. core_rxd' = IF sSCL /\ ~dSCL THEN sSDA ELSE core_rxd
  BY DEF Bit!Tick, Bit!DataOut
<1>4. dSCL' => (core_rxd' <=> sda)
  BY <1>1, <1>2, <1>3 DEF SdaStill, Still, DataIn
<1>5. ~Fall /\ ~StartSeen /\ ~StopSeen
  BY EventsInTurn DEF Bit!BitStates
<1>6. was_scl' = scl /\ bit' = IF Rise THEN BitSymbol(sda) ELSE bit
  BY <1>5 DEF ObserverTick
<1>7. was_scl' => bit' = BitSymbol(sda)
  BY <1>6 DEF Rise, DataIn
<1>8. QED
  BY <1>4, <1>7

\* Between two quarters of a data bit SDA does not move.
LEMMA DataHolds ==
    ASSUME Bit!Tick, PeripheralTick, OnLines, Flags, ~core_reset, ~i2c_al,
           bit_state \in {"rd_b", "rd_c", "rd_d", "wr_b", "wr_c", "wr_d"}
    PROVE  sda' <=> sda
<1>1. dev_sda' = dev_sda
  BY SdaFree DEF Bit!BitStates
<1>2. sda_oen' <=> sda_oen
  <2>1. CASE ~clk_en
    BY <2>1, DriveStep
  <2>2. CASE clk_en
    <3>1. bit_state \in Bit!BitStates
      BY DEF Bit!BitStates
    <3>2. CASE bit_state \in {"rd_b", "rd_c", "rd_d"}
      BY <2>2, <3>1, <3>2, NextQuarter DEF OnLines
    <3>3. CASE bit_state \in {"wr_b", "wr_c", "wr_d"}
      BY <2>2, <3>1, <3>3, NextQuarter DEF OnLines
    <3>4. QED
      BY <3>2, <3>3
  <2>3. QED
    BY <2>1, <2>2
<1>3. QED
  BY <1>1, <1>2 DEF sda

\* The state of the bit controller before a given one.
LEMMA QuarterBefore ==
    ASSUME Bit!Tick, ~core_reset, ~i2c_al, bit_state \in Bit!BitStates
    PROVE  /\ bit_state' = "start_d" => bit_state = "start_c" \/ bit_state = "start_d"
           /\ bit_state' = "start_e" => bit_state = "start_d" \/ bit_state = "start_e"
           /\ bit_state' \in Sampling =>
                bit_state \in Sampling \/ (clk_en /\ bit_state \in {"rd_b", "wr_b"})
           /\ bit_state' = "idle" =>
                \/ clk_en /\ bit_state \in Bit!LastQuarters /\ core_ack'
                \/ bit_state = "idle" /\ scl_oen' = scl_oen /\ ~core_ack'
<1> USE DEF Sampling, Bit!LastQuarters
<1>1. core_ack' = (clk_en /\ bit_state \in Bit!LastQuarters)
  BY DriveStep
<1>2. CASE ~clk_en
  BY <1>1, <1>2, DriveStep, Zenon
<1>3. CASE clk_en
  <2>1. CASE bit_state = "idle"
    BY <1>1, <1>3, <2>1, NextQuarter, Zenon DEF Bit!FirstQuarter
  <2>2. CASE bit_state \in Addressing \cup Stopping
    BY <1>1, <1>3, <2>2, NextQuarter, Zenon DEF Addressing, Stopping
  <2>3. CASE bit_state \in Getting \cup Putting
    BY <1>1, <1>3, <2>3, NextQuarter, Zenon DEF Getting, Putting
  <2>4. QED
    BY <2>1, <2>2, <2>3 DEF Bit!BitStates, Addressing, Stopping, Getting, Putting
<1>4. QED
  BY <1>2, <1>3

\* So the bit is the same for core and observer after the clock.
LEMMA DataInStep ==
    ASSUME Bit!Tick, ObserverTick, PeripheralTick, Dividing, OnLines, DataIn, Flags,
           ~core_reset, ~i2c_al, bit_state \in Bit!BitStates
    PROVE  DataIn'
<1>1. ASSUME bit_state' \in Sampling
      PROVE  (dSCL' => (core_rxd' <=> sda')) /\ (was_scl' => bit' = BitSymbol(sda'))
  <2>1. CASE bit_state \in Sampling
    <3>1. sda' <=> sda
      BY <2>1, DataHolds DEF Sampling
    <3>2. QED
      BY <2>1, <3>1, DataStep DEF BitSymbol
  <2>2. CASE bit_state \in {"rd_b", "wr_b"}
    <3>1. Low
      BY <2>2 DEF OnLines
    <3>2. ~dSCL'
      BY <3>1, TickPipes DEF Low, scl, SclStill, Still, Pipe
    <3>3. ~was_scl'
      BY <3>1, Zenon DEF ObserverTick, Low, scl
    <3>4. QED
      BY <3>2, <3>3
  <2>3. QED
    BY <1>1, <2>1, <2>2, QuarterBefore
<1>2. ASSUME bit_state' \in {"start_d", "start_e"}, ~was_sda' PROVE bit' = "none"
  <2>1. ~sda
    BY <1>2 DEF ObserverTick
  <2>2. bit_state # "start_c"
    BY <2>1 DEF OnLines
  <2>3. bit_state \in {"start_d", "start_e"}
    BY <1>2, <2>2, QuarterBefore
  <2>4. High
    BY <2>3 DEF OnLines
  <2>5. scl /\ was_scl
    BY <2>4 DEF High, SclStill, Still, Flags
  <2>6. QED
    BY <2>1, <2>3, <2>5 DEF ObserverTick, Rise, StartSeen, DataIn
<1>3. QED
  BY <1>1, <1>2 DEF DataIn, Sampling

\* No STOP is seen, and no arbitration checked, but where the core expects it.
LEMMA FlagsStep ==
    ASSUME Timed, Bit!Tick, ObserverTick, Dividing, OnLines, Flags,
           ~core_reset, ~i2c_al, bit_state \in Bit!BitStates
    PROVE  Flags'
<1>1. (was_scl' <=> cSCL'[2]) /\ (was_sda' <=> cSDA'[2])
  BY TickPipes DEF ObserverTick, Pipe
<1>2. sda_chk' => bit_state' = "wr_d"
  <2>1. CASE clk_en
    BY <2>1, NextQuarter
  <2>2. CASE ~clk_en
    BY <2>2, DriveStep, Zenon DEF Flags
  <2>3. QED
    BY <2>1, <2>2
<1>3. ASSUME sto_condition' PROVE bit_state' = "idle"
  <2>1. sSDA /\ ~dSDA /\ sSCL
    BY <1>3, Zenon DEF Bit!Tick, Bit!BusState
  <2>2. ~SdaStill /\ ~SdaFalls
    BY <2>1 DEF SdaStill, SdaFalls, Still, Moves
  <2>3. ~Low
    BY <2>1 DEF Low, scl, SclStill, Still
  <2>4. bit_state = "idle"
    <3>1. CASE bit_state \in Addressing \cup Stopping
      BY <2>2, <2>3, <3>1 DEF OnLines, Addressing, Stopping
    <3>2. CASE bit_state \in Getting \cup Putting
      BY <2>2, <2>3, <3>2 DEF OnLines, Getting, Putting
    <3>3. QED
      BY <3>1, <3>2 DEF Bit!BitStates, Addressing, Stopping, Getting, Putting
  <2>5. ~clk_en
    <3>1. SUFFICES ASSUME clk_en PROVE FALSE
      OBVIOUS
    <3>2. CASE scl_oen
      <4>1. SdaStill
        BY <2>4, <3>1, <3>2, LinesModes, SettlingStep DEF OnLines
      <4>2. QED
        BY <2>2, <4>1
    <3>3. CASE ~scl_oen
      <4>1. Low
        BY <2>4, <3>1, <3>3, Fallen DEF OnLines
      <4>2. QED
        BY <2>3, <4>1
    <3>4. QED
      BY <3>2, <3>3
  <2>6. QED
    BY <2>4, <2>5, DriveStep
<1>4. QED
  BY <1>1, <1>2, <1>3 DEF Flags

-----------------------------------------------------------------------------
(* The bit controller serves.                                              *)

\* The core never takes the peripheral for another controller.
LEMMA NothingLost ==
    ASSUME Bit!Tick, Lines, Obeyed
    PROVE  i2c_al' = FALSE
<1>1. ~(sda_chk /\ ~sSDA /\ sda_oen)
  BY DEF Lines, Flags, OnLines, SdaStill, Still, Obeyed, Putting, sda
<1>2. ~(bit_state # "idle" /\ sto_condition)
  BY DEF Lines, Flags
<1>3. Bit!Arbitration
  BY DEF Bit!Tick
<1>4. QED
  BY <1>1, <1>2, <1>3 DEF Bit!Arbitration

\* The serving state of the quarters.
LEMMA ServingOf ==
    /\ Serving = "NOP" <=> bit_state \notin Addressing \cup Stopping \cup Getting \cup Putting
    /\ Serving = "START" <=> bit_state \in Addressing
    /\ Serving = "STOP" <=> bit_state \in Stopping
    /\ Serving = "READ" <=> bit_state \in Getting
    /\ Serving = "WRITE" <=> bit_state \in Putting
BY DEF Serving, Addressing, Stopping, Getting, Putting

\* And after the clock.
LEMMA ServingOfNext ==
    /\ Serving' = "NOP" <=> bit_state' \notin Addressing \cup Stopping \cup Getting \cup Putting
    /\ Serving' = "START" <=> bit_state' \in Addressing
    /\ Serving' = "STOP" <=> bit_state' \in Stopping
    /\ Serving' = "READ" <=> bit_state' \in Getting
    /\ Serving' = "WRITE" <=> bit_state' \in Putting
BY DEF Serving, Addressing, Stopping, Getting, Putting

\* One clock of the bit controller is a step of the bit service.
LEMMA ServiceStep ==
    ASSUME Timed, Bit!Tick, Lines, Obeyed, ~i2c_al, Bit!TypeOK,
           core_cmd \in Byte!BitCommands, core_txd \in BOOLEAN
    PROVE  T!Bit!Next
<1> USE DEF Addressing, Stopping, Getting, Putting
<1>1. ~core_reset /\ Dividing /\ OnLines /\ SclModes /\ bit_state \in Bit!BitStates
  BY LinesModes DEF Lines, Dividing, Bit!TypeOK
<1>2. i2c_al' = FALSE
  BY NothingLost
<1>3. core_rxd' = IF sSCL /\ ~dSCL THEN sSDA ELSE core_rxd
  BY DEF Bit!Tick, Bit!DataOut
<1>4. core_rxd \in BOOLEAN /\ sSDA \in BOOLEAN /\ sda_oen \in BOOLEAN
  BY DEF Bit!TypeOK
<1>5. core_rxd' \in BOOLEAN
  BY <1>3, <1>4
<1>6. core_ack' = (clk_en /\ bit_state \in Bit!LastQuarters)
  BY <1>1, DriveStep
<1>7. clk_en => ~clk_en'
  BY <1>1, DividerStep
<1>8. bit_state = "idle" => Serving = "NOP" /\ Age = 0
  BY DEF Serving, Age
<1>9. bit_state' = "idle" => Serving' = "NOP" /\ Age' = 0
  BY DEF Serving, Age
<1>10. CASE bit_state = "idle" /\ clk_en /\ core_cmd # "NOP"
  <2>1. bit_state' = Bit!FirstQuarter
    BY <1>1, <1>10, NextQuarter
  <2>2. Serving' = core_cmd /\ bit_state' \in FirstQuarters
    BY <1>10, <2>1 DEF Serving, Bit!FirstQuarter, FirstQuarters, Byte!BitCommands
  <2>3. Age' = 0
    BY <1>7, <1>10, <2>2 DEF Age
  <2>4. ~core_ack
    BY <1>10 DEF Lines, AckSeen
  <2>5. core_ack' = FALSE
    BY <1>6, <1>10, Zenon DEF Bit!LastQuarters
  <2>6. QED
    BY <1>1, <1>2, <1>5, <1>8, <1>10, <2>2, <2>3, <2>4, <2>5
    DEF T!Bit!Next, T!Bit!Accept, T!Bit!Free
<1>11. CASE bit_state = "idle" /\ ~(clk_en /\ core_cmd # "NOP")
  <2>1. bit_state' = "idle"
    <3>1. CASE clk_en
      BY <1>1, <1>11, <3>1, NextQuarter DEF Bit!FirstQuarter
    <3>2. CASE ~clk_en
      BY <1>1, <1>11, <3>2, DriveStep
    <3>3. QED
      BY <3>1, <3>2
  <2>2. core_ack' = FALSE
    BY <1>6, <1>11, Zenon DEF Bit!LastQuarters
  <2>3. ~(sSCL /\ ~dSCL)
    <3>1. CASE scl_oen
      BY <1>1, <1>11, <3>1 DEF OnLines, High, SclStill, Still
    <3>2. CASE ~scl_oen
      BY <1>1, <1>11, <3>2 DEF OnLines, Falling, SclFalls, Moves
    <3>3. QED
      BY <3>1, <3>2
  <2>4. core_rxd' = core_rxd
    BY <1>3, <2>3
  <2>5. QED
    BY <1>1, <1>2, <1>5, <1>8, <1>9, <1>11, <2>1, <2>2, <2>4
    DEF T!Bit!Next, T!Bit!Rest, T!Bit!Free
<1>12. CASE clk_en /\ bit_state \in Bit!LastQuarters
  <2>1. bit_state' = "idle"
    BY <1>1, <1>12, NextQuarter DEF Bit!LastQuarters
  <2>2. Serving # "NOP" /\ Age = 1
    BY <1>12 DEF Serving, Age, Bit!LastQuarters, FirstQuarters
  <2>3. core_ack' = TRUE
    BY <1>6, <1>12, Zenon
  <2>4. ASSUME Serving = "WRITE" PROVE core_rxd' = core_txd
    <3>1. bit_state = "wr_d"
      BY <1>12, <2>4, ServingOf DEF Bit!LastQuarters
    <3>2. High /\ SdaStill /\ (sda_oen <=> core_txd) /\ dev_sda
      BY <1>1, <3>1 DEF OnLines, Obeyed
    <3>3. sSCL /\ dSCL
      BY <3>2 DEF High, SclStill, Still
    <3>4. core_rxd' = core_rxd /\ (core_rxd <=> sda)
      BY <1>3, <3>1, <3>3 DEF DataIn, Lines
    <3>5. core_rxd <=> core_txd
      BY <3>2, <3>4 DEF sda
    <3>6. QED
      BY <1>4, <3>4, <3>5
  <2>5. QED
    BY <1>1, <1>2, <1>5, <1>9, <2>1, <2>2, <2>3, <2>4, Zenon
    DEF T!Bit!Next, T!Bit!Finish, T!Bit!Free
<1>13. CASE bit_state # "idle" /\ ~(clk_en /\ bit_state \in Bit!LastQuarters)
  <2>1. core_ack' = FALSE
    BY <1>6, <1>13, Zenon
  <2>2. CASE ~clk_en
    <3>1. bit_state' = bit_state
      BY <1>1, <2>2, DriveStep
    <3>2. Serving # "NOP" /\ Serving' = Serving
      BY <1>1, <1>13, <3>1 DEF Serving, Bit!BitStates
    <3>3. Age' \in {Age, Age + 1} \cap 0..1
      <4>1. Age \in {0, 1} /\ Age' \in {0, 1} /\ (Age = 1 => Age' = 1)
        BY <1>13, <2>2, <3>1 DEF Age
      <4>2. CASE Age = 0
        BY <4>1, <4>2
      <4>3. CASE Age = 1
        BY <4>1, <4>3
      <4>4. QED
        BY <4>1, <4>2, <4>3
    <3>4. QED
      BY <1>1, <1>2, <1>5, <2>1, <3>2, <3>3 DEF T!Bit!Next, T!Bit!Work, T!Bit!Free
  <2>3. CASE clk_en
    <3>1. /\ Serving # "NOP" /\ Serving' = Serving
          /\ bit_state' # "idle" /\ bit_state' \notin FirstQuarters
      <4>1. CASE bit_state \in Addressing \cup Stopping
        BY <1>1, <1>13, <2>3, <4>1, NextQuarter
        DEF Serving, FirstQuarters, Bit!LastQuarters
      <4>2. CASE bit_state \in Getting \cup Putting
        BY <1>1, <1>13, <2>3, <4>2, NextQuarter
        DEF Serving, FirstQuarters, Bit!LastQuarters
      <4>3. QED
        BY <1>1, <1>13, <4>1, <4>2 DEF Bit!BitStates
    <3>2. Age = 1 /\ Age' = 1
      BY <1>13, <2>3, <3>1 DEF Age
    <3>3. Age' \in {Age, Age + 1} \cap 0..1
      BY <3>2
    <3>4. QED
      BY <1>1, <1>2, <1>5, <2>1, <3>1, <3>3 DEF T!Bit!Next, T!Bit!Work, T!Bit!Free
  <2>4. QED
    BY <2>2, <2>3
<1>14. QED
  BY <1>10, <1>11, <1>12, <1>13 DEF Bit!LastQuarters

-----------------------------------------------------------------------------
(* The layers above, in the terms of I2CTransferProofs.                    *)

\* The two instances of the modules above the bit controller agree: a clock of
\* the byte controller here is one there.
LEMMA SameByteTick ==
    ASSUME Byte!Tick
    PROVE  T!Byte!Tick
<1>1. Byte!ShiftRegister => T!Byte!ShiftRegister
  BY DEF Byte!ShiftRegister, T!Byte!ShiftRegister, Byte!ShiftIn, T!Byte!ShiftIn,
     Byte!BitValue, T!Byte!BitValue
<1>2. Byte!BitCounter => T!Byte!BitCounter
  BY DEF Byte!BitCounter, T!Byte!BitCounter
<1>3. Byte!StateMachine => T!Byte!StateMachine
  <2>1. Byte!Abort => T!Byte!Abort
    BY DEF Byte!Abort, T!Byte!Abort, Byte!Goto, T!Byte!Goto, Byte!Strobes, T!Byte!Strobes
  <2>2. Byte!Idle => T!Byte!Idle
    BY DEF Byte!Idle, T!Byte!Idle, Byte!go, T!Byte!go, Byte!Goto, T!Byte!Goto,
       Byte!FirstCommand, T!Byte!FirstCommand, Byte!Strobes, T!Byte!Strobes,
       Byte!Msb, T!Byte!Msb
  <2>3. Byte!Pending => T!Byte!Pending
    BY DEF Byte!Pending, T!Byte!Pending, Byte!Strobes, T!Byte!Strobes, Byte!Msb, T!Byte!Msb
  <2>4. Byte!Started => T!Byte!Started
    BY DEF Byte!Started, T!Byte!Started, Byte!Goto, T!Byte!Goto, Byte!Strobes,
       T!Byte!Strobes, Byte!Msb, T!Byte!Msb
  <2>5. Byte!BitWritten => T!Byte!BitWritten
    BY DEF Byte!BitWritten, T!Byte!BitWritten, Byte!Goto, T!Byte!Goto, Byte!Strobes,
       T!Byte!Strobes, Byte!Msb, T!Byte!Msb, Byte!cnt_done, T!Byte!cnt_done
  <2>6. Byte!BitRead => T!Byte!BitRead
    BY DEF Byte!BitRead, T!Byte!BitRead, Byte!Goto, T!Byte!Goto, Byte!Strobes,
       T!Byte!Strobes, Byte!cnt_done, T!Byte!cnt_done
  <2>7. Byte!Acknowledged => T!Byte!Acknowledged
    BY DEF Byte!Acknowledged, T!Byte!Acknowledged, Byte!Goto, T!Byte!Goto, Byte!Strobes,
       T!Byte!Strobes
  <2>8. Byte!Stopped => T!Byte!Stopped
    BY DEF Byte!Stopped, T!Byte!Stopped, Byte!Goto, T!Byte!Goto, Byte!Strobes,
       T!Byte!Strobes, Byte!Msb, T!Byte!Msb
  <2>9. QED
    BY <2>1, <2>2, <2>3, <2>4, <2>5, <2>6, <2>7, <2>8
    DEF Byte!StateMachine, T!Byte!StateMachine
<1>4. QED
  BY <1>1, <1>2, <1>3 DEF Byte!Tick, T!Byte!Tick

\* So is one of byte controller and wrapper.
LEMMA SameCoreTick ==
    ASSUME CoreTick, DriverTick, OutcomeTick
    PROVE  T!Byte!Tick /\ T!CsrTick /\ T!DriverTick /\ T!OutcomeTick
<1>1. T!Byte!Tick
  BY SameByteTick DEF CoreTick
<1>2. T!CsrTick
  BY DEF CoreTick, CsrTick, T!CsrTick, CommandAfter, T!CommandAfter, NoCommand, T!NoCommand
<1>3. T!DriverTick
  BY DEF DriverTick, T!DriverTick
<1>4. T!OutcomeTick
  BY DEF OutcomeTick, T!OutcomeTick
<1>5. QED
  BY <1>1, <1>2, <1>3, <1>4

\* The transactions are the same.
LEMMA SameTxns == Txns = T!Txns
BY DEF Txns, T!Txns, ReadTxn, T!ReadTxn, WriteTxn, T!WriteTxn, GeneralCallReset,
   T!GeneralCallReset, SecondByte, T!SecondByte, TxChar, T!TxChar, RxChar, T!RxChar

\* So are the types of the wrapper's registers,
LEMMA SameCsrTypes == CsrTypeOK <=> T!CsrTypeOK
BY DEF CsrTypeOK, T!CsrTypeOK, Command, T!Command

\* of those of the byte controller,
LEMMA SameByteTypes == Byte!TypeOK <=> T!Byte!TypeOK
BY DEF Byte!TypeOK, T!Byte!TypeOK, Byte!ByteStates, T!Byte!ByteStates, Byte!BitCommands,
   T!Byte!BitCommands

\* of the driver's variables
LEMMA SameDriverTypes == DriverTypeOK <=> T!DriverTypeOK
BY SameTxns DEF DriverTypeOK, T!DriverTypeOK, PCs, T!PCs

\* and of the history.
LEMMA SameHistoryTypes == HistoryTypeOK <=> T!HistoryTypeOK
BY DEF HistoryTypeOK, T!HistoryTypeOK, Symbols, T!Symbols

-----------------------------------------------------------------------------
(* The byte controller keeps its part.                                     *)

\* While a bit command is served the byte controller moves nothing but the bit
\* on offer.
LEMMA CommandHeld ==
    ASSUME T!IInv, T!Offering, CoreTick, ~core_reset, ~i2c_al, Serving # "NOP"
    PROVE  /\ byte_state # "IDLE" /\ ~core_ack /\ ~done /\ ~shift /\ ~ld
           /\ byte_state' = byte_state /\ core_cmd' = core_cmd
           /\ ~shift' /\ ~ld' /\ ~done'
           /\ rxr' = rxr /\ dcnt' = dcnt /\ rxack' = rxack
           /\ core_txd' = T!Offered /\ T!Offered' = T!Offered
<1>1. byte_state # "IDLE" /\ ~core_ack /\ ~done
  BY DEF T!IInv, T!Handshake
<1>2. ~shift /\ ~ld
  BY DEF T!Offering
<1>3. Byte!Pending
  BY <1>1, Zenon
  DEF CoreTick, Byte!Tick, Byte!StateMachine, Byte!Abort, Byte!Idle, Byte!Started,
      Byte!BitWritten, Byte!BitRead, Byte!Acknowledged, Byte!Stopped
<1>4. byte_state' = byte_state /\ core_cmd' = core_cmd /\ rxack' = rxack
      /\ ~shift' /\ ~ld' /\ ~done'
  BY <1>3 DEF Byte!Pending, Byte!Strobes
<1>5. rxr' = rxr /\ dcnt' = dcnt
  BY <1>2 DEF CoreTick, Byte!Tick, Byte!ShiftRegister, Byte!BitCounter
<1>6. core_txd' = T!Offered
  BY <1>1, <1>3 DEF Byte!Pending, T!Offered, Byte!Msb, T!Byte!Msb
<1>7. command'.ACK = command.ACK
  BY <1>1 DEF CoreTick, CsrTick, CommandAfter
<1>8. T!Offered' = T!Offered
  BY <1>4, <1>5, <1>7 DEF T!Offered, T!Byte!Msb
<1>9. QED
  BY <1>1, <1>2, <1>4, <1>5, <1>6, <1>8

\* At rest nothing is served and nothing asked for.
LEMMA AtRest ==
    ASSUME T!IInv, ~T!Pending
    PROVE  T!Settled
BY DEF T!IInv, T!Pending, T!Resting, T!Over

\* The byte controller does its part.
LEMMA Obeys ==
    ASSUME T!IInv, Lines, NeverLost, Together, dcnt \in 0..7
    PROVE  Obeyed
<1>1. CASE ~T!Pending
  <2>1. Serving = "NOP" /\ core_cmd = "NOP"
    BY <1>1, AtRest DEF T!Settled
  <2>2. QED
    BY <2>1, ServingOf DEF Obeyed
<1>2. CASE T!Pending
  <2>1. T!Turn /\ InStep(txn[k]) /\ Drives
    BY <1>2 DEF Together, InTurn
  <2>2. Serving \in {"NOP", core_cmd} /\ core_cmd = T!BitCommandOf(txn[k], byte_state)
    BY <2>1 DEF T!Turn, T!ThisOp
  <2>3. ASSUME Serving \in {"START", "STOP", "WRITE"} PROVE dev_sda
    <3>1. core_cmd = Serving
      BY <2>2, <2>3
    <3>2. CASE core_cmd = "START"
      <4>1. byte_state = "START"
        BY <2>2, <3>2 DEF T!BitCommandOf
      <4>2. QED
        BY <2>1, <4>1 DEF InStep, Drives
    <3>3. CASE core_cmd = "STOP"
      <4>1. byte_state = "STOP"
        BY <2>2, <3>3 DEF T!BitCommandOf
      <4>2. QED
        BY <2>1, <4>1 DEF InStep, Drives
    <3>4. CASE core_cmd = "WRITE" /\ byte_state = "WRITE"
      <4>1. role \in {"address", "listen"} /\ nbit = BitsGone
        BY <2>1, <3>4 DEF InStep, Addressed
      <4>2. nbit # 8
        BY <2>1, <3>4, <4>1 DEF BitsGone, T!Turn
      <4>3. QED
        BY <2>1, <4>1, <4>2 DEF Drives
    <3>5. CASE core_cmd = "WRITE" /\ byte_state # "WRITE"
      <4>1. byte_state = "ACK" /\ txn[k].rx
        BY <2>2, <3>5 DEF T!BitCommandOf
      <4>2. QED
        BY <2>1, <4>1 DEF InStep, Drives
    <3>6. QED
      BY <2>3, <3>1, <3>2, <3>3, <3>4, <3>5
  <2>4. ASSUME bit_state = "idle", scl_oen, ~core_ack PROVE core_cmd \in {"NOP", "START"}
    BY <2>1, <2>2, <2>4 DEF InStep, Owned, T!BitCommandOf
  <2>5. QED
    BY <2>2, <2>3, <2>4, ServingOf DEF Obeyed
<1>3. QED
  BY <1>1, <1>2

-----------------------------------------------------------------------------
(* One clock of the enabled core.                                          *)

\* Of a clock, the parts that the lines depend on.
Ticking == CoreTick /\ Bit!Tick /\ ObserverTick /\ PeripheralTick

\* The last clock of a bit command.
LEMMA AckStep ==
    ASSUME Timed, Ticking, Lines, Obeyed, T!IInv, T!Offering, T!Bit!Next,
           ~core_reset, ~i2c_al, bit_state \in Bit!BitStates, core_ack'
    PROVE  /\ bit_state' = "idle" /\ ~clk_en'
           /\ IF core_cmd' = "STOP" THEN scl_oen' /\ was_scl' /\ ~was_sda'
              ELSE ~scl_oen' /\ was_scl'
           /\ core_cmd' \in {"READ", "WRITE"} => bit' = BitSymbol(core_rxd')
           /\ core_cmd' = "WRITE" => (core_rxd' <=> T!Offered')
           /\ core_cmd' = "START" => bit' = "none"
<1>1. Bit!Tick /\ CoreTick /\ ObserverTick /\ PeripheralTick
  BY DEF Ticking
<1>2. clk_en /\ bit_state \in Bit!LastQuarters
  BY <1>1, DriveStep, Zenon
<1>3. Serving # "NOP" /\ Serving = core_cmd
  BY <1>2 DEF Serving, Obeyed, Bit!LastQuarters
<1>4. core_cmd' = core_cmd /\ T!Offered' = T!Offered
  BY <1>1, <1>3, CommandHeld
<1>5. /\ core_cmd = "START" <=> bit_state = "start_e"
      /\ core_cmd = "STOP" <=> bit_state = "stop_d"
      /\ core_cmd = "READ" <=> bit_state = "rd_d"
      /\ core_cmd = "WRITE" <=> bit_state = "wr_d"
  BY <1>2, <1>3 DEF Serving, Bit!LastQuarters
<1>6. Dividing /\ OnLines /\ DataIn /\ Flags /\ SclModes
  BY LinesModes DEF Lines
<1>7. High /\ SdaStill
  BY <1>2, <1>6 DEF OnLines, Bit!LastQuarters
<1>8. bit_state' = "idle" /\ (scl_oen' <=> core_cmd = "STOP")
  BY <1>1, <1>2, <1>5, NextQuarter DEF Bit!LastQuarters
<1>9. ~clk_en'
  BY <1>1, <1>2, <1>6, DividerStep
<1>10. was_scl' /\ (was_sda' <=> sda)
  BY <1>1, <1>7 DEF ObserverTick, High
<1>11. core_cmd = "STOP" => ~was_sda'
  BY <1>5, <1>6, <1>10 DEF OnLines, sda
<1>12. dSCL'
  BY <1>1, <1>6, <1>7, TickPipes DEF High, SclStill, Still, Pipe
<1>13. ASSUME core_cmd \in {"READ", "WRITE"} PROVE bit' = BitSymbol(core_rxd')
  <2>1. bit_state \in Sampling
    BY <1>5, <1>13 DEF Sampling
  <2>2. (core_rxd' <=> sda) /\ bit' = BitSymbol(sda)
    BY <1>1, <1>6, <1>10, <1>12, <2>1, DataStep
  <2>3. QED
    BY <2>2 DEF BitSymbol
<1>14. ASSUME core_cmd = "WRITE" PROVE core_rxd' <=> T!Offered'
  <2>1. core_rxd' = core_txd
    BY <1>2, <1>3, <1>14, NothingLost, <1>1
    DEF T!Bit!Next, T!Bit!Abort, T!Bit!Accept, T!Bit!Rest, T!Bit!Work, T!Bit!Finish, T!Bit!Free
  <2>2. Age # 0
    BY <1>2 DEF Age, Bit!LastQuarters, FirstQuarters
  <2>3. core_txd = T!Offered
    BY <1>3, <2>2 DEF T!Offering
  <2>4. QED
    BY <1>4, <2>1, <2>3
<1>15. ASSUME core_cmd = "START" PROVE bit' = "none"
  <2>1. bit_state = "start_e" /\ ~sda
    BY <1>5, <1>6, <1>15 DEF OnLines, sda
  <2>2. scl /\ was_scl /\ ~was_sda
    BY <1>6, <1>7, <2>1 DEF High, SclStill, SdaStill, Still, Flags
  <2>3. bit = "none"
    BY <1>6, <2>1, <2>2 DEF DataIn
  <2>4. QED
    BY <1>1, <2>2, <2>3 DEF ObserverTick, Rise
<1>16. QED
  BY <1>4, <1>8, <1>9, <1>10, <1>11, <1>13, <1>14, <1>15

\* What is seen of the lines in the clock of cmd_ack and at rest.
LEMMA AckSeenStep ==
    ASSUME Timed, Ticking, Lines, Obeyed, T!IInv, T!Offering, T!Bit!Next,
           ~core_reset, ~i2c_al, bit_state \in Bit!BitStates
    PROVE  AckSeen'
<1>1. Bit!Tick /\ ObserverTick
  BY DEF Ticking
<1>2. ASSUME ~core_ack', bit_state' = "idle"
      PROVE  IF scl_oen' THEN was_sda' ELSE ~was_scl'
  <2>1. bit_state = "idle" /\ scl_oen' = scl_oen
    BY <1>1, <1>2, QuarterBefore
  <2>2. IF scl_oen THEN sda ELSE ~scl
    BY <2>1 DEF Lines, OnLines, scl
  <2>3. QED
    BY <1>1, <2>1, <2>2 DEF ObserverTick
<1>3. QED
  BY <1>2, AckStep DEF AckSeen

\* The lines from one clock of the enabled core to the next.
LEMMA LinesStep ==
    ASSUME Timed, Ticking, Lines, Obeyed, T!IInv, T!Offering, T!Bit!Next,
           ~i2c_al, bit_state \in Bit!BitStates
    PROVE  Lines'
<1>1. Bit!Tick /\ CoreTick /\ ObserverTick /\ PeripheralTick
  BY DEF Ticking
<1>2. Dividing /\ OnLines /\ DataIn /\ Flags /\ AckSeen /\ SclModes /\ ~core_reset
  BY LinesModes DEF Lines, Dividing
<1>3. Dividing'
  BY <1>1, <1>2, DividingKept DEF CoreTick
<1>4. ASSUME bit_state \in Putting, ~clk_en \/ bit_state # "wr_d"
      PROVE  core_txd' = core_txd \/ (bit_state = "wr_a" /\ ~clk_en)
  <2>1. Serving # "NOP"
    BY <1>4, ServingOf
  <2>2. core_txd' = T!Offered
    BY <1>1, <1>2, <2>1, CommandHeld
  <2>3. Age # 0 \/ (bit_state = "wr_a" /\ ~clk_en)
    BY <1>4 DEF Age, Putting, FirstQuarters
  <2>4. QED
    BY <2>1, <2>2, <2>3 DEF T!Offering
<1>5. OnLines'
  <2>1. CASE clk_en
    BY <1>1, <1>2, <1>4, <2>1, NextQuarterLines
  <2>2. CASE ~clk_en
    BY <1>1, <1>2, <1>4, <2>2, QuarterLines
  <2>3. QED
    BY <2>1, <2>2
<1>6. DataIn' /\ Flags'
  BY <1>1, <1>2, DataInStep, FlagsStep
<1>7. AckSeen'
  BY <1>2, AckSeenStep
<1>8. QED
  BY <1>3, <1>5, <1>6, <1>7 DEF Lines

-----------------------------------------------------------------------------
(* The transactions, as the peripheral sees them.                          *)

\* An operation after which the peripheral talks.
CallsForReply(op) == op.rx \/ (op.sta /\ BitOf(op.byte, 0))

\* An operation that another follows, and the last one.
Leads(op, next) ==
    /\ ~op.sto /\ ~(op.rx /\ op.nack)
    /\ next.rx <=> CallsForReply(op)

\* The last operation: it ends with a STOP, a read with a refusal too, so that
\* the peripheral does not talk after it.
Ends(op) ==
    /\ op.sto
    /\ op.rx => op.nack
    /\ ~op.rx => ~CallsForReply(op)

\* What the transactions of i2c.c have in common: a byte is received only after
\* a read address or another byte that was acknowledged, and the peripheral is
\* silent at the end.
Shape(t) ==
    \A i \in 1..Len(t) :
        /\ t[i].rx => ~t[i].sta
        /\ IF i = Len(t) THEN Ends(t[i]) ELSE Leads(t[i], t[i + 1])

\* A transmit that another one may follow.
Plain(op) == ~op.rx /\ ~op.sto /\ ~CallsForReply(op)

\* Bit 0 of a byte is its parity.
LEMMA Parity == \A x \in 0..255 : BitOf(x, 0) <=> x % 2 = 1
<1> SUFFICES ASSUME NEW x \in 0..255 PROVE BitOf(x, 0) <=> x % 2 = 1
  OBVIOUS
<1>1. 2^0 = 1 /\ x \div 1 = x
  OBVIOUS
<1>2. QED
  BY <1>1 DEF BitOf

\* An address with its read bit, as it is sent.
LEMMA AddressByte ==
    ASSUME NEW a \in Addrs
    PROVE  ~BitOf((2 * a) % 256, 0) /\ BitOf((2 * a + 1) % 256, 0)
<1>1. a \in 0..127
  BY AddrsAssumption
<1>2. /\ (2 * a) % 256 \in 0..255 /\ ((2 * a) % 256) % 2 # 1
      /\ (2 * a + 1) % 256 \in 0..255 /\ ((2 * a + 1) % 256) % 2 = 1
  BY <1>1
<1>3. QED
  BY <1>2, Parity

\* The first n operations of a transaction, and the m others.
PlainHead(t, n) == n \in Nat /\ \A i \in 1..n : Plain(t[i])

\* The operations that follow plain ones.
ShapedTail(v, m) ==
    /\ m \in Nat /\ m >= 1 /\ ~v[1].rx
    /\ \A j \in 1..m :
         /\ v[j].rx => ~v[j].sta
         /\ IF j = m THEN Ends(v[j]) ELSE Leads(v[j], v[j + 1])

\* Three operations of the right kinds have the shape of a transaction.
LEMMA ShapeAssembled ==
    ASSUME NEW t, NEW n, NEW v, NEW m, PlainHead(t, n), ShapedTail(v, m),
           Len(t) = n + m, \A j \in 1..m : t[n + j] = v[j]
    PROVE  Shape(t)
<1>0. n \in Nat /\ m \in Nat /\ m >= 1
  BY DEF PlainHead, ShapedTail
<1> SUFFICES ASSUME NEW i \in 1..(n + m)
             PROVE  /\ t[i].rx => ~t[i].sta
                    /\ IF i = n + m THEN Ends(t[i]) ELSE Leads(t[i], t[i + 1])
  BY DEF Shape
<1>1. \A j \in 1..n : Plain(t[j])
  BY DEF PlainHead
<1>2. ~t[n + 1].rx
  BY <1>0 DEF ShapedTail
<1>3. CASE i <= n
  <2>1. Plain(t[i]) /\ i # n + m
    BY <1>0, <1>1, <1>3
  <2>2. ~t[i + 1].rx
    <3>1. CASE i = n
      BY <1>2, <3>1
    <3>2. CASE i # n
      <4>1. i + 1 \in 1..n
        BY <1>0, <1>3, <3>2
      <4>2. QED
        BY <1>1, <4>1 DEF Plain
    <3>3. QED
      BY <3>1, <3>2
  <2>3. QED
    BY <2>1, <2>2 DEF Plain, Leads
<1>4. CASE i > n
  <2>1. i - n \in 1..m /\ n + (i - n) = i /\ (i = n + m <=> i - n = m)
    BY <1>0, <1>4
  <2>2. t[i] = v[i - n]
    BY <2>1
  <2>3. ASSUME i # n + m PROVE t[i + 1] = v[i - n + 1]
    <3>1. i - n + 1 \in 1..m /\ n + (i - n + 1) = i + 1
      BY <1>0, <2>1, <2>3
    <3>2. QED
      BY <3>1
  <2>4. QED
    BY <2>1, <2>2, <2>3 DEF ShapedTail
<1>5. QED
  BY <1>0, <1>3, <1>4

\* The characters of the driver.
LEMMA Characters ==
    /\ \A w : Plain(TxChar(w, FALSE, FALSE)) /\ ~TxChar(w, FALSE, FALSE).rx
    /\ \A w : Ends(TxChar(w, FALSE, TRUE)) /\ ~TxChar(w, FALSE, TRUE).rx
    /\ \A a \in Addrs : Plain(TxChar(2 * a, TRUE, FALSE)) /\ ~TxChar(2 * a, TRUE, FALSE).rx
    /\ \A a \in Addrs : LET op == TxChar(2 * a + 1, TRUE, FALSE)
                        IN  ~op.rx /\ ~op.sto /\ CallsForReply(op)
    /\ LET op == RxChar(FALSE, FALSE)
       IN  op.rx /\ ~op.sta /\ ~op.sto /\ ~op.nack /\ CallsForReply(op)
    /\ LET op == RxChar(TRUE, TRUE)
       IN  op.rx /\ ~op.sta /\ op.sto /\ Ends(op)
<1>1. ASSUME NEW w PROVE Plain(TxChar(w, FALSE, FALSE)) /\ ~TxChar(w, FALSE, FALSE).rx
  BY DEF TxChar, Plain, CallsForReply
<1>2. ASSUME NEW w PROVE Ends(TxChar(w, FALSE, TRUE)) /\ ~TxChar(w, FALSE, TRUE).rx
  BY DEF TxChar, Ends, CallsForReply
<1>3. ASSUME NEW a \in Addrs
      PROVE  Plain(TxChar(2 * a, TRUE, FALSE)) /\ ~TxChar(2 * a, TRUE, FALSE).rx
  BY AddressByte DEF TxChar, Plain, CallsForReply
<1>4. ASSUME NEW a \in Addrs
      PROVE  LET op == TxChar(2 * a + 1, TRUE, FALSE)
             IN  ~op.rx /\ ~op.sto /\ CallsForReply(op)
  BY AddressByte DEF TxChar, CallsForReply
<1>5. /\ LET op == RxChar(FALSE, FALSE)
         IN  op.rx /\ ~op.sta /\ ~op.sto /\ ~op.nack /\ CallsForReply(op)
      /\ LET op == RxChar(TRUE, TRUE)
         IN  op.rx /\ ~op.sta /\ op.sto /\ Ends(op)
  BY DEF RxChar, CallsForReply, Ends
<1>6. QED
  BY <1>1, <1>2, <1>3, <1>4, <1>5, Zenon

\* Two transmits, the second byte of a register address or none, and the rest.
LEMMA ShapeOfThree ==
    ASSUME NEW S, NEW x \in S, NEW y \in S, NEW w, TxChar(w, FALSE, FALSE) \in S,
           NEW v \in Seq(S), NEW m, Len(v) = m, Plain(x), Plain(y), ShapedTail(v, m)
    PROVE  Shape(<<x, y>> \o SecondByte(w) \o v)
<1> DEFINE u == TxChar(w, FALSE, FALSE)
           s == SecondByte(w)
           t == <<x, y>> \o s \o v
<1>1. Plain(u) /\ u \in S
  BY Characters, Zenon
<1>2. s = <<u>> \/ s = <<>>
  <2>1. CASE w >= 0
    BY <2>1, Zenon DEF SecondByte
  <2>2. CASE ~(w >= 0)
    BY <2>2, Zenon DEF SecondByte
  <2>3. QED
    BY <2>1, <2>2, Zenon
<1> HIDE DEF u, s
<1>3. s \in Seq(S) /\ ((Len(s) = 1 /\ s[1] = u) \/ Len(s) = 0)
  <2>1. CASE s = <<u>>
    BY <1>1, <2>1
  <2>2. CASE s = <<>>
    BY <2>2
  <2>3. QED
    BY <1>2, <2>1, <2>2
<1>4. ASSUME NEW r \in Seq(S)
      PROVE  /\ Len(<<x, y>> \o r \o v) = 2 + Len(r) + Len(v)
             /\ (<<x, y>> \o r \o v)[1] = x /\ (<<x, y>> \o r \o v)[2] = y
             /\ \A j \in 1..Len(r) : (<<x, y>> \o r \o v)[2 + j] = r[j]
             /\ \A j \in 1..Len(v) : (<<x, y>> \o r \o v)[2 + Len(r) + j] = v[j]
  BY ONLY T!ConcatOfThree, PrescaleAssumption, DelayAssumption, AddrsAssumption, BusAssumption
<1>5. /\ Len(t) = 2 + Len(s) + m /\ t[1] = x /\ t[2] = y
      /\ \A j \in 1..Len(s) : t[2 + j] = s[j]
      /\ \A j \in 1..m : t[2 + Len(s) + j] = v[j]
  BY <1>3, <1>4, Zenon
<1> HIDE DEF t
<1> DEFINE n == 2 + Len(s)
<1>6. Len(t) = n + m /\ \A j \in 1..m : t[n + j] = v[j]
  BY <1>5, Zenon
<1>7. PlainHead(t, n)
  <2>1. CASE Len(s) = 0
    BY <1>5, <2>1 DEF PlainHead
  <2>2. CASE Len(s) = 1 /\ s[1] = u
    <3>1. 1 \in 1..Len(s) /\ 2 + 1 = 3 /\ n = 3
      BY <2>2
    <3>2. t[3] = u
      BY <1>5, <2>2, <3>1, Zenon
    <3>3. QED
      BY <1>1, <1>5, <3>1, <3>2 DEF PlainHead
  <2>3. QED
    BY <1>3, <2>1, <2>2
<1> HIDE DEF n
<1>8. Shape(t)
  BY <1>6, <1>7, ShapeAssembled, Zenon
<1>9. QED
  BY <1>8 DEF t, s

\* Every transaction of the driver has this shape.
LEMMA TxnShape == \A t \in Txns : Shape(t)
<1>1. ASSUME NEW a \in Addrs, NEW t0 \in Words, NEW t1 \in Words \cup {-1}
      PROVE  Shape(ReadTxn(a, t0, t1))
  <2> DEFINE x == TxChar(2 * a, TRUE, FALSE)
             y == TxChar(t0, FALSE, FALSE)
             u == TxChar(t1, FALSE, FALSE)
             z == TxChar(2 * a + 1, TRUE, FALSE)
             r1 == RxChar(FALSE, FALSE)
             r2 == RxChar(TRUE, TRUE)
  <2>1. Plain(x) /\ Plain(y)
    BY Characters, Zenon
  <2>2. ~z.rx /\ ~z.sto /\ CallsForReply(z)
    BY Characters, Zenon
  <2>3. /\ r1.rx /\ ~r1.sta /\ ~r1.sto /\ ~r1.nack /\ CallsForReply(r1)
        /\ r2.rx /\ ~r2.sta /\ Ends(r2)
    BY Characters, Zenon
  <2>4. ReadTxn(a, t0, t1) = <<x, y>> \o SecondByte(t1) \o <<z, r1, r2>>
    BY DEF ReadTxn
  <2> DEFINE S == {x, y, u, z, r1, r2}
             v == <<z, r1, r2>>
  <2>5. TxChar(t1, FALSE, FALSE) \in S
    OBVIOUS
  <2> HIDE DEF x, y, u, z, r1, r2
  <2>6. Leads(z, r1) /\ Leads(r1, r2)
    BY <2>2, <2>3 DEF Leads
  <2>7. Len(v) = 3 /\ v[1] = z /\ v[2] = r1 /\ v[3] = r2 /\ v \in Seq(S) /\ x \in S /\ y \in S
    OBVIOUS
  <2> HIDE DEF v, S
  <2>8. ASSUME NEW j \in 1..3
        PROVE  /\ v[j].rx => ~v[j].sta
               /\ IF j = 3 THEN Ends(v[j]) ELSE Leads(v[j], v[j + 1])
    BY <2>2, <2>3, <2>6, <2>7
  <2>9. ShapedTail(v, 3)
    BY <2>2, <2>7, <2>8 DEF ShapedTail
  <2>10. Shape(<<x, y>> \o SecondByte(t1) \o v)
    BY <2>1, <2>5, <2>7, <2>9, ShapeOfThree, Zenon
  <2>11. QED
    BY <2>4, <2>10 DEF v
<1>2. ASSUME NEW a \in Addrs, NEW t0 \in Words, NEW t1 \in Words \cup {-1},
             NEW d0 \in Words, NEW d1 \in Words
      PROVE  Shape(WriteTxn(a, t0, t1, d0, d1))
  <2> DEFINE x == TxChar(2 * a, TRUE, FALSE)
             y == TxChar(t0, FALSE, FALSE)
             u == TxChar(t1, FALSE, FALSE)
             w0 == TxChar(d0, FALSE, FALSE)
             w1 == TxChar(d1, FALSE, TRUE)
  <2>1. Plain(x) /\ Plain(y)
    BY Characters, Zenon
  <2>2. Plain(w0) /\ ~w0.rx /\ Ends(w1) /\ ~w1.rx
    BY Characters, Zenon
  <2>3. WriteTxn(a, t0, t1, d0, d1) = <<x, y>> \o SecondByte(t1) \o <<w0, w1>>
    BY DEF WriteTxn
  <2> DEFINE S == {x, y, u, w0, w1}
             v == <<w0, w1>>
  <2>4. TxChar(t1, FALSE, FALSE) \in S
    OBVIOUS
  <2> HIDE DEF x, y, u, w0, w1
  <2>5. Leads(w0, w1)
    BY <2>2 DEF Leads, Plain
  <2>6. Len(v) = 2 /\ v[1] = w0 /\ v[2] = w1 /\ v \in Seq(S) /\ x \in S /\ y \in S
    OBVIOUS
  <2> HIDE DEF v, S
  <2>7. ASSUME NEW j \in 1..2
        PROVE  /\ v[j].rx => ~v[j].sta
               /\ IF j = 2 THEN Ends(v[j]) ELSE Leads(v[j], v[j + 1])
    BY <2>2, <2>5, <2>6
  <2>8. ShapedTail(v, 2)
    BY <2>2, <2>6, <2>7 DEF ShapedTail
  <2>9. Shape(<<x, y>> \o SecondByte(t1) \o v)
    BY <2>1, <2>4, <2>6, <2>8, ShapeOfThree, Zenon
  <2>10. QED
    BY <2>3, <2>9 DEF v
<1>3. Shape(GeneralCallReset)
  <2> DEFINE x == TxChar(0, TRUE, FALSE)
             y == TxChar(6, FALSE, TRUE)
  <2>1. ~BitOf(0, 0)
    BY Parity
  <2>2. ~x.rx /\ ~y.rx /\ Leads(x, y) /\ Ends(y)
    BY <2>1 DEF Leads, Ends, CallsForReply, TxChar
  <2>3. GeneralCallReset = <<x, y>>
    BY DEF GeneralCallReset
  <2> HIDE DEF x, y
  <2>4. QED
    BY <2>2, <2>3 DEF Shape
<1>4. QED
  BY <1>1, <1>2, <1>3 DEF Txns

-----------------------------------------------------------------------------
(* The peripheral and the byte controller, clock by clock.                 *)

\* All that is known of a state of the enabled core.
Sound ==
    /\ T!IInv /\ T!Offering /\ TypeOK /\ T!Placed
    /\ NeverLost /\ Lines /\ Together

\* What happens on the lines, and when.
LEMMA Events ==
    ASSUME Lines, bit_state \in Bit!BitStates
    PROVE  /\ core_ack /\ core_cmd = "STOP" => StopSeen /\ ~Fall
           /\ core_ack /\ core_cmd # "STOP" => Fall /\ ~StartSeen /\ ~StopSeen
           /\ ~core_ack => ~Fall /\ ~StopSeen /\ (StartSeen => bit_state = "start_d")
<1>1. OnLines /\ Flags /\ AckSeen
  BY DEF Lines
<1>2. CASE core_ack /\ core_cmd = "STOP"
  <2>1. scl /\ sda /\ was_scl /\ ~was_sda
    BY <1>1, <1>2 DEF AckSeen, OnLines, High
  <2>2. QED
    BY <1>2, <2>1 DEF StopSeen, Fall
<1>3. CASE core_ack /\ core_cmd # "STOP"
  <2>1. ~scl /\ was_scl
    BY <1>1, <1>3 DEF AckSeen, scl
  <2>2. QED
    BY <1>3, <2>1 DEF StopSeen, StartSeen, Fall
<1>4. CASE ~core_ack
  <2>1. bit_state = "idle" => IF scl_oen THEN was_sda ELSE ~was_scl
    BY <1>1, <1>4 DEF AckSeen
  <2>2. ~Fall
    BY <1>1, <2>1, EventsInTurn DEF Falling, Fall
  <2>3. ~StopSeen
    BY <1>1, <2>1, EventsInTurn DEF High, StopSeen
  <2>4. QED
    BY <1>1, <1>4, <2>2, <2>3, EventsInTurn
<1>5. QED
  BY <1>2, <1>3, <1>4

\* Of the peripheral, what the byte controller's step is held against.
Device == <<dev_sda, role, nbit, rw, reply, replies>>

\* What the events do to the peripheral.
LEMMA DeviceStep ==
    ASSUME PeripheralTick, Lines, bit_state \in Bit!BitStates
    PROVE  /\ ~core_ack /\ ~StartSeen => UNCHANGED Device
           /\ StartSeen => Listen("address", 0)
           /\ core_ack /\ core_cmd = "STOP" => Listen("off", 0)
           /\ core_ack /\ core_cmd # "STOP" /\ bit = "none" => UNCHANGED Device
           /\ core_ack /\ core_cmd # "STOP" /\ bit # "none" => AfterBit
<1>1. /\ StartSeen => Listen("address", 0)
      /\ ~StartSeen /\ StopSeen /\ ~Fall => Listen("off", 0)
      /\ ~StartSeen /\ ~StopSeen /\ ~Fall => UNCHANGED Device
      /\ ~StartSeen /\ ~StopSeen /\ Fall /\ bit = "none" => UNCHANGED Device
      /\ ~StartSeen /\ ~StopSeen /\ Fall /\ bit # "none" => AfterBit
  <2>1. (StartSeen => ~StopSeen /\ ~Fall) /\ (StopSeen => ~StartSeen /\ ~Fall)
    BY DEF StartSeen, StopSeen, Fall
  <2>2. \/ StartSeen /\ Listen("address", 0)
        \/ StopSeen /\ Listen("off", 0)
        \/ Fall /\ bit # "none" /\ AfterBit
        \/ /\ ~StartSeen /\ ~StopSeen /\ ~(Fall /\ bit # "none")
           /\ UNCHANGED Device
    BY DEF PeripheralTick, Device
  <2>3. QED
    BY <2>1, <2>2
<1>2. StopSeen => ~StartSeen
  BY DEF StartSeen, StopSeen
<1>3. QED
  BY <1>1, <1>2, Events

\* What the driver holds during a clock.
LEMMA ClockKeeps ==
    ASSUME Clock
    PROVE  /\ pc' = pc /\ txn' = txn /\ k' = k /\ status' = status /\ ret' = ret
           /\ txr' = txr /\ prescale' = prescale /\ control' = control
           /\ txn[k]' = txn[k]
<1>1. DriverTick /\ CsrTick
  BY DEF Clock, CoreTick
<1>2. QED
  BY <1>1 DEF DriverTick, CsrTick

\* An operation and its place among the others.
LEMMA ThisOperation ==
    ASSUME T!Placed, pc \in T!Busy
    PROVE  /\ k \in 1..Len(txn) /\ txn \in Txns
           /\ txn[k].rx \in BOOLEAN /\ txn[k].sta \in BOOLEAN /\ txn[k].sto \in BOOLEAN
           /\ txn[k].nack \in BOOLEAN /\ txn[k].byte \in 0..255
           /\ txn[k].rx => ~txn[k].sta
           /\ IF k = Len(txn) THEN Ends(txn[k]) ELSE Leads(txn[k], txn[k + 1])
<1>1. k \in 1..Len(txn) /\ txn \in T!Txns
  BY DEF T!Placed
<1>2. txn \in Txns
  BY <1>1, SameTxns
<1>3. /\ txn[k].rx => ~txn[k].sta
      /\ IF k = Len(txn) THEN Ends(txn[k]) ELSE Leads(txn[k], txn[k + 1])
  BY <1>1, <1>2, TxnShape DEF Shape
<1>4. T!WellFormed(txn)
  BY <1>1, T!TxnsWellFormed, PrescaleAssumption, DelayAssumption, AddrsAssumption, BusAssumption
<1>5. txn \in Seq(T!Op)
  BY <1>4 DEF T!WellFormed
<1>6. txn[k] \in T!Op
  BY <1>1, <1>5
<1>7. QED
  BY <1>1, <1>2, <1>3, <1>6 DEF T!Op

\* What the byte controller goes on with when an operation begins.
FirstOf(op) == IF op.sta THEN "START" ELSE IF op.rx THEN "READ" ELSE "WRITE"

\* The ports of the byte controller during an operation.
LEMMA Ports ==
    ASSUME T!IInv, T!Placed, NeverLost, Together, T!Pending, ~done
    PROVE  /\ command.STA = txn[k].sta /\ command.STO = txn[k].sto /\ command.RD = txn[k].rx
           /\ command.WR = ~txn[k].rx /\ command.ACK = txn[k].nack
           /\ ~core_reset /\ ~i2c_al
<1>1. command = CommandOf(txn[k])
  BY DEF Together, InTurn
<1>2. ~core_reset
  BY DEF T!IInv, T!ResetOver, T!Pending
<1>3. QED
  BY <1>1, <1>2 DEF CommandOf, NeverLost

\* The steps of the byte controller in an operation.
LEMMA ByteMoves ==
    ASSUME CoreTick, T!IInv, T!Placed, NeverLost, Together, T!Pending, ~done
    PROVE  /\ byte_state = "IDLE" =>
                /\ byte_state' = FirstOf(txn[k]) /\ core_cmd' = FirstOf(txn[k])
                /\ ~shift' /\ ld' /\ ~done'
           /\ byte_state # "IDLE" /\ ~core_ack =>
                /\ byte_state' = byte_state /\ core_cmd' = core_cmd
                /\ ~shift' /\ ~ld' /\ ~done'
           /\ byte_state = "START" /\ core_ack =>
                /\ byte_state' = (IF txn[k].rx THEN "READ" ELSE "WRITE")
                /\ core_cmd' = byte_state'
                /\ ~shift' /\ ld' /\ ~done'
           /\ byte_state = "WRITE" /\ core_ack =>
                /\ byte_state' = (IF dcnt = 0 THEN "ACK" ELSE "WRITE")
                /\ core_cmd' = (IF dcnt = 0 THEN "READ" ELSE "WRITE")
                /\ (shift' <=> dcnt # 0) /\ ~ld' /\ ~done'
           /\ byte_state = "READ" /\ core_ack =>
                /\ byte_state' = (IF dcnt = 0 THEN "ACK" ELSE "READ")
                /\ core_cmd' = (IF dcnt = 0 THEN "WRITE" ELSE "READ")
                /\ shift' /\ ~ld' /\ ~done'
           /\ byte_state = "ACK" /\ core_ack =>
                /\ byte_state' = (IF txn[k].sto THEN "STOP" ELSE "IDLE")
                /\ core_cmd' = (IF txn[k].sto THEN "STOP" ELSE "NOP")
                /\ ~shift' /\ ~ld' /\ (done' <=> ~txn[k].sto) /\ rxack' = core_rxd
           /\ byte_state = "STOP" /\ core_ack =>
                /\ byte_state' = "IDLE" /\ core_cmd' = "NOP"
                /\ ~shift' /\ ~ld' /\ done'
           /\ byte_state # "ACK" \/ ~core_ack => rxack' = rxack
<1>1. /\ Byte!Idle \/ Byte!Pending \/ Byte!Started \/ Byte!BitWritten \/ Byte!BitRead
           \/ Byte!Acknowledged \/ Byte!Stopped
      /\ ~core_reset /\ ~i2c_al
  BY Ports, Zenon DEF CoreTick, Byte!Tick, Byte!StateMachine, Byte!Abort
<1>2. pc \in T!Busy
  BY DEF T!Pending, T!Busy
<1>3. /\ command.STA = txn[k].sta /\ command.STO = txn[k].sto /\ command.RD = txn[k].rx
      /\ command.WR = ~txn[k].rx
      /\ txn[k].rx \in BOOLEAN /\ txn[k].sta \in BOOLEAN /\ txn[k].sto \in BOOLEAN
  BY <1>2, Ports, ThisOperation
<1>4. CASE byte_state = "IDLE"
  <2>1. Byte!Idle /\ Byte!go
    BY <1>1, <1>3, <1>4, Zenon DEF Byte!Pending, Byte!Started, Byte!BitWritten, Byte!BitRead,
       Byte!Acknowledged, Byte!Stopped, Byte!go
  <2>2. QED
    BY <1>3, <1>4, <2>1, Zenon DEF Byte!Idle, Byte!Goto, Byte!Strobes, Byte!FirstCommand, FirstOf
<1>5. CASE byte_state # "IDLE" /\ ~core_ack
  <2>1. Byte!Pending
    BY <1>1, <1>5, Zenon DEF Byte!Idle, Byte!Started, Byte!BitWritten, Byte!BitRead,
       Byte!Acknowledged, Byte!Stopped
  <2>2. QED
    BY <1>5, <2>1 DEF Byte!Pending, Byte!Strobes
<1>6. CASE byte_state = "START" /\ core_ack
  <2>1. Byte!Started
    BY <1>1, <1>6 DEF Byte!Idle, Byte!Pending, Byte!BitWritten, Byte!BitRead,
       Byte!Acknowledged, Byte!Stopped
  <2>2. QED
    BY <1>3, <1>6, <2>1 DEF Byte!Started, Byte!Goto, Byte!Strobes
<1>7. CASE byte_state = "WRITE" /\ core_ack
  <2>1. Byte!BitWritten
    BY <1>1, <1>7 DEF Byte!Idle, Byte!Pending, Byte!Started, Byte!BitRead,
       Byte!Acknowledged, Byte!Stopped
  <2>2. QED
    BY <1>7, <2>1, Zenon DEF Byte!BitWritten, Byte!Goto, Byte!Strobes, Byte!cnt_done
<1>8. CASE byte_state = "READ" /\ core_ack
  <2>1. Byte!BitRead
    BY <1>1, <1>8 DEF Byte!Idle, Byte!Pending, Byte!Started, Byte!BitWritten,
       Byte!Acknowledged, Byte!Stopped
  <2>2. QED
    BY <1>8, <2>1 DEF Byte!BitRead, Byte!Goto, Byte!Strobes, Byte!cnt_done
<1>9. CASE byte_state = "ACK" /\ core_ack
  <2>1. Byte!Acknowledged
    BY <1>1, <1>9 DEF Byte!Idle, Byte!Pending, Byte!Started, Byte!BitWritten, Byte!BitRead,
       Byte!Stopped
  <2>2. QED
    BY <1>3, <1>9, <2>1, Zenon DEF Byte!Acknowledged, Byte!Goto, Byte!Strobes
<1>10. CASE byte_state = "STOP" /\ core_ack
  <2>1. Byte!Stopped
    BY <1>1, <1>10 DEF Byte!Idle, Byte!Pending, Byte!Started, Byte!BitWritten, Byte!BitRead,
       Byte!Acknowledged
  <2>2. QED
    BY <1>10, <2>1 DEF Byte!Stopped, Byte!Goto, Byte!Strobes
<1>11. byte_state # "ACK" \/ ~core_ack => rxack' = rxack
  BY <1>1, Zenon DEF Byte!Idle, Byte!Pending, Byte!Started, Byte!BitWritten, Byte!BitRead,
     Byte!Acknowledged, Byte!Stopped
<1>12. QED
  BY <1>4, <1>5, <1>6, <1>7, <1>8, <1>9, <1>10, <1>11

\* The shift register and its counter.
LEMMA ByteRegisters ==
    ASSUME CoreTick, ~core_reset, dcnt \in 0..7
    PROVE  /\ ld => rxr' = txr /\ dcnt' = 7
           /\ ~ld /\ shift => rxr' = Byte!ShiftIn(rxr, core_rxd)
                               /\ dcnt' = (IF dcnt = 0 THEN 7 ELSE dcnt - 1)
           /\ ~ld /\ ~shift => rxr' = rxr /\ dcnt' = dcnt
<1>1. Byte!ShiftRegister /\ Byte!BitCounter
  BY DEF CoreTick, Byte!Tick
<1>2. (dcnt + 7) % 8 = IF dcnt = 0 THEN 7 ELSE dcnt - 1
  OBVIOUS
<1>3. QED
  BY <1>1, <1>2 DEF Byte!ShiftRegister, Byte!BitCounter

\* When the bit controller takes and ends a command.
LEMMA ServingMoves ==
    ASSUME T!Bit!Next, ~core_reset, ~i2c_al
    PROVE  /\ Serving' \in {"NOP", Serving, core_cmd}
           /\ Serving = "NOP" /\ (core_cmd = "NOP" \/ core_ack) => Serving' = "NOP"
           /\ Serving # "NOP" => Serving' \in {"NOP", Serving}
           /\ core_ack' => Serving # "NOP" /\ Serving' = "NOP"
BY DEF T!Bit!Next, T!Bit!Abort, T!Bit!Accept, T!Bit!Rest, T!Bit!Work, T!Bit!Finish, T!Bit!Free

\* The order of the states of the byte controller, from I2CTransferProofs.
LEMMA TurnStep ==
    ASSUME CoreTick, T!Bit!Next, T!IInv, T!Offering, T!Placed, NeverLost, Together,
           T!Pending, ~done, dcnt \in 0..7, txn[k]' = txn[k]
    PROVE  T!Turn'
<1>1. T!Turn
  BY DEF Together, InTurn
<1>2. ~core_reset /\ ~i2c_al
  BY Ports
<1>3. pc \in T!Busy
  BY DEF T!Pending, T!Busy
<1>4. /\ txn[k].rx \in BOOLEAN /\ txn[k].sta \in BOOLEAN /\ txn[k].sto \in BOOLEAN
      /\ txn[k].rx => ~txn[k].sta
  BY <1>3, ThisOperation
<1>5. T!ThisOp = txn[k] /\ T!ThisOp' = txn[k]
  BY DEF T!ThisOp
<1>6. byte_state \in {"IDLE", "START", "READ", "WRITE", "ACK", "STOP"}
  BY DEF Together, InTurn, InStep
<1>7. core_ack => Serving = "NOP"
  BY DEF T!IInv, T!Handshake
<1>8. byte_state = "IDLE" => core_cmd = "NOP" /\ Serving = "NOP" /\ ~core_ack /\ ~shift /\ ~ld
  BY DEF T!IInv, T!Handshake
<1>9. CASE byte_state = "IDLE"
  <2>1. /\ byte_state' = FirstOf(txn[k]) /\ core_cmd' = FirstOf(txn[k])
        /\ ~shift' /\ ld' /\ ~done'
    BY <1>9, ByteMoves
  <2>2. Serving' = "NOP" /\ ~core_ack'
    BY <1>2, <1>8, <1>9, ServingMoves
  <2>3. QED
    BY <1>4, <1>5, <2>1, <2>2 DEF T!Turn, T!BitCommandOf, FirstOf
<1>10. CASE byte_state # "IDLE" /\ ~core_ack
  <2>1. byte_state' = byte_state /\ core_cmd' = core_cmd /\ ~shift' /\ ~ld'
    BY <1>10, ByteMoves
  <2>2. Serving' \in {"NOP", core_cmd}
    BY <1>1, <1>2, ServingMoves DEF T!Turn
  <2>3. QED
    BY <1>1, <1>5, <1>10, <2>1, <2>2 DEF T!Turn, T!BitCommandOf
<1>11. CASE core_ack
  <2>1. Serving' = "NOP" /\ ~core_ack' /\ ~shift /\ ~ld /\ dcnt' = dcnt
    BY <1>1, <1>2, <1>7, <1>11, ServingMoves, ByteRegisters DEF T!Turn
  <2>2. CASE byte_state = "START"
    BY <1>1, <1>4, <1>5, <1>11, <2>1, <2>2, ByteMoves DEF T!Turn, T!BitCommandOf
  <2>3. CASE byte_state = "WRITE"
    <3>1. ~txn[k].rx
      BY <1>1, <1>5, <2>3 DEF T!Turn
    <3>2. /\ byte_state' = (IF dcnt = 0 THEN "ACK" ELSE "WRITE")
          /\ core_cmd' = (IF dcnt = 0 THEN "READ" ELSE "WRITE")
          /\ (shift' <=> dcnt # 0) /\ ~ld'
      BY <1>11, <2>3, ByteMoves
    <3>3. dcnt # 0 => dcnt' >= 1
      BY <2>1
    <3>4. QED
      BY <1>5, <2>1, <3>1, <3>2, <3>3 DEF T!Turn, T!BitCommandOf
  <2>4. CASE byte_state = "READ"
    <3>1. txn[k].rx
      BY <1>1, <1>5, <2>4 DEF T!Turn
    <3>2. /\ byte_state' = (IF dcnt = 0 THEN "ACK" ELSE "READ")
          /\ core_cmd' = (IF dcnt = 0 THEN "WRITE" ELSE "READ")
          /\ shift' /\ ~ld'
      BY <1>11, <2>4, ByteMoves
    <3>3. (dcnt # 0 => dcnt' >= 1) /\ (dcnt = 0 => dcnt' = 0)
      BY <2>1
    <3>4. QED
      BY <1>5, <2>1, <3>1, <3>2, <3>3 DEF T!Turn, T!BitCommandOf
  <2>5. CASE byte_state = "ACK"
    BY <1>4, <1>5, <1>11, <2>1, <2>5, ByteMoves DEF T!Turn, T!BitCommandOf
  <2>6. CASE byte_state = "STOP"
    BY <1>5, <1>11, <2>1, <2>6, ByteMoves DEF T!Turn, T!BitCommandOf
  <2>7. QED
    BY <1>6, <1>8, <1>11, <2>2, <2>3, <2>4, <2>5, <2>6
<1>12. QED
  BY <1>9, <1>10, <1>11, <1>8

-----------------------------------------------------------------------------
(* Bus and byte controller stay together in a clock.                       *)

\* The types that are needed of a state of the invariant.
LEMMA SoundTypes ==
    ASSUME Sound
    PROVE  /\ bit_state \in Bit!BitStates /\ Bit!TypeOK
           /\ dcnt \in 0..7 /\ rxr \in 0..255 /\ txr \in 0..255 /\ nbit \in 0..8
           /\ role \in Roles
           /\ core_cmd \in Byte!BitCommands /\ core_txd \in BOOLEAN /\ core_rxd \in BOOLEAN
           /\ rxack \in BOOLEAN /\ scl_oen \in BOOLEAN
           /\ ~core_reset /\ ~i2c_al
BY DEF Sound, TypeOK, CsrTypeOK, Byte!TypeOK, Bit!TypeOK, NeverLost, Lines, Dividing

\* The parts of a clock in such a state.
LEMMA ClockParts ==
    ASSUME Timed, Sound, Clock
    PROVE  /\ CoreTick /\ Bit!Tick /\ DriverTick /\ ObserverTick /\ PeripheralTick /\ OutcomeTick
           /\ Ticking /\ Obeyed /\ T!Bit!Next
<1>1. /\ CoreTick /\ Bit!Tick /\ DriverTick /\ ObserverTick /\ PeripheralTick /\ OutcomeTick
      /\ Ticking
  BY DEF Clock, Ticking
<1>2. Obeyed
  BY SoundTypes, Obeys DEF Sound
<1>3. T!Bit!Next
  BY <1>1, <1>2, SoundTypes, ServiceStep DEF Sound
<1>4. QED
  BY <1>1, <1>2, <1>3

\* With the byte controller idle nothing happens on the lines.
LEMMA QuietClock ==
    ASSUME Timed, Sound, Clock, byte_state = "IDLE"
    PROVE  /\ UNCHANGED Device /\ scl_oen' = scl_oen /\ bit_state = "idle" /\ bit_state' = "idle"
           /\ ~core_ack' /\ rxack' = rxack
<1>1. CoreTick /\ Bit!Tick /\ PeripheralTick /\ T!Bit!Next
  BY ClockParts
<1>2. core_cmd = "NOP" /\ Serving = "NOP" /\ ~core_ack
  BY DEF Sound, T!IInv, T!Handshake
<1>3. bit_state \in Bit!BitStates /\ ~core_reset /\ ~i2c_al /\ Lines
  BY SoundTypes DEF Sound
<1>4. bit_state = "idle"
  BY <1>2, <1>3, ServingOf DEF Bit!BitStates, Addressing, Stopping, Getting, Putting
<1>5. bit_state' = "idle" /\ scl_oen' = scl_oen
  <2>1. CASE clk_en
    BY <1>1, <1>2, <1>3, <1>4, <2>1, NextQuarter DEF Bit!FirstQuarter
  <2>2. CASE ~clk_en
    BY <1>1, <1>3, <1>4, <2>2, DriveStep
  <2>3. QED
    BY <2>1, <2>2
<1>6. ~core_ack'
  BY <1>1, <1>3, <1>4, DriveStep, Zenon DEF Bit!LastQuarters
<1>7. UNCHANGED Device
  <2>1. ~StartSeen
    BY <1>2, <1>3, <1>4, Events
  <2>2. QED
    BY <1>1, <1>2, <1>3, <2>1, DeviceStep
<1>8. rxack' = rxack
  <2>1. Byte!Idle
    BY <1>1, <1>3, Zenon DEF CoreTick, Byte!Tick, Byte!StateMachine, Byte!Abort, Byte!Pending,
       Byte!Started, Byte!BitWritten, Byte!BitRead, Byte!Acknowledged, Byte!Stopped
  <2>2. QED
    BY <2>1 DEF Byte!Idle
<1>9. QED
  BY <1>4, <1>5, <1>6, <1>7, <1>8

\* While the driver is not waiting for a command, or the core is done with it.
LEMMA RestingTogether ==
    ASSUME Timed, Sound, Clock, ~T!Pending
    PROVE  Together'
<1>1. byte_state = "IDLE" /\ ~done
  BY AtRest DEF T!Settled, Sound
<1>2. /\ dev_sda' = dev_sda /\ role' = role /\ nbit' = nbit /\ scl_oen' = scl_oen
      /\ rxack' = rxack
  BY <1>1, QuietClock DEF Device
<1>3. outcome' = outcome
  <2>1. OutcomeTick /\ ~i2c_al
    BY ClockParts, SoundTypes
  <2>2. QED
    BY <1>1, <2>1 DEF OutcomeTick
<1>4. /\ pc' = pc /\ txn[k]' = txn[k] /\ status' = status /\ ret' = ret /\ txr' = txr
  BY ClockKeeps
<1>5. Together
  BY DEF Sound
<1>6. Drives'
  BY <1>2, <1>5 DEF Together, Drives
<1>7. ~T!Pending'
  BY <1>3, <1>4 DEF T!Pending
<1>8. InTurn'
  BY <1>7 DEF InTurn
<1>9. Ready(txn[k])' <=> Ready(txn[k])
  BY <1>2, <1>4 DEF Ready
<1>10. After(txn[k])' <=> After(txn[k])
  BY <1>2, <1>4 DEF After, RoleAfter
<1>11. QED
  BY <1>2, <1>3, <1>4, <1>5, <1>6, <1>8, <1>9, <1>10 DEF Together

\* An operation that has ended leaves the peripheral where the next one, or
\* nobody, needs it.
LEMMA DoneTogether ==
    ASSUME Timed, Sound, Clock, T!Pending, done
    PROVE  Together'
<1>1. byte_state = "IDLE"
  BY DEF Sound, T!IInv, T!Handshake
<1>2. /\ dev_sda' = dev_sda /\ role' = role /\ nbit' = nbit /\ scl_oen' = scl_oen
      /\ rxack' = rxack
  BY <1>1, QuietClock DEF Device
<1>3. outcome' = "done"
  <2>1. OutcomeTick /\ ~i2c_al
    BY ClockParts, SoundTypes
  <2>2. QED
    BY <2>1 DEF OutcomeTick
<1>4. /\ pc' = "wait" /\ txn[k]' = txn[k]
  BY ClockKeeps DEF T!Pending
<1>5. Drives /\ After(txn[k])
  BY <1>1 DEF Sound, Together, InTurn, InStep
<1>6. Drives' /\ After(txn[k])'
  BY <1>2, <1>4, <1>5 DEF Drives, After, RoleAfter
<1>7. InTurn'
  BY <1>3 DEF InTurn, T!Pending
<1>8. QED
  BY <1>3, <1>4, <1>6, <1>7 DEF Together

-----------------------------------------------------------------------------
(* An operation under way.                                                 *)

\* The count of the bits follows the strobes of the shift register.
LEMMA BitsMove ==
    \A x \in 0..255, b \in BOOLEAN, i \in 0..6 :
        BitOf(Byte!ShiftIn(x, b), i + 1) <=> BitOf(x, i)
<1> SUFFICES ASSUME NEW x \in 0..255, NEW b \in BOOLEAN, NEW i \in 0..6
             PROVE  BitOf(Byte!ShiftIn(x, b), i + 1) <=> BitOf(x, i)
  BY Zenon
<1>1. T!ShiftsBits(x, b)
  <2>1. \A y \in 0..255, c \in BOOLEAN : T!ShiftsBits(y, c)
    BY ONLY T!BitsShift, PrescaleAssumption, DelayAssumption, AddrsAssumption, BusAssumption
  <2>2. QED
    BY <2>1
<1>2. T!BitOf(T!Byte!ShiftIn(x, b), i + 1) <=> T!BitOf(x, i)
  BY <1>1, Zenon DEF T!ShiftsBits
<1>3. T!Byte!ShiftIn(x, b) = Byte!ShiftIn(x, b)
  BY DEF T!Byte!ShiftIn, Byte!ShiftIn, T!Byte!BitValue, Byte!BitValue
<1>4. \A y, j : T!BitOf(y, j) <=> BitOf(y, j)
  BY DEF T!BitOf, BitOf
<1>5. QED
  BY ONLY <1>2, <1>3, <1>4

\* The bit that is sent next is bit 7 of the shift register.
LEMMA TopBit == \A x \in 0..255 : T!Byte!Msb(x) <=> BitOf(x, 7)
<1>1. \A x \in 0..255 : T!Byte!Msb(x) <=> T!BitOf(x, 7)
  BY T!MsbIsBit, PrescaleAssumption, DelayAssumption, AddrsAssumption, BusAssumption
<1>2. \A y, j : T!BitOf(y, j) <=> BitOf(y, j)
  BY DEF T!BitOf, BitOf
<1>3. QED
  BY <1>1, <1>2

\* All that is known while the core is at an operation.
Working == Timed /\ Sound /\ Clock /\ T!Pending /\ ~done

\* What is known while an operation is under way.
LEMMA WorkingKnown ==
    ASSUME Working
    PROVE  /\ command = CommandOf(txn[k]) /\ (txn[k].rx \/ txr = txn[k].byte)
           /\ T!Turn /\ InStep(txn[k]) /\ Drives
           /\ core_cmd = T!BitCommandOf(txn[k], byte_state)
           /\ txn[k]' = txn[k]
           /\ txn[k].rx \in BOOLEAN /\ txn[k].sta \in BOOLEAN /\ txn[k].sto \in BOOLEAN
           /\ txn[k].nack \in BOOLEAN /\ txn[k].byte \in 0..255
           /\ txn[k].rx => ~txn[k].sta
           /\ txn[k].sto => Ends(txn[k])
           /\ ~(txn[k].sto) => ~(txn[k].rx /\ txn[k].nack)
           /\ byte_state \in Byte!ByteStates
<1>1. /\ command = CommandOf(txn[k]) /\ (txn[k].rx \/ txr = txn[k].byte)
      /\ T!Turn /\ InStep(txn[k]) /\ Drives
  BY DEF Working, Sound, Together, InTurn
<1>2. core_cmd = T!BitCommandOf(txn[k], byte_state)
  BY <1>1 DEF T!Turn, T!ThisOp
<1>3. pc \in T!Busy /\ T!Placed
  BY DEF Working, T!Pending, T!Busy, Sound
<1>4. /\ txn[k].rx \in BOOLEAN /\ txn[k].sta \in BOOLEAN /\ txn[k].sto \in BOOLEAN
      /\ txn[k].nack \in BOOLEAN /\ txn[k].byte \in 0..255
      /\ txn[k].rx => ~txn[k].sta
      /\ IF k = Len(txn) THEN Ends(txn[k]) ELSE Leads(txn[k], txn[k + 1])
  BY <1>3, ThisOperation
<1>5. /\ txn[k].sto => Ends(txn[k])
      /\ ~(txn[k].sto) => ~(txn[k].rx /\ txn[k].nack)
  BY <1>4 DEF Ends, Leads
<1>6. txn[k]' = txn[k]
  BY ClockKeeps DEF Working
<1>7. byte_state \in Byte!ByteStates
  BY DEF Working, Sound, TypeOK, Byte!TypeOK
<1>8. QED
  BY <1>1, <1>2, <1>4, <1>5, <1>6, <1>7

\* The operation begins.
LEMMA GoInStep ==
    ASSUME Working, byte_state = "IDLE"
    PROVE  InStep(txn[k])' /\ Drives'
<1>1. Timed /\ Sound /\ Clock /\ T!Pending /\ ~done
  BY DEF Working
<1>2. Ready(txn[k]) /\ Drives
  BY <1>1, WorkingKnown DEF InStep
<1>3. /\ dev_sda' = dev_sda /\ role' = role /\ nbit' = nbit /\ scl_oen' = scl_oen
      /\ bit_state' = "idle" /\ ~core_ack'
  BY <1>1, QuietClock DEF Device
<1>4. byte_state' = FirstOf(txn[k]) /\ ld'
  BY <1>1, ClockParts, ByteMoves DEF Sound
<1>5. /\ txn[k]' = txn[k] /\ txn[k].rx \in BOOLEAN /\ txn[k].sta \in BOOLEAN
      /\ txn[k].rx => ~txn[k].sta
  BY WorkingKnown
<1>6. Drives'
  BY <1>2, <1>3 DEF Drives
<1>7. BitsGone' = 0
  BY <1>4 DEF BitsGone
<1>8. CASE txn[k].sta
  <2>1. byte_state' = "START" /\ nbit' = 0 /\ role' # "talk"
    BY <1>2, <1>3, <1>4, <1>5, <1>8 DEF FirstOf, Ready
  <2>2. QED
    BY <1>3, <1>6, <2>1 DEF InStep
<1>9. CASE txn[k].rx
  <2>1. byte_state' = "READ" /\ nbit' = 0 /\ role' = "talk" /\ Owned'
    BY <1>2, <1>3, <1>4, <1>5, <1>9 DEF FirstOf, Ready, Owned
  <2>2. QED
    BY <1>6, <1>7, <2>1 DEF InStep
<1>10. CASE ~txn[k].sta /\ ~txn[k].rx
  <2>1. byte_state' = "WRITE" /\ nbit' = 0 /\ role' = "listen" /\ Owned'
    BY <1>2, <1>3, <1>4, <1>10 DEF FirstOf, Ready, Owned
  <2>2. (role = Addressed(txn[k]))'
    BY <1>5, <1>10, <2>1 DEF Addressed
  <2>3. QED
    BY <1>4, <1>6, <1>7, <2>1, <2>2 DEF InStep
<1>11. QED
  BY <1>8, <1>9, <1>10

\* No bit command ends with SCL released but a STOP.
LEMMA OwnedNext ==
    ASSUME Working, byte_state # "IDLE", ~core_ack, core_cmd # "STOP" \/ ~core_ack',
           bit_state = "idle" => ~scl_oen
    PROVE  Owned'
<1>1. Timed /\ Sound /\ Ticking /\ Obeyed /\ T!Bit!Next /\ CoreTick /\ Bit!Tick
  BY ClockParts DEF Working
<1>2. ~core_reset /\ ~i2c_al /\ bit_state \in Bit!BitStates
  BY <1>1, SoundTypes
<1>3. core_cmd' = core_cmd
  BY <1>1, ByteMoves DEF Working, Sound
<1>4. CASE core_ack'
  <2>1. core_cmd' # "STOP" => ~scl_oen'
    BY <1>1, <1>2, <1>4, AckStep DEF Sound
  <2>2. QED
    BY <1>3, <1>4, <2>1 DEF Owned
<1>5. CASE ~core_ack'
  BY <1>1, <1>2, <1>5, QuarterBefore DEF Owned
<1>6. QED
  BY <1>4, <1>5

\* A clock in which the byte controller waits for its bit command.
LEMMA WaitKnown ==
    ASSUME Working, byte_state # "IDLE", ~core_ack
    PROVE  /\ byte_state' = byte_state /\ core_cmd' = core_cmd /\ ~shift' /\ ~ld'
           /\ byte_state # "START" => UNCHANGED Device
           /\ Drives'
<1>1. Timed /\ Sound /\ Clock /\ PeripheralTick
  BY ClockParts DEF Working
<1>2. byte_state' = byte_state /\ core_cmd' = core_cmd /\ ~shift' /\ ~ld'
  BY <1>1, ClockParts, ByteMoves DEF Working, Sound
<1>3. Lines /\ bit_state \in Bit!BitStates
  BY <1>1, SoundTypes DEF Sound
<1>4. ~StartSeen => UNCHANGED Device
  BY <1>1, <1>3, DeviceStep
<1>5. StartSeen => Listen("address", 0)
  BY <1>1, <1>3, DeviceStep
<1>6. StartSeen => bit_state = "start_d"
  BY <1>3, Events
<1>7. bit_state = "start_d" => byte_state = "START"
  <2>1. bit_state = "start_d" => Serving = "START"
    BY ServingOf DEF Addressing
  <2>2. Serving \in {"NOP", core_cmd} /\ core_cmd = T!BitCommandOf(txn[k], byte_state)
    BY WorkingKnown DEF T!Turn
  <2>3. QED
    BY <2>1, <2>2 DEF T!BitCommandOf
<1>8. Drives'
  <2>1. CASE StartSeen
    BY <1>5, <2>1 DEF Listen, Drives
  <2>2. CASE ~StartSeen
    BY <1>4, <2>2, WorkingKnown DEF Device, Drives
  <2>3. QED
    BY <2>1, <2>2
<1>9. QED
  BY <1>2, <1>4, <1>6, <1>7, <1>8

\* The peripheral has seen the START before the core says that it is done.
LEMMA StartWaits ==
    ASSUME Working, byte_state = "START", ~core_ack
    PROVE  InStep(txn[k])'
<1>1. Timed /\ Sound /\ Bit!Tick /\ ObserverTick /\ PeripheralTick /\ Obeyed /\ T!Bit!Next
  BY ClockParts DEF Working
<1>2. Lines /\ bit_state \in Bit!BitStates /\ ~core_reset /\ ~i2c_al
  BY <1>1, SoundTypes DEF Sound
<1>3. byte_state' = "START" /\ core_cmd = "START"
  BY WaitKnown, WorkingKnown DEF T!BitCommandOf
<1>4. /\ nbit = 0 /\ role # "talk"
      /\ bit_state \in {"start_d", "start_e"} /\ ~was_sda => role = "address"
  BY WorkingKnown DEF InStep
<1>5. StartSeen => nbit' = 0 /\ role' = "address"
  BY <1>1, <1>2, DeviceStep DEF Listen
<1>6. ~StartSeen => nbit' = nbit /\ role' = role
  BY <1>1, <1>2, DeviceStep DEF Device
<1>7. was_sda' = sda
  BY <1>1 DEF ObserverTick
<1>8. OnLines /\ Flags
  BY <1>2 DEF Lines
<1>9. ASSUME bit_state \in {"start_d", "start_e"} PROVE role' = "address"
  <2>1. High /\ ~sda
    BY <1>8, <1>9 DEF OnLines, sda
  <2>2. scl /\ was_scl
    BY <1>8, <2>1 DEF High, SclStill, Still, Flags
  <2>3. was_sda => StartSeen
    BY <2>1, <2>2 DEF StartSeen
  <2>4. was_sda \in BOOLEAN
    BY <1>1 DEF Sound, TypeOK
  <2>5. QED
    BY <1>4, <1>5, <1>6, <1>9, <2>3, <2>4
<1>10. bit_state' \in {"start_d", "start_e"} /\ ~was_sda' => role' = "address"
  <2>1. bit_state' \in {"start_d", "start_e"} => bit_state \in {"start_c", "start_d", "start_e"}
    BY <1>1, <1>2, QuarterBefore
  <2>2. bit_state = "start_c" => sda
    BY <1>8 DEF OnLines
  <2>3. QED
    BY <1>7, <1>9, <2>1, <2>2
<1>11. core_ack' => role' = "address"
  <2>1. core_ack' => bit_state \in Bit!LastQuarters
    BY <1>1, <1>2, DriveStep, Zenon
  <2>2. bit_state \in Bit!LastQuarters => bit_state = "start_e"
    <3>1. Serving \in {"NOP", "START"}
      BY <1>1, <1>3 DEF Obeyed
    <3>2. QED
      BY <3>1, ServingOf DEF Bit!LastQuarters, Addressing, Stopping, Getting, Putting
  <2>3. QED
    BY <1>9, <2>1, <2>2
<1>12. nbit' = 0 /\ role' # "talk"
  BY <1>4, <1>5, <1>6
<1>13. QED
  BY <1>3, <1>10, <1>11, <1>12 DEF InStep

\* The count of the bits gone, and the bit that decides of the direction.
LEMMA CountWaits ==
    ASSUME Working, byte_state \in {"READ", "WRITE"}, ~core_ack
    PROVE  /\ BitsGone' = BitsGone
           /\ byte_state = "WRITE" =>
                (BitOf(rxr', 7 - dcnt') <=> BitOf(txn[k].byte, 0))
<1>1. Timed /\ Sound /\ CoreTick /\ ~core_reset
  BY ClockParts, SoundTypes DEF Working
<1>2. dcnt \in 0..7 /\ rxr \in 0..255 /\ core_rxd \in BOOLEAN
  BY <1>1, SoundTypes
<1>3. ~shift' /\ ~ld'
  BY WaitKnown
<1>4. shift => dcnt >= 1 /\ ~ld
  BY WorkingKnown DEF T!Turn
<1>5. /\ ld => rxr' = txr /\ dcnt' = 7
      /\ ~ld /\ shift => rxr' = Byte!ShiftIn(rxr, core_rxd)
                          /\ dcnt' = (IF dcnt = 0 THEN 7 ELSE dcnt - 1)
      /\ ~ld /\ ~shift => rxr' = rxr /\ dcnt' = dcnt
  BY <1>1, <1>2, ByteRegisters
<1>6. BitsGone' = 7 - dcnt'
  BY <1>3 DEF BitsGone
<1>7. CASE ld
  <2>1. BitsGone' = BitsGone
    BY <1>5, <1>6, <1>7 DEF BitsGone
  <2>2. byte_state = "WRITE" => rxr' = txn[k].byte
    BY <1>5, <1>7, WorkingKnown DEF T!Turn, T!ThisOp
  <2>3. 7 - dcnt' = 0
    BY <1>5, <1>7
  <2>4. QED
    BY <2>1, <2>2, <2>3
<1>8. CASE shift /\ ~ld
  <2>1. dcnt >= 1 /\ dcnt' = dcnt - 1 /\ rxr' = Byte!ShiftIn(rxr, core_rxd)
    BY <1>2, <1>4, <1>5, <1>8
  <2>2. BitsGone' = BitsGone
    <3>1. BitsGone = 8 - dcnt
      BY <1>8 DEF BitsGone
    <3>2. 7 - dcnt' = 8 - dcnt
      BY <1>2, <2>1
    <3>3. QED
      BY <1>6, <3>1, <3>2
  <2>3. 7 - dcnt \in 0..6 /\ 7 - dcnt' = 7 - dcnt + 1
    BY <1>2, <2>1
  <2>4. BitOf(rxr', 7 - dcnt') <=> BitOf(rxr, 7 - dcnt)
    BY <1>2, <2>1, <2>3, BitsMove, Zenon
  <2>5. byte_state = "WRITE" => (BitOf(rxr, 7 - dcnt) <=> BitOf(txn[k].byte, 0))
    BY <1>8, WorkingKnown DEF InStep
  <2>6. QED
    BY <2>2, <2>4, <2>5
<1>9. CASE ~shift /\ ~ld
  <2>1. dcnt' = dcnt /\ rxr' = rxr /\ BitsGone = 7 - dcnt
    BY <1>5, <1>9 DEF BitsGone
  <2>2. byte_state = "WRITE" => (BitOf(rxr, 7 - dcnt) <=> BitOf(txn[k].byte, 0))
    BY <1>9, WorkingKnown DEF InStep
  <2>3. QED
    BY <1>6, <2>1, <2>2
<1>10. QED
  BY <1>4, <1>7, <1>8, <1>9

\* A clock that ends no bit command leaves the two in step.
LEMMA WaitInStep ==
    ASSUME Working, byte_state # "IDLE", ~core_ack
    PROVE  InStep(txn[k])' /\ Drives'
<1>1. /\ byte_state' = byte_state /\ core_cmd' = core_cmd /\ ~shift' /\ ~ld'
      /\ Drives'
  BY WaitKnown
<1>2. /\ InStep(txn[k]) /\ txn[k]' = txn[k]
      /\ core_cmd = T!BitCommandOf(txn[k], byte_state)
  BY WorkingKnown
<1>3. byte_state # "START" => role' = role /\ nbit' = nbit /\ rw' = rw
  BY WaitKnown DEF Device
<1>4. CASE byte_state = "START"
  BY <1>1, <1>4, StartWaits
<1>5. CASE byte_state = "WRITE"
  <2>1. nbit = BitsGone /\ role = Addressed(txn[k]) /\ Owned
    BY <1>2, <1>5 DEF InStep
  <2>2. Owned'
    BY <1>2, <1>5, <2>1, OwnedNext DEF T!BitCommandOf, Owned
  <2>3. BitsGone' = BitsGone /\ (BitOf(rxr', 7 - dcnt') <=> BitOf(txn[k].byte, 0))
    BY <1>5, CountWaits
  <2>4. nbit' = BitsGone' /\ role' = Addressed(txn[k])
    BY <1>3, <1>5, <2>1, <2>3
  <2>5. (role = Addressed(txn[k]))'
    BY <1>2, <2>4 DEF Addressed
  <2>6. BitOf(txn[k].byte, 0)' <=> BitOf(txn[k].byte, 0)
    BY <1>2
  <2>7. BitOf(rxr, 7 - dcnt)' <=> BitOf(txn[k].byte, 0)'
    BY <2>3, <2>6 DEF BitOf
  <2>8. byte_state' = "WRITE"
    BY <1>1, <1>5
  <2>9. InStep(txn[k])'
    BY <2>2, <2>4, <2>5, <2>7, <2>8 DEF InStep
  <2>10. QED
    BY <1>1, <2>9
<1>6. CASE byte_state = "READ"
  <2>1. nbit = BitsGone /\ role = "talk" /\ Owned
    BY <1>2, <1>6 DEF InStep
  <2>2. Owned'
    BY <1>2, <1>6, <2>1, OwnedNext DEF T!BitCommandOf, Owned
  <2>3. BitsGone' = BitsGone
    BY <1>6, CountWaits
  <2>4. QED
    BY <1>1, <1>3, <1>6, <2>1, <2>2, <2>3 DEF InStep
<1>7. CASE byte_state = "ACK"
  <2>1. nbit = 8 /\ Owned
    BY <1>2, <1>7 DEF InStep
  <2>2. IF txn[k].rx THEN role = "talk"
        ELSE role = Addressed(txn[k]) /\ (rw <=> txn[k].sta /\ BitOf(txn[k].byte, 0))
    BY <1>2, <1>7 DEF InStep
  <2>3. Owned'
    BY <1>2, <1>7, <2>1, OwnedNext DEF T!BitCommandOf, Owned
  <2>4. (IF txn[k].rx THEN role = "talk"
         ELSE role = Addressed(txn[k]) /\ (rw <=> txn[k].sta /\ BitOf(txn[k].byte, 0)))'
    BY <1>2, <1>3, <1>7, <2>2 DEF Addressed
  <2>5. nbit' = 8 /\ byte_state' = "ACK"
    BY <1>1, <1>3, <1>7, <2>1
  <2>6. InStep(txn[k])'
    BY <2>3, <2>4, <2>5 DEF InStep
  <2>7. QED
    BY <1>1, <2>6
<1>8. CASE byte_state = "STOP"
  <2>1. nbit = 0 /\ role # "talk" /\ Owned
    BY <1>2, <1>8 DEF InStep
  <2>2. ~core_ack' => Owned'
    BY <1>2, <1>8, <2>1, OwnedNext DEF Owned
  <2>3. QED
    BY <1>1, <1>3, <1>8, <2>1, <2>2 DEF InStep
<1>9. QED
  BY <1>4, <1>5, <1>6, <1>7, <1>8, WorkingKnown DEF Byte!ByteStates

\* What is known in the clock of core_ack.
LEMMA AckKnown ==
    ASSUME Working, core_ack
    PROVE  /\ byte_state # "IDLE" /\ ~core_ack' /\ scl_oen' = scl_oen /\ bit_state' = "idle"
           /\ ~shift /\ ~ld /\ rxr' = rxr /\ dcnt' = dcnt /\ dcnt \in 0..7
           /\ core_cmd # "STOP" => ~scl_oen /\ Owned'
           /\ core_cmd = "STOP" => scl_oen /\ Listen("off", 0)
           /\ core_cmd = "START" => UNCHANGED Device
           /\ core_cmd \in {"READ", "WRITE"} =>
                AfterBit /\ (bit = "1" <=> core_rxd)
           /\ core_cmd = "WRITE" => (core_rxd <=> T!Offered)
<1>1. Timed /\ Sound /\ CoreTick /\ Bit!Tick /\ PeripheralTick /\ T!Bit!Next
  BY ClockParts DEF Working
<1>2. /\ Lines /\ bit_state \in Bit!BitStates /\ ~core_reset /\ ~i2c_al /\ dcnt \in 0..7
      /\ core_rxd \in BOOLEAN
  BY <1>1, SoundTypes DEF Sound
<1>3. byte_state # "IDLE"
  BY <1>1 DEF Sound, T!IInv, T!Handshake
<1>4. bit_state = "idle" /\ ~clk_en /\ (core_cmd = "STOP" => scl_oen)
      /\ (core_cmd # "STOP" => ~scl_oen)
      /\ (core_cmd \in {"READ", "WRITE"} => bit = BitSymbol(core_rxd))
      /\ (core_cmd = "WRITE" => (core_rxd <=> T!Offered))
      /\ (core_cmd = "START" => bit = "none")
  BY <1>2 DEF Lines, AckSeen
<1>5. bit_state' = "idle" /\ scl_oen' = scl_oen /\ ~core_ack'
  BY <1>1, <1>2, <1>4, DriveStep, Zenon
<1>6. ~shift /\ ~ld
  BY WorkingKnown DEF T!Turn
<1>7. rxr' = rxr /\ dcnt' = dcnt
  BY <1>1, <1>2, <1>6, ByteRegisters
<1>8. core_cmd \in {"READ", "WRITE"} => bit # "none" /\ (bit = "1" <=> core_rxd)
  BY <1>2, <1>4 DEF BitSymbol
<1>9. /\ core_cmd = "STOP" => Listen("off", 0)
      /\ core_cmd # "STOP" /\ bit = "none" => UNCHANGED Device
      /\ core_cmd # "STOP" /\ bit # "none" => AfterBit
  BY <1>1, <1>2, DeviceStep
<1>10. core_cmd # "STOP" => Owned'
  BY <1>4, <1>5 DEF Owned
<1>11. QED
  BY <1>2, <1>3, <1>4, <1>5, <1>6, <1>7, <1>8, <1>9, <1>10

\* The ends of the bit commands: of a START,
LEMMA StartEnds ==
    ASSUME Working, core_ack, byte_state = "START"
    PROVE  InStep(txn[k])' /\ Drives'
<1>1. core_cmd = "START" /\ txn[k].sta /\ ~txn[k].rx
  BY WorkingKnown DEF T!BitCommandOf, T!Turn, T!ThisOp
<1>2. nbit = 0 /\ role = "address" /\ Drives
  BY WorkingKnown DEF InStep
<1>3. nbit' = 0 /\ role' = "address" /\ dev_sda' = dev_sda /\ Owned'
  BY <1>1, <1>2, AckKnown DEF Device
<1>4. byte_state' = "WRITE" /\ ld'
  BY <1>1, ByteMoves, ClockParts DEF Working, Sound
<1>5. BitsGone' = 0
  BY <1>4 DEF BitsGone
<1>6. (role = Addressed(txn[k]))'
  BY <1>1, <1>3, WorkingKnown DEF Addressed
<1>7. Drives'
  BY <1>2, <1>3 DEF Drives
<1>8. QED
  BY <1>3, <1>4, <1>5, <1>6, <1>7 DEF InStep

\* of a bit that is sent,
LEMMA BitWrittenEnds ==
    ASSUME Working, core_ack, byte_state = "WRITE"
    PROVE  InStep(txn[k])' /\ Drives'
<1>1. core_cmd = "WRITE" /\ ~txn[k].rx
  BY WorkingKnown DEF T!BitCommandOf, T!Turn, T!ThisOp
<1>2. ~shift /\ ~ld /\ rxr' = rxr /\ dcnt' = dcnt /\ dcnt \in 0..7 /\ ~core_ack' /\ Owned'
      /\ AfterBit /\ (bit = "1" <=> core_rxd) /\ (core_rxd <=> T!Offered)
  BY <1>1, AckKnown
<1>3. nbit = 7 - dcnt /\ role = Addressed(txn[k])
      /\ (BitOf(rxr, 7 - dcnt) <=> BitOf(txn[k].byte, 0))
  BY <1>2, WorkingKnown DEF InStep, BitsGone
<1>4. txn[k]' = txn[k] /\ txn[k].sta \in BOOLEAN
  BY WorkingKnown
<1>5. /\ byte_state' = (IF dcnt = 0 THEN "ACK" ELSE "WRITE")
      /\ (shift' <=> dcnt # 0) /\ ~ld'
  BY ByteMoves, ClockParts DEF Working, Sound
<1>6. role \in {"address", "listen"} /\ (role = "address" <=> txn[k].sta)
  BY <1>3, <1>4 DEF Addressed
<1>7. CASE dcnt # 0
  <2>1. nbit \in 0..6 /\ nbit + 1 = 8 - dcnt
    BY <1>2, <1>3, <1>7
  <2>2. Listen(role, nbit + 1)
    BY <1>2, <1>6, <2>1 DEF AfterBit
  <2>3. nbit' = 8 - dcnt /\ role' = role /\ dev_sda' = TRUE
    BY <2>1, <2>2 DEF Listen
  <2>4. BitsGone' = 8 - dcnt
    BY <1>2, <1>5, <1>7 DEF BitsGone
  <2>5. (role = Addressed(txn[k]))'
    BY <1>3, <1>4, <2>3 DEF Addressed
  <2>6. BitOf(rxr, 7 - dcnt)' <=> BitOf(txn[k].byte, 0)'
    BY <1>2, <1>3, <1>4 DEF BitOf
  <2>7. byte_state' = "WRITE"
    BY <1>5, <1>7
  <2>8. InStep(txn[k])'
    BY <1>2, <2>3, <2>4, <2>5, <2>6, <2>7 DEF InStep
  <2>9. QED
    BY <2>3, <2>8 DEF Drives
<1>8. CASE dcnt = 0
  <2>1. nbit = 7
    BY <1>3, <1>8
  <2>2. role' = role /\ nbit' = 8 /\ rw' = (role = "address" /\ bit = "1")
    BY <1>2, <1>6, <2>1 DEF AfterBit
  <2>3. T!Offered <=> BitOf(rxr, 7)
    <3>1. rxr \in 0..255
      BY SoundTypes DEF Working
    <3>2. QED
      BY <1>1, <3>1, TopBit, WorkingKnown DEF T!Offered, T!BitCommandOf
  <2>4. BitOf(rxr, 7) <=> BitOf(txn[k].byte, 0)
    <3>1. 7 - dcnt = 7
      BY <1>8
    <3>2. QED
      BY <1>3, <3>1
  <2>5. rw' <=> txn[k].sta /\ BitOf(txn[k].byte, 0)
    BY <1>2, <1>6, <2>2, <2>3, <2>4, Zenon
  <2>6. (role = Addressed(txn[k]) /\ (rw <=> txn[k].sta /\ BitOf(txn[k].byte, 0)))'
    BY <1>3, <1>4, <2>2, <2>5 DEF Addressed
  <2>7. byte_state' = "ACK" /\ ~txn[k]'.rx
    BY <1>1, <1>4, <1>5, <1>8
  <2>8. InStep(txn[k])'
    BY <1>2, <2>2, <2>6, <2>7 DEF InStep
  <2>9. Drives'
    BY <1>6, <2>2 DEF Drives
  <2>10. QED
    BY <2>8, <2>9
<1>9. QED
  BY <1>7, <1>8

\* of a bit that is received,
LEMMA BitReadEnds ==
    ASSUME Working, core_ack, byte_state = "READ"
    PROVE  InStep(txn[k])' /\ Drives'
<1>1. core_cmd = "READ" /\ txn[k].rx
  BY WorkingKnown DEF T!BitCommandOf, T!Turn, T!ThisOp
<1>2. ~shift /\ ~ld /\ dcnt' = dcnt /\ dcnt \in 0..7 /\ ~core_ack' /\ Owned' /\ AfterBit
  BY <1>1, AckKnown
<1>3. nbit = 7 - dcnt /\ role = "talk"
  BY <1>2, WorkingKnown DEF InStep, BitsGone
<1>4. txn[k]' = txn[k]
  BY WorkingKnown
<1>5. byte_state' = (IF dcnt = 0 THEN "ACK" ELSE "READ") /\ shift' /\ ~ld'
  BY ByteMoves, ClockParts DEF Working, Sound
<1>6. CASE dcnt # 0
  <2>1. nbit \in 0..6 /\ nbit + 1 = 8 - dcnt
    BY <1>2, <1>3, <1>6
  <2>2. role' = "talk" /\ nbit' = 8 - dcnt /\ nbit' # 8
    BY <1>2, <1>3, <1>6, <2>1 DEF AfterBit
  <2>3. BitsGone' = 8 - dcnt
    BY <1>2, <1>5 DEF BitsGone
  <2>4. InStep(txn[k])'
    BY <1>2, <1>5, <1>6, <2>2, <2>3 DEF InStep
  <2>5. QED
    BY <2>2, <2>4 DEF Drives
<1>7. CASE dcnt = 0
  <2>1. nbit = 7
    BY <1>3, <1>7
  <2>2. Listen("talk", 8)
    BY <1>2, <1>3, <2>1 DEF AfterBit
  <2>3. role' = "talk" /\ nbit' = 8 /\ dev_sda' = TRUE /\ byte_state' = "ACK" /\ txn[k]'.rx
    BY <1>1, <1>4, <1>5, <1>7, <2>2 DEF Listen
  <2>4. InStep(txn[k])'
    BY <1>2, <2>3 DEF InStep
  <2>5. QED
    BY <2>3, <2>4 DEF Drives
<1>8. QED
  BY <1>6, <1>7

\* of an ACK bit, in either direction,
LEMMA AckEnds ==
    ASSUME Working, core_ack, byte_state = "ACK"
    PROVE  InStep(txn[k])' /\ Drives'
<1>1. core_cmd = IF txn[k].rx THEN "WRITE" ELSE "READ"
  BY WorkingKnown DEF T!BitCommandOf
<1>2. /\ ~core_ack' /\ Owned' /\ AfterBit /\ (bit = "1" <=> core_rxd)
      /\ ~scl_oen' /\ (core_cmd = "WRITE" => (core_rxd <=> T!Offered))
  BY <1>1, AckKnown
<1>3. /\ txn[k]' = txn[k] /\ txn[k].rx \in BOOLEAN /\ txn[k].sta \in BOOLEAN
      /\ txn[k].sto \in BOOLEAN /\ txn[k].nack \in BOOLEAN
      /\ txn[k].rx => ~txn[k].sta
      /\ txn[k].sto => Ends(txn[k])
      /\ command.ACK = txn[k].nack
  BY WorkingKnown DEF CommandOf
<1>4. nbit = 8
  BY WorkingKnown DEF InStep
<1>5. IF txn[k].rx THEN role = "talk"
      ELSE role = Addressed(txn[k]) /\ (rw <=> txn[k].sta /\ BitOf(txn[k].byte, 0))
  BY WorkingKnown DEF InStep
<1>6. /\ byte_state' = (IF txn[k].sto THEN "STOP" ELSE "IDLE")
      /\ (done' <=> ~txn[k].sto) /\ rxack' = core_rxd
  BY ByteMoves, ClockParts DEF Working, Sound
<1>7. role \in {"talk", "address", "listen"} /\ core_rxd \in BOOLEAN
  BY <1>3, <1>5, SoundTypes DEF Addressed, Working
<1>8. \/ bit = "1" /\ nbit' = 0 /\ role' = "off" /\ dev_sda' = TRUE
      \/ bit # "1" /\ (role = "talk" \/ rw) /\ nbit' = 0 /\ role' = "talk"
      \/ bit # "1" /\ role # "talk" /\ ~rw /\ nbit' = 0 /\ role' = "listen" /\ dev_sda' = TRUE
  <2>1. IF bit = "1" THEN Listen("off", 0)
        ELSE IF role = "talk" \/ rw THEN Talk
        ELSE Listen("listen", 0)
    BY <1>2, <1>4, <1>7 DEF AfterBit
  <2>2. QED
    BY <2>1 DEF Listen, Talk
<1>9. Drives'
  BY <1>8 DEF Drives
<1>10. txn[k].rx => (bit = "1" <=> txn[k].nack)
  <2>1. T!Offered = command.ACK
    BY DEF T!Offered
  <2>2. QED
    BY <1>1, <1>2, <1>3, <2>1
<1>11. CASE ~txn[k].sto
  <2>1. byte_state' = "IDLE" /\ done'
    BY <1>6, <1>11
  <2>2. role' = RoleAfter(txn[k], rxack')
    <3>1. CASE txn[k].rx
      BY <1>3, <1>5, <1>8, <1>10, <1>11, <3>1 DEF RoleAfter
    <3>2. CASE ~txn[k].rx
      <4>1. role # "talk"
        BY <1>5, <3>2 DEF Addressed
      <4>2. bit = "1" <=> rxack'
        BY <1>2, <1>6
      <4>3. rw <=> txn[k].sta /\ BitOf(txn[k].byte, 0)
        BY <1>5, <3>2
      <4>4. QED
        BY <1>3, <1>8, <1>11, <3>2, <4>1, <4>2, <4>3 DEF RoleAfter
    <3>3. QED
      BY <3>1, <3>2
  <2>3. (role = RoleAfter(txn[k], rxack))'
    BY <1>3, <2>2 DEF RoleAfter
  <2>4. After(txn[k])'
    BY <1>2, <1>3, <1>8, <1>11, <2>3 DEF After
  <2>5. QED
    BY <1>9, <2>1, <2>4 DEF InStep
<1>12. CASE txn[k].sto
  <2>1. byte_state' = "STOP"
    BY <1>6, <1>12
  <2>2. role' # "talk"
    <3>1. CASE txn[k].rx
      BY <1>3, <1>8, <1>10, <1>12, <3>1 DEF Ends
    <3>2. CASE ~txn[k].rx
      <4>1. role # "talk"
        BY <1>5, <3>2 DEF Addressed
      <4>2. ~rw
        BY <1>3, <1>5, <1>12, <3>2 DEF Ends, CallsForReply
      <4>3. QED
        BY <1>8, <4>1, <4>2
    <3>3. QED
      BY <3>1, <3>2
  <2>3. nbit' = 0
    BY <1>8
  <2>4. QED
    BY <1>2, <1>9, <2>1, <2>2, <2>3 DEF InStep
<1>13. QED
  BY <1>3, <1>11, <1>12

\* and of a STOP.
LEMMA StopEnds ==
    ASSUME Working, core_ack, byte_state = "STOP"
    PROVE  InStep(txn[k])' /\ Drives'
<1>1. core_cmd = "STOP" /\ txn[k].sto
  BY WorkingKnown DEF T!BitCommandOf, T!Turn, T!ThisOp
<1>2. nbit' = 0 /\ role' = "off" /\ dev_sda' = TRUE /\ scl_oen'
  BY <1>1, AckKnown DEF Listen
<1>3. byte_state' = "IDLE" /\ done'
  BY ByteMoves, ClockParts DEF Working, Sound
<1>4. (role = RoleAfter(txn[k], rxack))'
  BY <1>1, <1>2, WorkingKnown DEF RoleAfter
<1>5. (scl_oen <=> txn[k].sto)'
  BY <1>1, <1>2, WorkingKnown
<1>6. After(txn[k])'
  BY <1>2, <1>4, <1>5 DEF After
<1>7. QED
  BY <1>2, <1>3, <1>6 DEF InStep, Drives

\* An operation under way stays what the peripheral takes it for.
LEMMA WorkingTogether ==
    ASSUME Working
    PROVE  Together'
<1>1. InStep(txn[k])' /\ Drives'
  BY GoInStep, WaitInStep, StartEnds, BitWrittenEnds, BitReadEnds, AckEnds, StopEnds,
     WorkingKnown, AckKnown DEF Byte!ByteStates
<1>2. /\ CoreTick /\ OutcomeTick /\ T!Bit!Next /\ Sound /\ dcnt \in 0..7 /\ ~i2c_al
      /\ T!Pending /\ ~done
  BY ClockParts, SoundTypes DEF Working
<1>3. pc' = "wait" /\ txr' = txr /\ txn[k]' = txn[k]
  BY <1>2, ClockKeeps DEF Working, T!Pending
<1>4. outcome' = "pending"
  BY <1>2 DEF OutcomeTick, T!Pending
<1>5. command = CommandOf(txn[k]) /\ (txn[k].rx \/ txr = txn[k].byte)
  BY WorkingKnown
<1>6. command' = command
  <2>1. command' = [command EXCEPT !.IACK = FALSE]
    BY <1>2 DEF CoreTick, CsrTick, CommandAfter
  <2>2. \A c \in Command : c.IACK = FALSE => [c EXCEPT !.IACK = FALSE] = c
    BY DEF Command
  <2>3. command \in Command
    BY <1>2 DEF Sound, TypeOK, CsrTypeOK
  <2>4. command.IACK = FALSE
    BY <1>5 DEF CommandOf
  <2>5. QED
    BY <2>1, <2>2, <2>3, <2>4
<1>7. command' = CommandOf(txn[k])'
  BY <1>3, <1>5, <1>6 DEF CommandOf
<1>8. T!Turn'
  BY <1>2, <1>3, TurnStep DEF Sound
<1>9. InTurn'
  BY <1>1, <1>3, <1>5, <1>7, <1>8 DEF InTurn
<1>10. QED
  BY <1>1, <1>3, <1>4, <1>9 DEF Together

\* So the two stay together in any clock.
LEMMA TogetherStep ==
    ASSUME Timed, Sound, Clock
    PROVE  Together'
BY RestingTogether, DoneTogether, WorkingTogether DEF Working

-----------------------------------------------------------------------------
(* The steps of the CPU.                                                   *)

\* A step of the CPU, whoever calls.
CpuStep == CpuCommand \/ CpuInit \/ CpuOther \/ CpuCall

\* The CPU touches the registers of the wrapper alone.
LEMMA CpuParts ==
    ASSUME Cpu \/ Caller
    PROVE  CpuStep /\ UNCHANGED <<hardware, peripheral, lines>>
BY DEF Cpu, Caller, CpuStep

\* A step of the CPU here is one there: of i2c_init,
LEMMA SameCpuInit ==
    ASSUME CpuInit
    PROVE  T!CpuInit
BY DEF CpuInit, T!CpuInit, InitCoreReset, T!InitCoreReset, InitPrescale, T!InitPrescale,
   InitControl, T!InitControl, Access, T!Access, WriteCoreReset, T!WriteCoreReset,
   WritePrescale, T!WritePrescale, WriteControl, T!WriteControl, history, T!history

\* the store that gives a command,
LEMMA SameCpuCommand ==
    ASSUME CpuCommand
    PROVE  T!CpuCommand
BY DEF CpuCommand, T!CpuCommand, CommandStore, T!CommandStore, Access, T!Access,
   WriteCommand, T!WriteCommand, CommandOf, T!CommandOf

\* the call of a transaction
LEMMA SameCpuCall ==
    ASSUME CpuCall
    PROVE  T!CpuCall
BY SameTxns DEF CpuCall, T!CpuCall, Call, T!Call, Begin, T!Begin, NoReturn, T!NoReturn,
   csr, T!csr

\* and every other one.
LEMMA SameCpuOther ==
    ASSUME CpuOther
    PROVE  T!CpuOther
<1>1. TxrStore => T!TxrStore
  BY DEF TxrStore, T!TxrStore, Access, T!Access, WriteTxr, T!WriteTxr
<1>2. PollBusy => T!PollBusy
  BY DEF PollBusy, T!PollBusy, PollReady, T!PollReady, csr, T!csr
<1>3. PollDone => T!PollDone
  BY DEF PollDone, T!PollDone, PollReady, T!PollReady, csr, T!csr
<1>4. ReadRxr => T!ReadRxr
  BY DEF ReadRxr, T!ReadRxr, Access, T!Access, csr, T!csr
<1>5. Advance => T!Advance
  BY DEF Advance, T!Advance, Begin, T!Begin, Failed, T!Failed, csr, T!csr
<1>6. Return => T!Return
  BY DEF Return, T!Return, Failed, T!Failed, status_error_code, T!status_error_code,
     ReturnValue, T!ReturnValue, ENACK, T!ENACK, EARB, T!EARB, EUNK, T!EUNK, csr, T!csr
<1>7. QED
  BY <1>1, <1>2, <1>3, <1>4, <1>5, <1>6 DEF CpuOther, T!CpuOther, history, T!history

\* All of them together.
LEMMA SameCpuStep ==
    ASSUME CpuStep
    PROVE  T!CpuStep
BY SameCpuInit, SameCpuCommand, SameCpuCall, SameCpuOther DEF CpuStep, T!CpuStep

\* And what it leaves alone is left alone there.
LEMMA SameHardware ==
    ASSUME UNCHANGED hardware
    PROVE  UNCHANGED T!hardware
<1>1. UNCHANGED <<byteregs, bitouts, bit_state, clk_en>>
  BY DEF hardware, bitregs
<1>2. UNCHANGED <<T!byteregs, T!bitouts>>
  BY <1>1 DEF byteregs, T!byteregs, bitouts, T!bitouts
<1>3. Serving' = Serving /\ Age' = Age
  BY <1>1 DEF Serving, Age
<1>4. QED
  BY <1>2, <1>3 DEF T!hardware

\* A step of the enabled driver leaves the divider and the data on offer alone.
LEMMA CpuWrites ==
    ASSUME Sound, CpuStep, pc \notin Initialising
    PROVE  /\ CpuCommand \/ CpuOther \/ CpuCall
           /\ UNCHANGED <<prescale, control, core_reset, arb_lost>>
           /\ CpuCommand \/ command' = command
<1>1. ~CpuInit
  BY DEF CpuInit, InitCoreReset, InitPrescale, InitControl, Access, Initialising
<1>2. CpuCommand \/ CpuOther \/ CpuCall
  BY <1>1 DEF CpuStep
<1>3. CASE CpuCommand
  BY <1>2, <1>3 DEF CpuCommand, CommandStore, WriteCommand
<1>4. CASE CpuOther \/ CpuCall
  BY <1>2, <1>4 DEF CpuOther, CpuCall, TxrStore, PollBusy, PollDone, ReadRxr, Advance, Return,
     Call, WriteTxr, csr
<1>5. QED
  BY <1>2, <1>3, <1>4

\* Lines speaks of the core, of the peripheral and of three registers only.
LEMMA LinesLeft ==
    ASSUME Lines, UNCHANGED <<hardware, peripheral, lines>>,
           UNCHANGED <<prescale, control, core_reset>>, core_ack => command' = command
    PROVE  Lines'
<1>1. /\ UNCHANGED <<byte_state, core_cmd, rxr, core_ack, core_rxd, core_txd>>
      /\ UNCHANGED bitregs /\ UNCHANGED <<dev_scl, dev_sda>> /\ UNCHANGED lines
      /\ UNCHANGED <<prescale, control, core_reset>>
  BY DEF hardware, byteregs, bitouts, peripheral
<1>2. /\ UNCHANGED <<dscl_oen, peripheral_wait, cnt, clk_en, cSCL, cSDA, filter_cnt, fSCL, fSDA,
                     sSCL, sSDA, dSCL, dSDA, sto_condition, bit_state, scl_oen, sda_oen, sda_chk>>
      /\ UNCHANGED <<was_scl, was_sda, bit>>
      /\ scl' = scl /\ sda' = sda
  BY <1>1 DEF bitregs, lines, scl, sda
<1>3. Dividing /\ OnLines /\ DataIn /\ Flags /\ AckSeen
  BY DEF Lines
<1>4. Dividing' /\ DataIn' /\ Flags'
  BY <1>1, <1>2, <1>3 DEF Dividing, DataIn, Flags, Spacing
<1>5. OnLines'
  <2>1. /\ High' <=> High
        /\ Low' <=> Low
        /\ SdaStill' <=> SdaStill
    BY <1>1, <1>2 DEF High, Low, SclStill, SdaStill, Still
  <2>2. /\ SdaSettles' <=> SdaSettles
        /\ SclSettles' <=> SclSettles
    BY <1>1, <1>2 DEF SdaSettles, SclSettles, Settles, Left, Spacing
  <2>3. (SclRises' <=> SclRises) /\ (SclFalls' <=> SclFalls) /\ (SdaFalls' <=> SdaFalls)
    BY <1>1, <1>2 DEF SclRises, SclFalls, SdaFalls, Moves
  <2>4. LowSafe' <=> LowSafe
    BY <1>1, <1>2 DEF LowSafe
  <2>5. (Rising' <=> Rising) /\ (Falling' <=> Falling)
    BY <1>1, <1>2, <2>2, <2>3, <2>4 DEF Rising, Falling
  <2>6. QED
    BY <1>1, <1>2, <1>3, <2>1, <2>2, <2>3, <2>5 DEF OnLines
<1>6. AckSeen'
  <2>1. core_ack => (T!Offered' <=> T!Offered)
    BY <1>1 DEF T!Offered, T!Byte!Msb
  <2>2. QED
    BY <1>1, <1>2, <1>3, <2>1 DEF AckSeen
<1>7. QED
  BY <1>4, <1>5, <1>6 DEF Lines

\* A step of the CPU leaves the lines and the bit controller as they are.
LEMMA CpuLines ==
    ASSUME Sound, CpuStep, UNCHANGED <<hardware, peripheral, lines>>, pc \notin Initialising
    PROVE  Lines' /\ NeverLost'
<1>1. core_ack => command' = command
  <2>1. CpuCommand => ~core_ack
    BY DEF CpuCommand, CommandStore, Access, Sound, T!IInv, T!Resting, T!Settled
  <2>2. QED
    BY <2>1, CpuWrites
<1>2. Lines'
  BY <1>1, CpuWrites, LinesLeft DEF Sound
<1>3. NeverLost'
  BY CpuWrites DEF NeverLost, Sound, hardware, bitouts
<1>4. QED
  BY <1>2, <1>3

\* What a step of the CPU does not touch of all that Together speaks of.
LEMMA CpuLeaves ==
    ASSUME UNCHANGED <<hardware, peripheral, lines>>
    PROVE  /\ UNCHANGED <<byte_state, core_cmd, shift, ld, done, rxack, core_ack, dcnt, rxr>>
           /\ UNCHANGED <<bit_state, clk_en, scl_oen, dev_sda, role, nbit, rw, was_sda>>
           /\ Serving' = Serving
           /\ Drives' <=> Drives
<1>1. /\ UNCHANGED <<byte_state, core_cmd, shift, ld, done, rxack, core_ack, dcnt, rxr>>
      /\ UNCHANGED <<bit_state, clk_en, scl_oen, dev_sda, role, nbit, rw, was_sda>>
  BY DEF hardware, byteregs, bitouts, bitregs, peripheral, lines
<1>2. Serving' = Serving
  BY <1>1 DEF Serving
<1>3. Drives' <=> Drives
  BY <1>1 DEF Drives
<1>4. QED
  BY <1>1, <1>2, <1>3

\* The steps of the CPU leave the peripheral in step: a command,
LEMMA CommandTogether ==
    ASSUME Sound, CpuCommand, UNCHANGED <<hardware, peripheral, lines>>
    PROVE  Together'
<1>1. /\ pc = "command" /\ pc' = "wait" /\ command' = CommandOf(txn[k])
      /\ outcome' = "pending" /\ txr' = txr /\ txn' = txn /\ k' = k /\ txn[k]' = txn[k]
  BY DEF CpuCommand, CommandStore, Access, WriteCommand
<1>2. Ready(txn[k]) /\ (txn[k].rx \/ txr = txn[k].byte) /\ Drives
  BY <1>1 DEF Sound, Together
<1>3. /\ byte_state = "IDLE" /\ core_cmd = "NOP" /\ Serving = "NOP"
      /\ ~done /\ ~core_ack /\ ~shift /\ ~ld
  BY <1>1 DEF Sound, T!IInv, T!Resting, T!Settled
<1>4. /\ byte_state' = "IDLE" /\ core_cmd' = "NOP" /\ Serving' = "NOP"
      /\ ~done' /\ ~core_ack' /\ ~shift' /\ ~ld' /\ Drives'
  BY <1>2, <1>3, CpuLeaves
<1>5. T!Turn'
  BY <1>4 DEF T!Turn, T!BitCommandOf
<1>6. Ready(txn[k])'
  BY <1>1, <1>2, CpuLeaves DEF Ready
<1>7. InStep(txn[k])'
  BY <1>4, <1>6 DEF InStep
<1>8. (command = CommandOf(txn[k]))'
  BY <1>1 DEF CommandOf
<1>9. InTurn'
  BY <1>1, <1>2, <1>5, <1>7, <1>8 DEF InTurn
<1>10. QED
  BY <1>1, <1>4, <1>9 DEF Together

\* the polls of i2c_wait_tip,
LEMMA PollTogether ==
    ASSUME Sound, TxrStore \/ PollBusy \/ PollDone \/ ReadRxr, UNCHANGED history,
           UNCHANGED <<hardware, peripheral, lines>>
    PROVE  Together'
<1>1. /\ outcome' = outcome /\ txn' = txn /\ k' = k /\ txn[k]' = txn[k] /\ ret' = ret
      /\ pc # "idle" /\ pc' # "idle"
  BY DEF history, TxrStore, PollBusy, PollDone, ReadRxr, Access
<1>2. (Ready(txn[k])' <=> Ready(txn[k])) /\ (After(txn[k])' <=> After(txn[k]))
  BY <1>1, CpuLeaves DEF Ready, After, RoleAfter
<1>3. Together /\ Drives' /\ rxack' = rxack
  BY CpuLeaves DEF Sound, Together
<1>4. CASE TxrStore
  <2>1. pc = "txr" /\ pc' = "command" /\ txr' = txn[k].byte
    BY <1>4 DEF TxrStore, Access, WriteTxr
  <2>2. InTurn'
    BY <2>1 DEF InTurn, T!Pending
  <2>3. QED
    BY <1>1, <1>2, <1>3, <2>1, <2>2 DEF Together
<1>5. CASE PollBusy
  <2>1. pc = "wait" /\ pc' = "wait" /\ UNCHANGED <<txr, command, status>>
    BY <1>5 DEF PollBusy, csr
  <2>2. InTurn'
    <3>1. T!Pending' => T!Pending
      BY <1>1, <2>1 DEF T!Pending
    <3>2. T!Turn => T!Turn'
      BY <1>1, CpuLeaves DEF T!Turn, T!BitCommandOf, T!ThisOp
    <3>3. BitsGone' = BitsGone /\ (Owned' <=> Owned)
      BY CpuLeaves DEF BitsGone, Owned
    <3>4. InStep(txn[k]) => InStep(txn[k])'
      BY <1>1, <1>2, <3>3, CpuLeaves DEF InStep, Addressed, BitOf
    <3>5. (command = CommandOf(txn[k])) => (command = CommandOf(txn[k]))'
      BY <1>1, <2>1 DEF CommandOf
    <3>6. QED
      BY <1>1, <1>3, <2>1, <3>1, <3>2, <3>4, <3>5 DEF Together, InTurn
  <2>3. QED
    BY <1>1, <1>2, <1>3, <2>1, <2>2 DEF Together
<1>6. CASE PollDone
  <2>1. pc = "wait" /\ pc' \in {"rxr", "check"} /\ status'.RxACK = rxack
    BY <1>6 DEF PollDone
  <2>2. outcome # "pending"
    <3>1. elapsed # 0 /\ ~tip
      BY <1>6, DelayAssumption DEF PollDone, PollReady
    <3>2. QED
      BY <2>1, <3>1 DEF Sound, T!IInv, T!Underway
  <2>3. InTurn'
    BY <2>1 DEF InTurn, T!Pending
  <2>4. QED
    BY <1>1, <1>2, <1>3, <2>1, <2>2, <2>3 DEF Together
<1>7. CASE ReadRxr
  <2>1. pc = "rxr" /\ pc' = "check" /\ status' = status
    BY <1>7 DEF ReadRxr, Access
  <2>2. InTurn'
    BY <2>1 DEF InTurn, T!Pending
  <2>3. QED
    BY <1>1, <1>2, <1>3, <2>1, <2>2 DEF Together
<1>8. QED
  BY <1>4, <1>5, <1>6, <1>7

\* What the peripheral does after an operation that went well fits the next.
LEMMA AdvanceTogether ==
    ASSUME Sound, Advance, UNCHANGED history, UNCHANGED <<hardware, peripheral, lines>>
    PROVE  Together'
<1>1. /\ pc = "check" /\ ~Failed(txn[k]) /\ k < Len(txn) /\ txn' = txn /\ k' = k + 1
      /\ pc' = Begin(txn[k + 1]) /\ outcome' = outcome /\ txn[k]' = txn[k + 1]
  BY DEF Advance, history
<1>2. /\ txn[k].rx \in BOOLEAN /\ txn[k].sta \in BOOLEAN /\ txn[k].sto \in BOOLEAN
      /\ txn[k].nack \in BOOLEAN
      /\ Leads(txn[k], txn[k + 1])
  <2>1. k # Len(txn)
    <3>1. k \in Int /\ Len(txn) \in Int
      BY <1>1, ThisOperation DEF Sound, T!Busy
    <3>2. QED
      BY <1>1, <3>1
  <2>2. QED
    BY <1>1, <2>1, ThisOperation DEF Sound, T!Busy
<1>3. After(txn[k]) /\ outcome # "pending" /\ (status.RxACK <=> rxack) /\ Drives
  BY <1>1 DEF Sound, Together
<1>4. ~(~txn[k].rx /\ rxack)
  BY <1>1, <1>3 DEF Failed
<1>5. nbit = 0 /\ ~scl_oen /\ role = IF CallsForReply(txn[k]) THEN "talk" ELSE "listen"
  BY <1>2, <1>3, <1>4 DEF After, RoleAfter, Leads, CallsForReply
<1>6. txn[k + 1].rx <=> CallsForReply(txn[k])
  BY <1>2 DEF Leads
<1>7. Ready(txn[k])'
  BY <1>1, <1>5, <1>6, CpuLeaves DEF Ready
<1>8. pc' = IF txn[k + 1].rx THEN "command" ELSE "txr"
  BY <1>1 DEF Begin
<1>9. Drives'
  BY <1>3, CpuLeaves
<1>10. InTurn'
  BY <1>8 DEF InTurn, T!Pending
<1>11. QED
  BY <1>1, <1>7, <1>8, <1>9, <1>10 DEF Together

\* a return
LEMMA ReturnTogether ==
    ASSUME Sound, Return, UNCHANGED history, UNCHANGED <<hardware, peripheral, lines>>
    PROVE  Together'
<1>1. /\ pc = "check" /\ pc' = "idle"
      /\ \/ Failed(txn[k]) /\ ret' = status_error_code
         \/ ~Failed(txn[k]) /\ k = Len(txn)
  BY DEF Return
<1>2. /\ txn[k].rx \in BOOLEAN /\ txn[k].sta \in BOOLEAN /\ txn[k].sto \in BOOLEAN
      /\ k = Len(txn) => Ends(txn[k])
  BY <1>1, ThisOperation DEF Sound, T!Busy
<1>3. After(txn[k]) /\ (status.RxACK <=> rxack) /\ Drives
  BY <1>1 DEF Sound, Together
<1>4. ~status.ArbLost
  BY <1>1 DEF Sound, T!IInv, T!LossEndsTxn, NeverLost
<1>5. CASE Failed(txn[k])
  <2>1. ~txn[k].rx /\ rxack /\ status.RxACK
    BY <1>3, <1>4, <1>5 DEF Failed
  <2>2. role = "off" /\ nbit = 0
    BY <1>3, <2>1 DEF After, RoleAfter
  <2>3. ret' = -1
    BY <1>1, <1>5, <2>1 DEF status_error_code, ENACK
  <2>4. ~(ret' >= 0)
    BY <2>3
  <2>5. role' # "talk" /\ nbit' = 0 /\ Drives'
    BY <1>3, <2>2, CpuLeaves
  <2>6. QED
    BY <1>1, <2>4, <2>5 DEF Together, InTurn, T!Pending
<1>6. CASE ~Failed(txn[k])
  <2>1. txn[k].sto
    BY <1>1, <1>2, <1>6 DEF Ends
  <2>2. role = "off" /\ nbit = 0 /\ scl_oen
    BY <1>3, <2>1 DEF After, RoleAfter
  <2>3. role' # "talk" /\ nbit' = 0 /\ Drives' /\ scl_oen'
    BY <1>3, <2>2, CpuLeaves
  <2>4. QED
    BY <1>1, <2>3 DEF Together, InTurn, T!Pending
<1>7. QED
  BY <1>5, <1>6

\* and a call.
LEMMA CallTogether ==
    ASSUME Sound, CpuCall, UNCHANGED <<hardware, peripheral, lines>>
    PROVE  Together'
<1>1. PICK t \in Txns : Call(t)
  BY DEF CpuCall
<1>2. pc = "idle" /\ pc' = Begin(t[1]) /\ txn' = t /\ k' = 1 /\ txn[k]' = t[1]
  BY <1>1 DEF Call
<1>3. t[1].sta /\ ~t[1].rx
  <2>1. \A u \in T!Txns : u[1].sta /\ ~u[1].rx
    BY ONLY T!TxnBegins, PrescaleAssumption, DelayAssumption, AddrsAssumption, BusAssumption
  <2>2. QED
    BY <2>1, SameTxns
<1>4. nbit = 0 /\ role # "talk" /\ Drives
  BY <1>2 DEF Sound, Together
<1>5. nbit' = 0 /\ role' # "talk" /\ Drives'
  BY <1>4, CpuLeaves
<1>6. Ready(txn[k])'
  BY <1>2, <1>3, <1>5 DEF Ready
<1>7. pc' = "txr"
  BY <1>2, <1>3 DEF Begin
<1>8. QED
  BY <1>2, <1>3, <1>5, <1>6, <1>7 DEF Together, InTurn, T!Pending

\* All of them together.
LEMMA CpuTogether ==
    ASSUME Sound, CpuStep, UNCHANGED <<hardware, peripheral, lines>>, pc \notin Initialising
    PROVE  Together'
<1>1. CpuCommand \/ CpuOther \/ CpuCall
  BY CpuWrites
<1>2. CASE CpuOther
  BY <1>2, PollTogether, AdvanceTogether, ReturnTogether DEF CpuOther
<1>3. QED
  BY <1>1, <1>2, CommandTogether, CallTogether

-----------------------------------------------------------------------------
(* Before the core is enabled.                                             *)

\* One clock of the core while it is not enabled.
LEMMA SleepingCore ==
    ASSUME Bit!Tick, Asleep, T!IInv, ~i2c_al, Bit!TypeOK, pc \in Initialising
    PROVE  /\ bit_state' = "idle" /\ scl_oen' /\ sda_oen' /\ ~sda_chk'
           /\ dscl_oen' /\ ~peripheral_wait' /\ clk_en' /\ filter_cnt' = 0 /\ cnt' = prescale
           /\ i2c_al' = FALSE /\ core_ack' = FALSE /\ core_rxd' \in BOOLEAN
           /\ T!Bit!Next
<1>1. T!Settled
  BY DEF T!IInv, T!Resting, Initialising
<1>2. core_cmd = "NOP" /\ ~core_ack /\ ~control.EN /\ bit_state = "idle" /\ scl_oen /\ sda_oen
      /\ ~sda_chk /\ dscl_oen /\ ~peripheral_wait /\ clk_en
  BY <1>1 DEF T!Settled, Asleep
<1>3. /\ bit_state' = "idle" /\ scl_oen' = TRUE /\ sda_oen' = TRUE /\ sda_chk' = FALSE
      /\ core_ack' = FALSE
  <2>1. Bit!StateMachine
    BY DEF Bit!Tick
  <2>2. CASE core_reset
    BY <1>2, <2>1, <2>2, Zenon DEF Bit!StateMachine, Bit!Abort
  <2>3. CASE ~core_reset
    <3>1. Bit!FirstQuarter = "idle"
      BY <1>2 DEF Bit!FirstQuarter
    <3>2. Bit!Drive /\ core_ack' = (clk_en /\ bit_state \in Bit!LastQuarters)
      BY <1>2, <2>1, <2>3 DEF Bit!StateMachine
    <3>3. scl_oen = TRUE /\ sda_oen = TRUE
      BY <1>2 DEF Bit!TypeOK
    <3>4. QED
      BY <1>2, <3>1, <3>2, <3>3, Zenon
      DEF Bit!Drive, Bit!Quarter, Bit!DriveStart, Bit!DriveStop, Bit!DriveRead, Bit!DriveWrite,
          Bit!LastQuarters
  <2>4. QED
    BY <2>2, <2>3, Zenon
<1>4. dscl_oen' /\ ~peripheral_wait' /\ clk_en' /\ cnt' = prescale
  BY <1>2, Zenon DEF Bit!Tick, Bit!Divider
<1>5. filter_cnt' = 0
  BY <1>2 DEF Bit!Tick, Bit!Filter
<1>6. i2c_al' = FALSE
  BY <1>2 DEF Bit!Tick, Bit!Arbitration
<1>7. core_rxd' \in BOOLEAN
  BY DEF Bit!Tick, Bit!DataOut, Bit!TypeOK
<1>8. Serving = "NOP" /\ Serving' = "NOP" /\ Age = 0 /\ Age' = 0
  BY <1>2, <1>3 DEF Serving, Age
<1>9. T!Bit!Next
  BY <1>2, <1>3, <1>6, <1>7, <1>8, Zenon
  DEF T!Bit!Next, T!Bit!Abort, T!Bit!Rest, T!Bit!Free
<1>10. QED
  BY <1>3, <1>4, <1>5, <1>6, <1>7, <1>9

\* A line that stays high passes through the stages, one in a clock, from the
\* end of the reset on.
LEMMA SleepingStages ==
    ASSUME Bit!Tick, Asleep
    PROVE  /\ ~core_reset => /\ cSCL'[2] /\ cSDA'[2]
                             /\ cSCL'[1] <=> cSCL[2]
                             /\ cSDA'[1] <=> cSDA[2]
                             /\ fSCL'[3] <=> cSCL[1]
                             /\ fSDA'[3] <=> cSDA[1]
                             /\ fSCL'[2] <=> fSCL[3]
                             /\ fSDA'[2] <=> fSDA[3]
                             /\ sSCL' <=> Bit!Majority(fSCL)
                             /\ sSDA' <=> Bit!Majority(fSDA)
                             /\ dSCL' <=> sSCL
                             /\ dSDA' <=> sSDA
<1> SUFFICES ASSUME ~core_reset
             PROVE  /\ cSCL'[2] /\ cSDA'[2]
                    /\ cSCL'[1] <=> cSCL[2]
                    /\ cSDA'[1] <=> cSDA[2]
                    /\ fSCL'[3] <=> cSCL[1]
                    /\ fSDA'[3] <=> cSDA[1]
                    /\ fSCL'[2] <=> fSCL[3]
                    /\ fSDA'[2] <=> fSDA[3]
                    /\ sSCL' <=> Bit!Majority(fSCL)
                    /\ sSDA' <=> Bit!Majority(fSDA)
                    /\ dSCL' <=> sSCL
                    /\ dSDA' <=> sSDA
  OBVIOUS
<1>1. cSCL' = <<cSCL[2], scl>> /\ cSDA' = <<cSDA[2], sda>>
  BY DEF Bit!Tick, Bit!Capture
<1>2. scl /\ sda
  BY DEF Asleep, scl, sda
<1>3. fSCL' = <<fSCL[2], fSCL[3], cSCL[1]>> /\ fSDA' = <<fSDA[2], fSDA[3], cSDA[1]>>
  BY DEF Bit!Tick, Bit!Filter, Bit!Sampled, Asleep
<1>4. /\ sSCL' <=> Bit!Majority(fSCL)
      /\ sSDA' <=> Bit!Majority(fSDA)
      /\ dSCL' <=> sSCL
      /\ dSDA' <=> sSDA
  BY Zenon DEF Bit!Tick, Bit!Edges
<1>5. QED
  BY <1>1, <1>2, <1>3, <1>4

\* So a clock of the core that sleeps lets its filters fill with the level of
\* the two lines, and is a step of the bit service.
LEMMA SleepingClock ==
    ASSUME Timed, Clock, Asleep, T!IInv, NeverLost, TypeOK, pc \in Initialising
    PROVE  Asleep' /\ NeverLost' /\ T!Bit!Next /\ UNCHANGED Device
<1>1. CoreTick /\ Bit!Tick /\ DriverTick /\ ObserverTick /\ PeripheralTick
  BY DEF Clock
<1>2. /\ bit_state' = "idle" /\ scl_oen' /\ sda_oen' /\ ~sda_chk'
      /\ dscl_oen' /\ ~peripheral_wait' /\ clk_en' /\ filter_cnt' = 0 /\ cnt' = prescale
      /\ i2c_al' = FALSE /\ T!Bit!Next
  BY <1>1, SleepingCore DEF NeverLost, TypeOK
<1>3. NeverLost'
  BY <1>1, <1>2, Zenon DEF NeverLost, CoreTick, CsrTick
<1>4. scl = TRUE /\ sda = TRUE /\ was_scl /\ was_sda
  BY DEF Asleep, scl, sda, TypeOK, Bit!TypeOK
<1>5. ~StartSeen /\ ~StopSeen /\ ~Fall
  BY <1>4 DEF StartSeen, StopSeen, Fall
<1>6. UNCHANGED Device /\ dev_scl'
  BY <1>1, <1>5, Zenon DEF PeripheralTick, Device, Asleep
<1>7. was_scl' /\ was_sda'
  BY <1>1, <1>4 DEF ObserverTick
<1>8. pc' = pc /\ prescale' = prescale /\ control' = control
  BY ClockKeeps
<1>9. /\ elapsed \in 0..NopDelay /\ NopDelay >= 4 /\ NopDelay \in Nat
      /\ elapsed' = IF elapsed < NopDelay THEN elapsed + 1 ELSE elapsed
  BY <1>1, DelayAssumption DEF DriverTick, TypeOK, DriverTypeOK, Timed
<1>10. /\ elapsed' >= 4 => elapsed >= 3
       /\ elapsed' >= 3 => elapsed >= 2
       /\ elapsed' >= 2 => elapsed >= 1
       /\ elapsed >= 1 => elapsed # 0
       /\ elapsed >= 2 => elapsed # 0
       /\ elapsed >= 3 => elapsed # 0
  BY <1>9
<1>11. core_reset => pc = "prescale" /\ elapsed = 0
  BY DEF T!IInv, T!ResetOver
<1> DEFINE Stage(n) == pc = "control" \/ (pc = "prescale" /\ elapsed >= n)
<1>12. \A c \in {cSCL, cSDA} : (Stage(2) => c[2]) /\ (Stage(3) => c[1])
  BY DEF Asleep
<1>13. /\ \A f \in {fSCL, fSDA} : (Stage(4) => f[3]) /\ (pc = "control" /\ elapsed >= 1 => f[2])
       /\ pc = "control" /\ elapsed >= 2 => sSCL /\ sSDA
       /\ pc = "control" /\ elapsed >= 3 => dSCL /\ dSDA
       /\ pc = "control" => prescale = DriverPrescale
  BY DEF Asleep
<1>14. Stage(2)' => cSCL'[2] /\ cSDA'[2]
  BY <1>1, <1>8, <1>10, <1>11, SleepingStages
<1>15. Stage(3)' => cSCL'[1] /\ cSDA'[1]
  <2>1. Stage(3)' => Stage(2) /\ ~core_reset
    BY <1>8, <1>10, <1>11
  <2>2. QED
    BY <1>1, <1>12, <2>1, SleepingStages
<1>16. Stage(4)' => fSCL'[3] /\ fSDA'[3]
  <2>1. Stage(4)' => Stage(3) /\ ~core_reset
    BY <1>8, <1>10, <1>11
  <2>2. QED
    BY <1>1, <1>12, <2>1, SleepingStages
<1>17. pc' = "control" => fSCL'[2] /\ fSDA'[2]
  <2>1. pc' = "control" => Stage(4) /\ ~core_reset
    BY <1>8, <1>11
  <2>2. QED
    BY <1>1, <1>13, <2>1, SleepingStages
<1>18. pc' = "control" /\ elapsed' >= 2 => sSCL' /\ sSDA'
  <2>1. pc' = "control" /\ elapsed' >= 2 => ~core_reset /\ fSCL[3] /\ fSCL[2] /\ fSDA[3] /\ fSDA[2]
    BY <1>8, <1>10, <1>11, <1>13
  <2>2. QED
    BY <1>1, <2>1, SleepingStages DEF Bit!Majority
<1>19. pc' = "control" /\ elapsed' >= 3 => dSCL' /\ dSDA'
  <2>1. pc' = "control" /\ elapsed' >= 3 => ~core_reset /\ sSCL /\ sSDA
    BY <1>8, <1>10, <1>11, <1>13
  <2>2. QED
    BY <1>1, <2>1, SleepingStages
<1>20. pc' = "control" => prescale' = DriverPrescale /\ cnt' = DriverPrescale
  BY <1>2, <1>8, <1>13
<1>21. /\ \A c \in {cSCL', cSDA'} : (Stage(2)' => c[2]) /\ (Stage(3)' => c[1])
       /\ \A f \in {fSCL', fSDA'} : (Stage(4)' => f[3]) /\ (pc' = "control" /\ elapsed' >= 1 => f[2])
  BY <1>14, <1>15, <1>16, <1>17
<1>22. /\ ~control'.EN /\ dev_sda' /\ role' = "off" /\ nbit' = 0
  BY <1>6, <1>8 DEF Asleep, Device
<1>23. Asleep'
  BY <1>2, <1>6, <1>7, <1>18, <1>19, <1>20, <1>21, <1>22 DEF Asleep
<1>24. QED
  BY <1>2, <1>3, <1>6, <1>23

\* The steps of i2c_init.
LEMMA InitSteps ==
    ASSUME Timed, Asleep, T!IInv, NeverLost, TypeOK, CpuInit,
           UNCHANGED <<hardware, peripheral, lines>>
    PROVE  /\ NeverLost'
           /\ IF pc' \in Initialising THEN Asleep' ELSE Lines' /\ pc' = "idle"
<1>1. /\ UNCHANGED <<dscl_oen, peripheral_wait, cnt, clk_en, cSCL, cSDA, filter_cnt, fSCL, fSDA,
                     sSCL, sSDA, dSCL, dSDA, sto_condition, bit_state, scl_oen, sda_oen, sda_chk>>
      /\ UNCHANGED <<dev_scl, dev_sda, role, nbit, was_scl, was_sda, bit, core_ack, i2c_al>>
      /\ UNCHANGED <<core_cmd, core_rxd>>
  BY DEF hardware, bitregs, bitouts, byteregs, peripheral, lines
<1>2. elapsed >= AccessTime /\ elapsed \in Nat /\ elapsed' = 0 /\ arb_lost' = arb_lost
  BY DEF CpuInit, InitCoreReset, InitPrescale, InitControl, Access, TypeOK, DriverTypeOK,
     WriteCoreReset, WritePrescale, WriteControl
<1>3. elapsed >= 1 /\ elapsed >= 2 /\ elapsed >= 3 /\ elapsed >= 4 /\ ~(elapsed' >= 1)
      /\ ~(elapsed' >= 2) /\ ~(elapsed' >= 3) /\ ~(elapsed' >= 4)
  BY <1>2, DelayAssumption DEF Timed
<1>4. NeverLost'
  BY <1>1, <1>2 DEF NeverLost
<1>5. CASE InitCoreReset
  <2>1. pc' = "prescale" /\ control' = control /\ prescale' = prescale
    BY <1>5 DEF InitCoreReset, Access, WriteCoreReset
  <2>2. Asleep'
    BY <1>1, <1>3, <2>1 DEF Asleep
  <2>3. QED
    BY <1>4, <2>1, <2>2 DEF Initialising
<1>6. CASE InitPrescale
  <2>1. pc = "prescale" /\ pc' = "control" /\ control' = control /\ prescale' = DriverPrescale
    BY <1>6 DEF InitPrescale, Access, WritePrescale
  <2>2. Asleep'
    BY <1>1, <1>3, <2>1 DEF Asleep
  <2>3. QED
    BY <1>4, <2>1, <2>2 DEF Initialising
<1>7. CASE InitControl
  <2>1. pc = "control" /\ pc' = "idle" /\ control'.EN /\ prescale' = prescale
        /\ core_reset' = core_reset
    BY <1>7 DEF InitControl, Access, WriteControl
  <2>2. ~core_reset' /\ ~core_ack
    BY <2>1 DEF T!IInv, T!ResetOver, T!Resting, T!Settled
  <2>3. /\ prescale' = DriverPrescale /\ cnt' = DriverPrescale /\ filter_cnt' = 0
        /\ bit_state' = "idle" /\ scl_oen' /\ sda_oen' /\ ~sda_chk' /\ was_scl' /\ was_sda'
        /\ scl' /\ sda' /\ dscl_oen' /\ ~peripheral_wait' /\ clk_en'
    BY <1>1, <1>3, <2>1 DEF Asleep, scl, sda
  <2>4. /\ cSCL'[2] /\ cSCL'[1] /\ fSCL'[3] /\ fSCL'[2] /\ sSCL' /\ dSCL'
        /\ cSDA'[2] /\ cSDA'[1] /\ fSDA'[3] /\ fSDA'[2] /\ sSDA' /\ dSDA'
    BY <1>1, <1>3, <2>1 DEF Asleep
  <2>5. Dividing'
    <3>1. 0 \in 0..(DriverPrescale \div 4) /\ DriverPrescale \in 0..DriverPrescale
      BY PrescaleAssumption
    <3>2. QED
      BY <2>1, <2>2, <2>3, <3>1 DEF Dividing, Spacing
  <2>6. High'
    BY <2>3, <2>4 DEF High, SclStill, Still
  <2>7. SdaSettles'
    BY <2>3, <2>4 DEF SdaSettles, Settles
  <2>8. OnLines'
    BY <2>3, <2>6, <2>7 DEF OnLines
  <2>9. DataIn' /\ Flags'
    BY <2>3, <2>4 DEF DataIn, Flags
  <2>10. AckSeen'
    BY <1>1, <2>2, <2>3 DEF AckSeen
  <2>11. QED
    BY <1>4, <2>1, <2>5, <2>8, <2>9, <2>10 DEF Lines, Initialising
<1>8. QED
  BY <1>5, <1>6, <1>7 DEF CpuInit

-----------------------------------------------------------------------------
(* Types.                                                                  *)

\* The types of the layers above, as I2CTransferProofs has them.
LEMMA AbstractTypes ==
    ASSUME TypeOK
    PROVE  T!TypeOK
<1>1. T!CsrTypeOK /\ T!Byte!TypeOK /\ T!DriverTypeOK /\ T!HistoryTypeOK
  BY SameCsrTypes, SameByteTypes, SameDriverTypes, SameHistoryTypes DEF TypeOK
<1>2. T!Bit!TypeOK
  <2>1. Serving \in {"NOP", "START", "STOP", "READ", "WRITE"}
    BY DEF Serving
  <2>2. Age \in 0..1
    BY DEF Age
  <2>3. QED
    BY <2>1, <2>2 DEF T!Bit!TypeOK, T!Bit!Commands, TypeOK, Bit!TypeOK
<1>3. QED
  BY <1>1, <1>2 DEF T!TypeOK, TypeOK

\* Registers of two bits,
LEMMA Pairs == \A a, b \in BOOLEAN : <<a, b>> \in Bit!Bits(2)
BY DEF Bit!Bits

\* of three bits
LEMMA Triples == \A a, b, c \in BOOLEAN : <<a, b, c>> \in Bit!Bits(3)
BY DEF Bit!Bits

\* and after a shift.
LEMMA Shifted ==
    /\ \A f \in Bit!Bits(2) : f[1] \in BOOLEAN /\ f[2] \in BOOLEAN
    /\ \A f \in Bit!Bits(3) : f[1] \in BOOLEAN /\ f[2] \in BOOLEAN /\ f[3] \in BOOLEAN
BY DEF Bit!Bits

\* The widest values of the two counters.
LEMMA Widths == 2^16 - 1 = 65535 /\ 2^14 - 1 = 16383
OBVIOUS

\* The stages of the lines keep their types,
LEMMA StageTypes ==
    ASSUME Bit!Tick, Bit!TypeOK, dev_scl \in BOOLEAN, dev_sda \in BOOLEAN
    PROVE  /\ cSCL' \in Bit!Bits(2) /\ cSDA' \in Bit!Bits(2)
           /\ fSCL' \in Bit!Bits(3) /\ fSDA' \in Bit!Bits(3)
<1>1. scl \in BOOLEAN /\ sda \in BOOLEAN
  BY DEF scl, sda
<1>2. /\ cSCL \in Bit!Bits(2) /\ cSDA \in Bit!Bits(2)
      /\ fSCL \in Bit!Bits(3) /\ fSDA \in Bit!Bits(3)
  BY DEF Bit!TypeOK
<1>3. /\ cSCL[1] \in BOOLEAN /\ cSCL[2] \in BOOLEAN /\ cSDA[1] \in BOOLEAN /\ cSDA[2] \in BOOLEAN
      /\ fSCL[2] \in BOOLEAN /\ fSCL[3] \in BOOLEAN /\ fSDA[2] \in BOOLEAN /\ fSDA[3] \in BOOLEAN
  BY <1>2, Shifted
<1>4. \/ cSCL' = <<FALSE, FALSE>> /\ cSDA' = <<FALSE, FALSE>>
      \/ cSCL' = <<cSCL[2], scl>> /\ cSDA' = <<cSDA[2], sda>>
  BY Zenon DEF Bit!Tick, Bit!Capture
<1>5. \/ fSCL' = <<TRUE, TRUE, TRUE>> /\ fSDA' = <<TRUE, TRUE, TRUE>>
      \/ fSCL' = <<fSCL[2], fSCL[3], cSCL[1]>> /\ fSDA' = <<fSDA[2], fSDA[3], cSDA[1]>>
      \/ fSCL' = fSCL /\ fSDA' = fSDA
  BY Zenon DEF Bit!Tick, Bit!Filter, Bit!Sampled
<1>6. cSCL' \in Bit!Bits(2) /\ cSDA' \in Bit!Bits(2)
  BY <1>1, <1>3, <1>4, Pairs, Zenon
<1>7. fSCL' \in Bit!Bits(3) /\ fSDA' \in Bit!Bits(3)
  BY <1>2, <1>3, <1>5, Triples, Zenon
<1>8. QED
  BY <1>6, <1>7

\* and so do the two counters,
LEMMA CounterTypes ==
    ASSUME Bit!Tick, Bit!TypeOK, CsrTypeOK
    PROVE  cnt' \in 0..(2^16 - 1) /\ filter_cnt' \in 0..(2^14 - 1)
<1> DEFINE w == 2^16 - 1
           v == 2^14 - 1
<1>1. w \in Nat /\ v \in Nat /\ w = 65535 /\ v = 16383
  BY Widths
<1>2. cnt \in 0..w /\ filter_cnt \in 0..v
  BY DEF Bit!TypeOK
<1>3. cnt' \in {prescale, cnt} \/ (cnt # 0 /\ cnt' = cnt - 1)
  BY DEF Bit!Tick, Bit!Divider
<1>4. filter_cnt' \in {0, prescale \div 4} \/ (filter_cnt # 0 /\ filter_cnt' = filter_cnt - 1)
  BY DEF Bit!Tick, Bit!Filter
<1>5. prescale \in Nat /\ prescale < 65536
  BY PrescaleAssumption DEF CsrTypeOK
<1> HIDE DEF w, v
<1>6. w \in Nat /\ v \in Nat
  BY <1>1
<1>7. prescale \in 0..w /\ prescale \div 4 \in 0..v /\ 0 \in 0..v
  <2>1. prescale \div 4 \in Nat /\ prescale \div 4 <= 16383
    BY <1>5
  <2>2. prescale <= w /\ prescale \div 4 <= v
    BY <1>1, <1>5, <2>1
  <2>3. QED
    BY <1>5, <1>6, <2>1, <2>2
<1>8. cnt' \in 0..w
  BY <1>2, <1>3, <1>6, <1>7
<1>9. filter_cnt' \in 0..v
  BY <1>2, <1>4, <1>6, <1>7
<1>10. QED
  BY <1>8, <1>9 DEF w, v

\* the state machine and its outputs,
LEMMA DriverTypes ==
    ASSUME Bit!Tick, Bit!TypeOK, core_txd \in BOOLEAN
    PROVE  /\ bit_state' \in Bit!BitStates /\ core_ack' \in BOOLEAN
           /\ scl_oen' \in BOOLEAN /\ sda_oen' \in BOOLEAN /\ sda_chk' \in BOOLEAN
<1>1. Bit!StateMachine
  BY DEF Bit!Tick
<1>2. bit_state \in Bit!BitStates /\ scl_oen \in BOOLEAN /\ sda_oen \in BOOLEAN
      /\ sda_chk \in BOOLEAN
  BY DEF Bit!TypeOK
<1>3. core_ack' \in BOOLEAN
  BY <1>1 DEF Bit!StateMachine
<1>4. CASE Bit!Abort
  BY <1>3, <1>4, Zenon DEF Bit!Abort, Bit!BitStates
<1>5. CASE UNCHANGED <<bit_state, scl_oen, sda_oen, sda_chk>>
  BY <1>2, <1>3, <1>5
<1>6. CASE Bit!Drive
  <2>1. Bit!FirstQuarter \in Bit!BitStates
    BY DEF Bit!FirstQuarter, Bit!BitStates
  <2>2. CASE Bit!Quarter("idle", Bit!FirstQuarter, scl_oen, sda_oen, FALSE)
    BY <1>2, <1>3, <2>1, <2>2, Zenon DEF Bit!Quarter
  <2>3. CASE Bit!DriveStart \/ Bit!DriveStop
    BY <1>2, <1>3, <2>3, Zenon DEF Bit!DriveStart, Bit!DriveStop, Bit!Quarter, Bit!BitStates
  <2>4. CASE Bit!DriveRead \/ Bit!DriveWrite
    BY <1>2, <1>3, <2>4, Zenon DEF Bit!DriveRead, Bit!DriveWrite, Bit!Quarter, Bit!BitStates
  <2>5. QED
    BY <1>6, <2>2, <2>3, <2>4, Zenon DEF Bit!Drive
<1>7. QED
  BY <1>1, <1>4, <1>5, <1>6 DEF Bit!StateMachine

\* and the bit controller as a whole.
LEMMA BitTypes ==
    ASSUME Bit!Tick, Bit!TypeOK, CsrTypeOK, core_txd \in BOOLEAN,
           dev_scl \in BOOLEAN, dev_sda \in BOOLEAN
    PROVE  Bit!TypeOK'
<1>1. /\ \A b \in {dscl_oen, peripheral_wait, clk_en, sSCL, sSDA, dSCL, dSDA} : b \in BOOLEAN
      /\ \A b \in {sta_condition, sto_condition, busy, cmd_stop, core_rxd, scl_oen} : b \in BOOLEAN
  BY DEF Bit!TypeOK
<1>2. dscl_oen' \in BOOLEAN /\ peripheral_wait' \in BOOLEAN /\ clk_en' \in BOOLEAN
  BY <1>1, Zenon DEF Bit!Tick, Bit!Divider
<1>3. sSCL' \in BOOLEAN /\ sSDA' \in BOOLEAN /\ dSCL' \in BOOLEAN /\ dSDA' \in BOOLEAN
  BY DEF Bit!Tick, Bit!Edges
<1>4. sta_condition' \in BOOLEAN /\ sto_condition' \in BOOLEAN /\ busy' \in BOOLEAN
  BY DEF Bit!Tick, Bit!BusState
<1>5. cmd_stop' \in BOOLEAN /\ i2c_al' \in BOOLEAN
  BY <1>1, Zenon DEF Bit!Tick, Bit!Arbitration
<1>6. core_rxd' \in BOOLEAN
  BY <1>1 DEF Bit!Tick, Bit!DataOut
<1>7. \A b \in {dscl_oen', peripheral_wait', clk_en', sSCL', sSDA', dSCL', dSDA',
                sta_condition', sto_condition', busy', cmd_stop', i2c_al', core_rxd',
                core_ack', scl_oen', sda_oen', sda_chk'} : b \in BOOLEAN
  BY <1>2, <1>3, <1>4, <1>5, <1>6, DriverTypes
<1>8. QED
  BY <1>7, StageTypes, CounterTypes, DriverTypes DEF Bit!TypeOK

\* The peripheral and the observer.
LEMMA PeripheralTypes ==
    ASSUME TypeOK, PeripheralTick, ObserverTick
    PROVE  /\ {dev_scl, dev_sda, rw, was_scl, was_sda}' \subseteq BOOLEAN
           /\ role' \in Roles /\ nbit' \in 0..8 /\ reply' \in 0..255
           /\ bit' \in {"none", "0", "1"}
           /\ wire' \in Seq(Symbols) /\ replies' \in Seq(0..255)
<1>1. /\ dev_scl \in BOOLEAN /\ dev_sda \in BOOLEAN /\ rw \in BOOLEAN
      /\ role \in Roles /\ nbit \in 0..8 /\ reply \in 0..255 /\ bit \in {"none", "0", "1"}
      /\ wire \in Seq(Symbols) /\ replies \in Seq(0..255)
      /\ scl_oen \in BOOLEAN /\ sda_oen \in BOOLEAN
  BY DEF TypeOK, HistoryTypeOK, Bit!TypeOK
<1>2. scl \in BOOLEAN /\ sda \in BOOLEAN
  BY <1>1 DEF scl, sda
<1>3. was_scl' \in BOOLEAN /\ was_sda' \in BOOLEAN
  BY <1>2 DEF ObserverTick
<1>4. bit' \in {"none", "0", "1"}
  BY <1>1 DEF ObserverTick, BitSymbol
<1>5. wire' \in Seq(Symbols)
  <2>1. wire' = wire \/ \E s \in Symbols : wire' = Append(wire, s)
    BY <1>1 DEF ObserverTick, Symbols
  <2>2. \A s \in Symbols : Append(wire, s) \in Seq(Symbols)
    BY <1>1
  <2>3. QED
    BY <1>1, <2>1, <2>2
<1>6. ASSUME NEW next \in Roles, NEW n \in 0..8, Listen(next, n)
      PROVE  /\ dev_sda' \in BOOLEAN /\ rw' \in BOOLEAN /\ role' \in Roles /\ nbit' \in 0..8
             /\ reply' \in 0..255 /\ replies' \in Seq(0..255)
  BY <1>1, <1>6 DEF Listen
<1>7. ASSUME Talk
      PROVE  /\ dev_sda' \in BOOLEAN /\ rw' \in BOOLEAN /\ role' \in Roles /\ nbit' \in 0..8
             /\ reply' \in 0..255 /\ replies' \in Seq(0..255)
  <2>1. PICK b \in RxBytes : reply' = b /\ replies' = Append(replies, b) /\ dev_sda' = BitOf(b, 7)
    BY <1>7 DEF Talk
  <2>2. b \in 0..255
    BY BusAssumption
  <2>3. replies' \in Seq(0..255)
    BY <1>1, <2>1, <2>2
  <2>4. dev_sda' \in BOOLEAN
    BY <2>1 DEF BitOf
  <2>5. QED
    BY <1>1, <1>7, <2>1, <2>2, <2>3, <2>4 DEF Talk, Roles
<1>8. ASSUME AfterBit
      PROVE  /\ dev_sda' \in BOOLEAN /\ rw' \in BOOLEAN /\ role' \in Roles /\ nbit' \in 0..8
             /\ reply' \in 0..255 /\ replies' \in Seq(0..255)
  <2>1. "off" \in Roles /\ "listen" \in Roles /\ "talk" \in Roles /\ "address" \in Roles
        /\ 0 \in 0..8 /\ 8 \in 0..8
    BY DEF Roles
  <2>2. CASE role = "off" /\ Listen("off", 0)
    BY <1>6, <2>1, <2>2
  <2>3. CASE role \in {"address", "listen"} /\ nbit < 7 /\ Listen(role, nbit + 1)
    <3>1. nbit + 1 \in 0..8
      BY <1>1, <2>3
    <3>2. QED
      BY <1>1, <1>6, <2>3, <3>1
  <2>4. CASE /\ role \in {"address", "listen"} /\ nbit = 7 /\ role' = role /\ nbit' = 8
             /\ rw' = (role = "address" /\ bit = "1") /\ dev_sda' \in BOOLEAN
             /\ UNCHANGED <<reply, replies>>
    BY <1>1, <2>1, <2>4
  <2>5. CASE /\ role = "talk" /\ nbit < 7 /\ role' = "talk" /\ nbit' = nbit + 1
             /\ dev_sda' = BitOf(reply, 7 - nbit') /\ UNCHANGED <<rw, reply, replies>>
    <3>1. nbit' \in 0..8
      BY <1>1, <2>5
    <3>2. dev_sda' \in BOOLEAN
      BY <2>5 DEF BitOf
    <3>3. QED
      BY <1>1, <2>1, <2>5, <3>1, <3>2
  <2>6. CASE role = "talk" /\ nbit = 7 /\ Listen("talk", 8)
    BY <1>6, <2>1, <2>6
  <2>7. CASE /\ role # "off" /\ nbit = 8
             /\ IF bit = "1" THEN Listen("off", 0)
                ELSE IF role = "talk" \/ rw THEN Talk
                ELSE Listen("listen", 0)
    <3>1. Listen("off", 0) \/ Talk \/ Listen("listen", 0)
      BY <2>7
    <3>2. QED
      BY <1>6, <1>7, <2>1, <3>1
  <2>8. QED
    BY <1>8, <2>2, <2>3, <2>4, <2>5, <2>6, <2>7 DEF AfterBit
<1>9. /\ dev_sda' \in BOOLEAN /\ rw' \in BOOLEAN /\ role' \in Roles /\ nbit' \in 0..8
      /\ reply' \in 0..255 /\ replies' \in Seq(0..255)
  <2>1. "off" \in Roles /\ "address" \in Roles /\ 0 \in 0..8
    BY DEF Roles
  <2>2. \/ Listen("address", 0) \/ Listen("off", 0) \/ AfterBit
        \/ UNCHANGED <<dev_sda, role, nbit, rw, reply, replies>>
    BY DEF PeripheralTick
  <2>3. QED
    BY <1>1, <1>6, <1>8, <2>1, <2>2, Zenon
<1>10. dev_scl' \in BOOLEAN
  BY Zenon DEF PeripheralTick
<1>11. QED
  BY <1>3, <1>4, <1>5, <1>9, <1>10

-----------------------------------------------------------------------------
(* The invariant.                                                          *)

\* What the proofs about I2CTransfer say of a clock.
LEMMA AbstractClock ==
    ASSUME TypeOK, T!Placed, T!IInv, T!Offering, T!Bit!Next, CoreTick, DriverTick, OutcomeTick
    PROVE  /\ T!IInv' /\ T!Offering' /\ T!Placed'
           /\ CsrTypeOK' /\ Byte!TypeOK' /\ DriverTypeOK'
           /\ outcome' \in {"none", "pending", "done", "lost"}
<1>1. T!Byte!Tick /\ T!CsrTick /\ T!DriverTick /\ T!OutcomeTick /\ T!TypeOK
  BY SameCoreTick, AbstractTypes
<1>2. T!IInv'
  BY ONLY <1>1, T!IInv, T!Bit!Next, T!TickInv, PrescaleAssumption, DelayAssumption,
     AddrsAssumption, BusAssumption
<1>3. T!Offering'
  BY ONLY <1>1, T!IInv, T!Offering, T!Bit!Next, T!TickOffering, PrescaleAssumption,
     DelayAssumption, AddrsAssumption, BusAssumption
<1>4. /\ T!CsrTypeOK' /\ T!Byte!TypeOK' /\ T!Bit!TypeOK' /\ T!DriverTypeOK' /\ T!Placed'
      /\ outcome' \in {"none", "pending", "done", "lost"}
  BY ONLY <1>1, T!Placed, T!Bit!Next, T!TickCoreTypes, PrescaleAssumption, DelayAssumption,
     AddrsAssumption, BusAssumption
<1>5. CsrTypeOK' /\ Byte!TypeOK' /\ DriverTypeOK'
  BY <1>4, SameCsrTypes, SameByteTypes, SameDriverTypes, PTL
<1>6. QED
  BY <1>2, <1>3, <1>4, <1>5

\* And of a step of the CPU.
LEMMA AbstractCpu ==
    ASSUME TypeOK, T!Placed, T!IInv, T!Offering, CpuStep, UNCHANGED hardware
    PROVE  /\ T!IInv' /\ T!Offering' /\ T!Placed'
           /\ CsrTypeOK' /\ DriverTypeOK'
<1>1. T!CpuStep /\ UNCHANGED T!hardware /\ T!TypeOK
  BY SameCpuStep, SameHardware, AbstractTypes
<1>2. T!IInv'
  BY ONLY <1>1, T!IInv, T!CpuInv, PrescaleAssumption, DelayAssumption, AddrsAssumption,
     BusAssumption
<1>3. T!Offering'
  BY ONLY <1>1, T!IInv, T!Offering, T!CpuOffering, PrescaleAssumption, DelayAssumption,
     AddrsAssumption, BusAssumption
<1>4. T!CsrTypeOK'
  BY ONLY <1>1, T!Placed, T!CpuCsrTypes, PrescaleAssumption, DelayAssumption, AddrsAssumption,
     BusAssumption
<1>5. T!DriverTypeOK' /\ T!Placed'
  BY ONLY <1>1, T!Placed, T!CpuDriverTypes, PrescaleAssumption, DelayAssumption,
     AddrsAssumption, BusAssumption
<1>6. CsrTypeOK' /\ DriverTypeOK'
  BY <1>4, <1>5, SameCsrTypes, SameDriverTypes, PTL
<1>7. QED
  BY <1>2, <1>3, <1>5, <1>6

\* A clock keeps every type, and the invariant of the layers above.
LEMMA ClockTypes ==
    ASSUME TypeOK, T!Placed, T!IInv, T!Offering, T!Bit!Next, Clock
    PROVE  TypeOK' /\ T!IInv' /\ T!Offering' /\ T!Placed'
<1>1. CoreTick /\ Bit!Tick /\ DriverTick /\ ObserverTick /\ PeripheralTick /\ OutcomeTick
  BY DEF Clock
<1>2. /\ T!IInv' /\ T!Offering' /\ T!Placed'
      /\ CsrTypeOK' /\ Byte!TypeOK' /\ DriverTypeOK'
      /\ outcome' \in {"none", "pending", "done", "lost"}
  BY <1>1, AbstractClock
<1>3. Bit!TypeOK'
  <2>1. /\ Bit!TypeOK /\ CsrTypeOK /\ core_txd \in BOOLEAN
        /\ dev_scl \in BOOLEAN /\ dev_sda \in BOOLEAN
    BY DEF TypeOK, Byte!TypeOK
  <2>2. QED
    BY <1>1, <2>1, BitTypes
<1>4. /\ {dev_scl, dev_sda, rw, was_scl, was_sda}' \subseteq BOOLEAN
      /\ role' \in Roles /\ nbit' \in 0..8 /\ reply' \in 0..255
      /\ bit' \in {"none", "0", "1"}
      /\ wire' \in Seq(Symbols) /\ replies' \in Seq(0..255)
  BY <1>1, PeripheralTypes
<1>5. HistoryTypeOK'
  BY <1>2, <1>4 DEF HistoryTypeOK
<1>6. TypeOK'
  BY <1>2, <1>3, <1>4, <1>5 DEF TypeOK
<1>7. QED
  BY <1>2, <1>6

\* So does a step of the CPU.
LEMMA CpuTypes ==
    ASSUME TypeOK, T!Placed, T!IInv, T!Offering, Cpu \/ Caller
    PROVE  TypeOK' /\ T!IInv' /\ T!Offering' /\ T!Placed'
<1>1. CpuStep /\ UNCHANGED <<hardware, peripheral, lines>>
  BY CpuParts
<1>2. T!IInv' /\ T!Offering' /\ T!Placed' /\ CsrTypeOK' /\ DriverTypeOK'
  BY <1>1, AbstractCpu
<1>3. Byte!TypeOK' /\ Bit!TypeOK'
  <2>1. UNCHANGED <<byteregs, bitouts, bitregs>> /\ Byte!TypeOK /\ Bit!TypeOK
    BY <1>1 DEF hardware, TypeOK
  <2>2. Byte!TypeOK'
    BY <2>1 DEF byteregs, Byte!TypeOK
  <2>3. Bit!TypeOK'
    BY <2>1 DEF bitouts, bitregs, Bit!TypeOK
  <2>4. QED
    BY <2>2, <2>3
<1>4. HistoryTypeOK'
  <2>1. wire' \in {wire, <<>>} /\ replies' \in {replies, <<>>} /\ outcome' \in {outcome, "pending"}
    BY DEF Cpu, Caller, CpuCommand, CpuInit, CpuOther, CpuCall, history
  <2>2. /\ wire \in Seq(Symbols) /\ replies \in Seq(0..255)
        /\ outcome \in {"none", "pending", "done", "lost"}
    BY DEF TypeOK, HistoryTypeOK
  <2>3. <<>> \in Seq(Symbols) /\ <<>> \in Seq(0..255)
    OBVIOUS
  <2>4. wire' \in Seq(Symbols) /\ replies' \in Seq(0..255)
    BY <2>1, <2>2, <2>3, Zenon
  <2>5. outcome' \in {"none", "pending", "done", "lost"}
    BY <2>1, <2>2
  <2>6. QED
    BY <2>4, <2>5 DEF HistoryTypeOK
<1>5. UNCHANGED <<peripheral, lines>>
  BY <1>1
<1>6. TypeOK'
  BY <1>2, <1>3, <1>4, <1>5 DEF TypeOK, peripheral, lines
<1>7. QED
  BY <1>2, <1>6

\* A clock keeps the invariant.
LEMMA ClockInv ==
    ASSUME Timed, BInv, Clock
    PROVE  BInv'
<1>1. pc' = pc
  BY ClockKeeps
<1>2. T!IInv /\ T!Offering /\ TypeOK /\ T!Placed /\ NeverLost /\ Together
  BY DEF BInv
<1>3. CASE pc \in Initialising
  <2>1. Asleep
    BY <1>3 DEF BInv
  <2>2. Asleep' /\ NeverLost' /\ T!Bit!Next /\ UNCHANGED Device
    BY <1>2, <1>3, <2>1, SleepingClock
  <2>3. TypeOK' /\ T!IInv' /\ T!Offering' /\ T!Placed'
    BY <1>2, <2>2, ClockTypes
  <2>4. Together'
    <3>1. dev_sda'
      BY <2>2 DEF Asleep
    <3>2. pc' \in {"core_reset", "prescale", "control"}
      BY <1>1, <1>3 DEF Initialising
    <3>3. QED
      BY <3>1, <3>2 DEF Together, Drives, InTurn, T!Pending
  <2>5. QED
    BY <1>1, <1>3, <2>2, <2>3, <2>4 DEF BInv
<1>4. CASE pc \notin Initialising
  <2>1. Sound
    BY <1>2, <1>4 DEF BInv, Sound
  <2>2. Ticking /\ Obeyed /\ T!Bit!Next /\ CoreTick
    BY <2>1, ClockParts
  <2>3. TypeOK' /\ T!IInv' /\ T!Offering' /\ T!Placed'
    BY <1>2, <2>2, ClockTypes
  <2>4. Lines'
    BY <1>2, <2>1, <2>2, LinesStep, SoundTypes DEF Sound
  <2>5. NeverLost'
    <3>1. i2c_al' = FALSE
      BY <2>1, <2>2, NothingLost DEF Sound, Ticking
    <3>2. arb_lost' = FALSE
      BY <1>2, <2>2, Zenon DEF CoreTick, CsrTick, NeverLost
    <3>3. QED
      BY <3>1, <3>2 DEF NeverLost
  <2>6. Together'
    BY <2>1, TogetherStep
  <2>7. QED
    BY <1>1, <1>4, <2>3, <2>4, <2>5, <2>6 DEF BInv
<1>5. QED
  BY <1>3, <1>4

\* A step of the CPU keeps it.
LEMMA CpuInv ==
    ASSUME Timed, BInv, Cpu \/ Caller
    PROVE  BInv'
<1>1. T!IInv /\ T!Offering /\ TypeOK /\ T!Placed /\ NeverLost /\ Together
  BY DEF BInv
<1>2. CpuStep /\ UNCHANGED <<hardware, peripheral, lines>>
  BY CpuParts
<1>3. TypeOK' /\ T!IInv' /\ T!Offering' /\ T!Placed'
  BY <1>1, CpuTypes
<1>4. CASE pc \in Initialising
  <2>1. Asleep
    BY <1>4 DEF BInv
  <2>2. CpuInit
    BY <1>2, <1>4
    DEF CpuStep, CpuCommand, CommandStore, CpuOther, CpuCall, Call, TxrStore, PollBusy, PollDone,
        ReadRxr, Advance, Return, Access, Initialising
  <2>3. NeverLost' /\ IF pc' \in Initialising THEN Asleep' ELSE Lines' /\ pc' = "idle"
    BY <1>1, <1>2, <2>1, <2>2, InitSteps
  <2>4. Together'
    <3>1. UNCHANGED <<dev_sda, role, nbit, scl_oen>>
      BY <1>2 DEF hardware, bitregs, peripheral
    <3>2. dev_sda' /\ role' = "off" /\ nbit' = 0 /\ scl_oen'
      BY <2>1, <3>1 DEF Asleep
    <3>3. pc' \in {"core_reset", "prescale", "control", "idle"}
      BY <2>3 DEF Initialising
    <3>4. QED
      BY <3>2, <3>3 DEF Together, Drives, InTurn, T!Pending
  <2>5. QED
    BY <1>3, <2>3, <2>4 DEF BInv
<1>5. CASE pc \notin Initialising
  <2>1. Sound
    BY <1>1, <1>5 DEF BInv, Sound
  <2>2. Lines' /\ NeverLost' /\ Together'
    BY <1>2, <1>5, <2>1, CpuLines, CpuTogether
  <2>3. pc' \notin Initialising
    <3>1. CpuCommand \/ CpuOther \/ CpuCall
      BY <1>2, <1>5, <2>1, CpuWrites
    <3>2. QED
      BY <1>5, <3>1
      DEF CpuCommand, CommandStore, CpuOther, CpuCall, Call, TxrStore, PollBusy, PollDone,
          ReadRxr, Advance, Return, Access, Begin, Initialising
  <2>4. QED
    BY <1>3, <2>2, <2>3 DEF BInv
<1>6. QED
  BY <1>4, <1>5

\* The invariant holds after power-on.
LEMMA InitInv ==
    ASSUME Init
    PROVE  BInv
<1> USE DEF Init
<1>1. /\ core_reset = FALSE /\ arb_lost = FALSE /\ command = NoCommand /\ control.EN = FALSE
      /\ txr = 0 /\ prescale = ResetPrescale
  BY DEF CsrInit
<1>2. /\ byte_state = "IDLE" /\ core_cmd = "NOP" /\ done = FALSE /\ shift = FALSE /\ ld = FALSE
  BY DEF Byte!Init
<1>3. /\ dscl_oen = TRUE /\ peripheral_wait = FALSE /\ clk_en = TRUE /\ filter_cnt = 0
      /\ i2c_al = FALSE /\ core_ack = FALSE /\ bit_state = "idle"
      /\ scl_oen = TRUE /\ sda_oen = TRUE /\ sda_chk = FALSE
  BY DEF Bit!Init
<1>4. pc = "core_reset" /\ outcome = "none" /\ elapsed = 0
  BY DEF DriverInit, HistoryInit
<1>5. Serving = "NOP" /\ Age = 0
  BY <1>3 DEF Serving, Age
<1>6. T!IInv /\ T!Offering /\ T!Placed
  BY <1>1, <1>2, <1>3, <1>4, <1>5
  DEF T!IInv, T!Handshake, T!ResetOver, T!Resting, T!Settled, T!Underway, T!Over, T!LossEndsTxn,
      T!Offering, T!Placed, T!Busy, NoCommand, T!NoCommand
<1>7. NeverLost
  BY <1>1, <1>3 DEF NeverLost
<1>8. Asleep
  BY <1>1, <1>3, <1>4 DEF Asleep
<1>9. Together
  BY <1>4 DEF Together, Drives, InTurn, T!Pending
<1>10. TypeOK
  <2>1. CsrTypeOK
    <3>1. NoCommand \in Command /\ [EN |-> FALSE, IEN |-> FALSE] \in [EN : BOOLEAN, IEN : BOOLEAN]
      BY DEF Command, NoCommand
    <3>2. 0 \in 0..255 /\ FALSE \in BOOLEAN
      OBVIOUS
    <3>3. CsrInit
      OBVIOUS
    <3>4. QED
      BY <3>1, <3>2, <3>3, Zenon DEF CsrInit, CsrTypeOK
  <2>2. Byte!TypeOK
    <3>1. 0 \in 0..255 /\ 0 \in 0..7 /\ FALSE \in BOOLEAN
      OBVIOUS
    <3>2. "IDLE" \in Byte!ByteStates /\ "NOP" \in Byte!BitCommands
      BY DEF Byte!ByteStates, Byte!BitCommands
    <3>3. QED
      BY <3>1, <3>2, Zenon DEF Byte!Init, Byte!TypeOK
  <2>3. Bit!TypeOK
    <3>1. cnt = prescale /\ filter_cnt = 0
          /\ cSCL = <<FALSE, FALSE>> /\ cSDA = <<FALSE, FALSE>>
          /\ fSCL = <<TRUE, TRUE, TRUE>> /\ fSDA = <<TRUE, TRUE, TRUE>>
          /\ bit_state = "idle"
      BY DEF Bit!Init
    <3>2. /\ cSCL \in Bit!Bits(2) /\ cSDA \in Bit!Bits(2)
          /\ fSCL \in Bit!Bits(3) /\ fSDA \in Bit!Bits(3)
      BY <3>1, Pairs, Triples, Zenon
    <3>3. \A b \in {dscl_oen, peripheral_wait, clk_en, sSCL, sSDA, dSCL, dSDA,
                    sta_condition, sto_condition, busy, cmd_stop, i2c_al, core_rxd,
                    core_ack, scl_oen, sda_oen, sda_chk} : b \in BOOLEAN
      BY Zenon DEF Bit!Init
    <3>4. cnt \in 0..(2^16 - 1) /\ filter_cnt \in 0..(2^14 - 1)
      <4> DEFINE w == 2^16 - 1
                 v == 2^14 - 1
      <4>1. w \in Nat /\ v \in Nat /\ w = 65535
        BY Widths
      <4>2. w \in Nat /\ v \in Nat
        BY <4>1
      <4> HIDE DEF w, v
      <4>3. cnt \in Nat /\ cnt <= w
        BY <1>1, <3>1, <4>1, PrescaleAssumption
      <4>4. cnt \in 0..w /\ filter_cnt \in 0..v
        BY <3>1, <4>2, <4>3
      <4>5. QED
        BY <4>4 DEF w, v
    <3>5. bit_state \in Bit!BitStates
      BY <3>1 DEF Bit!BitStates
    <3>6. QED
      BY <3>2, <3>3, <3>4, <3>5 DEF Bit!TypeOK
  <2>4. DriverTypeOK
    <3>1. 0 \in 0..NopDelay /\ NoReturn \in Int
      BY DelayAssumption DEF NoReturn
    <3>2. status \in [RxACK : BOOLEAN, ArbLost : BOOLEAN]
      BY DEF DriverInit
    <3>3. <<>> \in Seq(0..255)
      OBVIOUS
    <3>4. QED
      BY <3>1, <3>2, <3>3 DEF DriverInit, DriverTypeOK, PCs
  <2>5. HistoryTypeOK
    BY DEF HistoryInit, HistoryTypeOK
  <2>6. /\ {dev_scl, dev_sda, rw, was_scl, was_sda} \subseteq BOOLEAN
        /\ role \in Roles /\ nbit \in 0..8 /\ reply \in 0..255
        /\ bit \in {"none", "0", "1"}
    <3>1. /\ dev_scl = TRUE /\ dev_sda = TRUE /\ rw = FALSE /\ was_scl = TRUE /\ was_sda = TRUE
          /\ role = "off" /\ nbit = 0 /\ reply = 0 /\ bit = "none"
      OBVIOUS
    <3>2. {dev_scl, dev_sda, rw, was_scl, was_sda} \subseteq BOOLEAN
      BY ONLY <3>1, Zenon
    <3>3. nbit \in 0..8 /\ reply \in 0..255
      BY ONLY <3>1
    <3>4. role \in Roles /\ bit \in {"none", "0", "1"}
      BY ONLY <3>1 DEF Roles
    <3>5. QED
      BY ONLY <3>2, <3>3, <3>4
  <2>7. QED
    BY <2>1, <2>2, <2>3, <2>4, <2>5, <2>6 DEF TypeOK
<1>11. QED
  BY <1>4, <1>6, <1>7, <1>8, <1>9, <1>10 DEF BInv, Initialising

\* A step in which nothing happens keeps it.
LEMMA StutterInv ==
    ASSUME BInv, UNCHANGED vars
    PROVE  BInv'
<1>1. /\ UNCHANGED <<hardware, peripheral, lines>>
      /\ UNCHANGED <<prescale, control, core_reset, command, txr, tip, arb_lost, intflag>>
      /\ UNCHANGED <<pc, txn, k, status, rx, ret, elapsed, outcome, wire, replies>>
  BY DEF vars, csr, driver, history
<1>2. UNCHANGED T!hardware
  BY <1>1, SameHardware
<1>3. /\ UNCHANGED <<byte_state, core_cmd, core_txd, rxr, dcnt, shift, ld, done, rxack, core_ack,
                     core_rxd, i2c_al, Serving, Age>>
  BY <1>2 DEF T!hardware, T!byteregs, T!bitouts
<1>4. T!IInv' /\ T!Offering' /\ T!Placed'
  <2>1. T!IInv /\ T!Offering /\ T!Placed
    BY DEF BInv
  <2>2. T!IInv'
    BY <1>1, <1>3, <2>1
    DEF T!IInv, T!Handshake, T!ResetOver, T!Resting, T!Settled, T!Underway, T!Over,
        T!LossEndsTxn, T!NoCommand
  <2>3. T!Offering'
    BY <1>1, <1>3, <2>1 DEF T!Offering, T!Offered, T!Byte!Msb
  <2>4. T!Placed'
    BY <1>1, <2>1 DEF T!Placed
  <2>5. QED
    BY <2>2, <2>3, <2>4
<1>5. TypeOK'
  <2>1. TypeOK
    BY DEF BInv
  <2>2. Bit!TypeOK'
    BY <1>1, <2>1 DEF TypeOK, hardware, bitregs, bitouts, Bit!TypeOK
  <2>3. Byte!TypeOK'
    BY <1>3, <2>1 DEF TypeOK, Byte!TypeOK
  <2>4. CsrTypeOK' /\ DriverTypeOK' /\ HistoryTypeOK'
    BY <1>1, <2>1 DEF TypeOK, CsrTypeOK, DriverTypeOK, HistoryTypeOK
  <2>5. QED
    BY <1>1, <2>1, <2>2, <2>3, <2>4 DEF TypeOK, peripheral, lines
<1>6. NeverLost'
  BY <1>1, <1>3 DEF BInv, NeverLost
<1>7. ASSUME Asleep PROVE Asleep'
  BY <1>1, <1>7 DEF Asleep, hardware, bitregs, peripheral, lines
<1>8. ASSUME Lines PROVE Lines'
  BY <1>1, <1>8, LinesLeft
<1>9. Together'
  <2>1. Together /\ Drives'
    BY <1>1, CpuLeaves DEF BInv, Together
  <2>2. UNCHANGED <<role, nbit, rw, scl_oen, bit_state, was_sda, rxack>>
    BY <1>1, CpuLeaves
  <2>3. (Ready(txn[k])' <=> Ready(txn[k])) /\ (After(txn[k])' <=> After(txn[k]))
    BY <1>1, <2>2 DEF Ready, After, RoleAfter
  <2>4. T!Turn' <=> T!Turn
    BY <1>1, <1>3 DEF T!Turn, T!BitCommandOf, T!ThisOp
  <2>5. BitsGone' = BitsGone /\ (Owned' <=> Owned)
    BY <1>3, <2>2 DEF BitsGone, Owned
  <2>6. InStep(txn[k])' <=> InStep(txn[k])
    BY <1>1, <1>3, <2>2, <2>3, <2>5 DEF InStep, Addressed, BitOf
  <2>7. InTurn'
    BY <1>1, <2>1, <2>4, <2>6 DEF Together, InTurn, T!Pending, CommandOf
  <2>8. QED
    BY <1>1, <2>1, <2>2, <2>3, <2>7 DEF Together
<1>10. QED
  BY <1>1, <1>4, <1>5, <1>6, <1>7, <1>8, <1>9 DEF BInv

\* The inductive invariant holds in every reachable state.
LEMMA BusInvariance == Timed => (Spec => []BInv)
<1> SUFFICES ASSUME Timed PROVE Spec => []BInv
  OBVIOUS
<1>1. Init => BInv
  BY InitInv
<1>2. BInv /\ [Next]_vars => BInv'
  BY ClockInv, CpuInv, StutterInv DEF Next, TickRunning, TickStretched
<1>3. QED
  BY <1>1, <1>2, PTL DEF Spec

-----------------------------------------------------------------------------
(* The theorems.                                                           *)

\* Every clock is a step of the bit service, before the core is enabled too.
LEMMA ServedClock ==
    ASSUME Timed, BInv, Clock
    PROVE  T!Bit!Next
<1>1. T!IInv /\ TypeOK /\ NeverLost
  BY DEF BInv
<1>2. CASE pc \in Initialising
  BY <1>1, <1>2, SleepingClock DEF BInv
<1>3. CASE pc \notin Initialising
  <2>1. Sound
    BY <1>1, <1>3 DEF BInv, Sound
  <2>2. QED
    BY <2>1, ClockParts
<1>4. QED
  BY <1>2, <1>3

\* Every register of driver, wrapper, both controllers, peripheral and
\* observer keeps its type, the divider and filter counters of
\* i2c_controller_bit_ctrl.v their widths among them, for all addresses, data,
\* replies and stretches and every divider of a quarter of ten clocks or more.
THEOREM BusTypeCorrect == Timed => (Spec => []TypeOK)
<1> SUFFICES ASSUME Timed PROVE Spec => []TypeOK
  OBVIOUS
<1>1. BInv => TypeOK
  BY DEF BInv
<1>2. QED
  BY <1>1, BusInvariance, PTL

\* With one controller on the bus, i2c_controller_bit_ctrl.v never reports an
\* arbitration loss, neither for a peripheral that stretches SCL nor for one
\* that refuses a byte, and the driver never sees ArbLost.
THEOREM BusNeverLosesArbitration == Timed => (Spec => []NoArbitrationLoss)
<1> SUFFICES ASSUME Timed PROVE Spec => []NoArbitrationLoss
  OBVIOUS
<1>1. BInv => NoArbitrationLoss
  BY DEF BInv, NeverLost, NoArbitrationLoss
<1>2. QED
  BY <1>1, BusInvariance, PTL

\* When a transaction of i2c.c has succeeded, SCL and SDA are both high.
THEOREM BusIsReleased == Timed => (Spec => []BusReleased)
<1> SUFFICES ASSUME Timed PROVE Spec => []BusReleased
  OBVIOUS
<1>1. BInv => BusReleased
  <2> SUFFICES ASSUME BInv, pc = "idle", ret >= 0 PROVE scl /\ sda
    BY DEF BusReleased
  <2>1. Lines /\ Together /\ T!IInv
    BY DEF BInv, Initialising
  <2>2. scl_oen
    BY <2>1 DEF Together
  <2>3. Serving = "NOP"
    BY <2>1 DEF T!IInv, T!Resting, T!Settled
  <2>4. bit_state = "idle"
    BY <2>3, ServingOf DEF BInv, TypeOK, Bit!TypeOK, Bit!BitStates, Addressing, Stopping, Getting, Putting
  <2>5. High /\ sda
    BY <2>1, <2>2, <2>4 DEF Lines, OnLines
  <2>6. QED
    BY <2>5 DEF High
<1>2. QED
  BY <1>1, BusInvariance, PTL

\* The bit controller of i2c_controller_bit_ctrl.v, on lines with a peripheral,
\* does what I2CBitService promises the byte controller.
THEOREM ImplementsService == Timed => (Spec => ImplementsBitService)
<1> SUFFICES ASSUME Timed PROVE Spec => ImplementsBitService
  OBVIOUS
<1>1. Init => Service!Init
  BY DEF Init, Bit!Init, Service!Init, Serving, Age
<1>2. BInv /\ [Next]_vars => [Service!Next]_Service!outputs
  <2> SUFFICES ASSUME BInv, [Next]_vars PROVE [Service!Next]_Service!outputs
    OBVIOUS
  <2>1. CASE Clock
    <3>1. T!Bit!Next
      BY <2>1, ServedClock
    <3>2. Service!Next
      BY <3>1
      DEF T!Bit!Next, T!Bit!Abort, T!Bit!Accept, T!Bit!Rest, T!Bit!Work, T!Bit!Finish, T!Bit!Free,
          Service!Next, Service!Abort, Service!Accept, Service!Rest, Service!Work, Service!Finish,
          Service!Free
    <3>3. QED
      BY <3>2
  <2>2. CASE Cpu \/ Caller \/ UNCHANGED vars
    <3>1. UNCHANGED hardware
      BY <2>2 DEF Cpu, Caller, vars
    <3>2. UNCHANGED <<bitouts, bit_state, clk_en>>
      BY <3>1 DEF hardware, bitregs
    <3>3. Serving' = Serving /\ Age' = Age
      BY <3>2 DEF Serving, Age
    <3>4. QED
      BY <3>2, <3>3 DEF Service!outputs, bitouts
  <2>3. QED
    BY <2>1, <2>2 DEF Next, TickRunning, TickStretched
<1>3. QED
  BY <1>1, <1>2, BusInvariance, PTL DEF Spec, ImplementsBitService, Service!Spec

-----------------------------------------------------------------------------
(* I2CBus implements I2CTransfer: its wires and the peripheral's answers.  *)

\* A reply under way is the last one, and on SDA bit by bit.
Answers ==
    role = "talk" =>
        /\ replies # <<>> /\ reply = Last(replies) /\ reply \in RxBytes
        /\ nbit < 8 => (dev_sda <=> BitOf(reply, 7 - nbit))

\* A START that has been seen is the last symbol while its command goes on.
Begins == StartSent => wire # <<>> /\ Last(wire) = "START"

\* What was appended is the last element.
LEMMA Appended ==
    ASSUME NEW S, NEW s \in Seq(S), NEW x \in S
    PROVE  /\ s \o <<>> = s /\ s \o <<x>> = Append(s, x)
           /\ Append(s, x) # <<>> /\ Front(Append(s, x)) = s /\ Last(Append(s, x)) = x
<1>1. s \o <<>> = s /\ s \o <<x>> = Append(s, x) /\ Append(s, x) # <<>>
  BY ConcatEmptySeq, AppendIsConcat, AppendProperties
<1>2. Front(Append(s, x)) = s
  BY DEF Front
<1>3. Last(Append(s, x)) = x
  BY DEF Last
<1>4. QED
  BY <1>1, <1>2, <1>3

\* And the last element can be appended to the others.
LEMMA Ended ==
    ASSUME NEW S, NEW s \in Seq(S), s # <<>>
    PROVE  Append(Front(s), Last(s)) = s /\ Front(s) \in Seq(S) /\ Last(s) \in S
<1>1. Len(s) \in Nat /\ Len(s) >= 1
  BY EmptySeq
<1>2. Last(s) \in S
  BY <1>1 DEF Last
<1>3. Front(s) \in Seq(S) /\ Len(Front(s)) = Len(s) - 1
      /\ \A i \in 1..(Len(s) - 1) : Front(s)[i] = s[i]
  <2> DEFINE n == Len(s) - 1
  <2>1. n \in Nat /\ n < Len(s) /\ \A i \in 1..n : s[i] \in S
    BY <1>1
  <2> HIDE DEF n
  <2>2. /\ SubSeq(s, 1, n) \in Seq(S)
        /\ Len(SubSeq(s, 1, n)) = (IF 1 <= n THEN n - 1 + 1 ELSE 0)
        /\ \A i \in 1..(n - 1 + 1) : SubSeq(s, 1, n)[i] = s[1 + i - 1]
    BY <2>1, SubSeqProperties
  <2>3. n - 1 + 1 = n /\ (IF 1 <= n THEN n - 1 + 1 ELSE 0) = n /\ \A i \in 1..n : 1 + i - 1 = i
    BY <2>1
  <2>4. SubSeq(s, 1, n) \in Seq(S) /\ Len(SubSeq(s, 1, n)) = n
        /\ \A i \in 1..n : SubSeq(s, 1, n)[i] = s[i]
    BY <2>2, <2>3
  <2>5. QED
    BY <2>4 DEF Front, n
<1>4. Append(Front(s), Last(s)) \in Seq(S) /\ Len(Append(Front(s), Last(s))) = Len(s)
  BY <1>1, <1>2, <1>3
<1>5. ASSUME NEW i \in 1..Len(s)
      PROVE  Append(Front(s), Last(s))[i] = s[i]
  BY <1>1, <1>2, <1>3 DEF Last
<1>6. QED
  BY <1>2, <1>3, <1>4, <1>5, SeqEqual

\* The symbol that a bit command leaves on the wire.
NextSymbol == IF Serving \in {"READ", "WRITE"} THEN BitSymbol(core_rxd') ELSE Serving

\* Where the START is seen, and where it has been.
LEMMA StartPlace ==
    ASSUME Lines
    PROVE  /\ StartSeen => ~StartSent
           /\ StartSent => ~sda
           /\ bit_state = "start_c" => sda
           /\ bit_state = "start_d" /\ ~StartSent => StartSeen
           /\ bit_state = "start_e" => StartSent
<1>1. OnLines /\ Flags
  BY DEF Lines
<1>2. StartSeen => ~StartSent
  BY DEF StartSeen, StartSent
<1>3. bit_state \in {"start_d", "start_e"} => High /\ ~sda_oen /\ ~sda
  BY <1>1 DEF OnLines, sda
<1>4. bit_state = "start_c" => sda
  BY <1>1 DEF OnLines
<1>5. bit_state = "start_e" => SdaStill
  BY <1>1 DEF OnLines
<1>6. High => scl /\ was_scl
  BY <1>1 DEF High, SclStill, Still, Flags
<1>7. bit_state = "start_e" => ~was_sda
  BY <1>1, <1>3, <1>5 DEF SdaStill, Still, Flags
<1>8. QED
  BY <1>2, <1>3, <1>4, <1>6, <1>7 DEF StartSeen, StartSent

\* The clock of cmd_ack: what was on its way arrives.
LEMMA WireArrives ==
    ASSUME Timed, Sound, Clock, core_ack
    PROVE  ~core_ack' /\ SymbolsSent' = SymbolsSent /\ Begins'
<1>1. T!Pending /\ ~done /\ byte_state # "IDLE"
  BY AtRest DEF Sound, T!IInv, T!Settled, T!Handshake
<1>2. Working
  BY <1>1 DEF Working
<1>3. ~core_ack' /\ bit_state' = "idle"
  BY <1>2, AckKnown
<1>4. core_cmd \in {"START", "STOP", "READ", "WRITE"}
  BY <1>1, <1>2, WorkingKnown DEF T!BitCommandOf, Byte!ByteStates
<1>5. Lines /\ bit_state \in Bit!BitStates /\ ObserverTick
  BY SoundTypes, ClockParts DEF Sound
<1>6. bit_state = "idle" /\ (core_cmd \in {"READ", "WRITE"} => bit = BitSymbol(core_rxd))
      /\ (core_cmd = "START" => bit = "none")
  BY <1>5 DEF Lines, AckSeen
<1>7. ~StartSent /\ ~StartSent'
  BY <1>3, <1>6 DEF StartSent
<1>8. OnItsWay' = <<>>
  BY <1>3 DEF OnItsWay
<1>9. wire \in Seq(Symbols) /\ wire' \in Seq(Symbols)
  BY ClockTypes, ClockParts DEF Sound, TypeOK, HistoryTypeOK
<1>10. wire' \o <<>> = wire' /\ wire \o <<>> = wire
  BY <1>9, ConcatEmptySeq
<1>11. CASE core_cmd = "STOP"
  <2>1. StopSeen /\ ~StartSeen
    BY <1>5, <1>11, Events DEF StopSeen, StartSeen
  <2>2. wire' = Append(wire, "STOP")
    BY <1>5, <2>1 DEF ObserverTick
  <2>3. OnItsWay = <<"STOP">>
    BY <1>11 DEF OnItsWay
  <2>4. wire \o <<"STOP">> = Append(wire, "STOP")
    BY <1>9, Appended DEF Symbols
  <2>5. QED
    BY <1>3, <1>7, <1>8, <1>10, <2>2, <2>3, <2>4 DEF SymbolsSent, Begins
<1>12. CASE core_cmd = "START"
  <2>1. Fall /\ ~StartSeen /\ ~StopSeen /\ bit = "none"
    BY <1>5, <1>6, <1>12, Events
  <2>2. wire' = wire
    BY <1>5, <2>1 DEF ObserverTick
  <2>3. OnItsWay = <<>>
    BY <1>12 DEF OnItsWay
  <2>4. QED
    BY <1>3, <1>7, <1>8, <1>10, <2>2, <2>3 DEF SymbolsSent, Begins
<1>13. CASE core_cmd \in {"READ", "WRITE"}
  <2>1. Fall /\ ~StartSeen /\ ~StopSeen /\ bit \in {"0", "1"}
    BY <1>5, <1>6, <1>13, Events DEF BitSymbol
  <2>2. wire' = Append(wire, bit)
    BY <1>5, <2>1 DEF ObserverTick
  <2>3. OnItsWay = <<bit>>
    BY <1>13 DEF OnItsWay
  <2>4. wire \o <<bit>> = Append(wire, bit)
    BY <1>9, <2>1, Appended DEF Symbols
  <2>5. QED
    BY <1>3, <1>7, <1>8, <1>10, <2>2, <2>3, <2>4 DEF SymbolsSent, Begins
<1>14. QED
  BY <1>4, <1>11, <1>12, <1>13

\* Until then only a START appears, and not yet as a symbol that is sent.
LEMMA WireWaits ==
    ASSUME Timed, Sound, Clock, Begins, ~core_ack, ~core_ack'
    PROVE  SymbolsSent' = SymbolsSent /\ Begins'
<1>1. Lines /\ bit_state \in Bit!BitStates /\ ObserverTick /\ Bit!Tick /\ ~core_reset /\ ~i2c_al
  BY SoundTypes, ClockParts DEF Sound
<1>2. ~Fall /\ ~StopSeen /\ (StartSeen => bit_state = "start_d")
  BY <1>1, Events
<1>3. wire' = (IF StartSeen THEN Append(wire, "START") ELSE wire) /\ (was_sda' <=> sda)
  BY <1>1, <1>2 DEF ObserverTick
<1>4. OnItsWay = <<>> /\ OnItsWay' = <<>>
  BY DEF OnItsWay
<1>5. wire \in Seq(Symbols) /\ wire' \in Seq(Symbols)
  BY ClockTypes, ClockParts DEF Sound, TypeOK, HistoryTypeOK
<1>6. wire' \o <<>> = wire' /\ wire \o <<>> = wire
  BY <1>5, ConcatEmptySeq
<1>7. bit_state \in {"start_d", "start_e"} => bit_state' \in {"start_d", "start_e"}
  <2>1. ASSUME bit_state \in {"start_d", "start_e"}, clk_en PROVE bit_state' \in {"start_d", "start_e"}
    <3>1. bit_state # "start_e"
      BY <1>1, <2>1, DriveStep, Zenon DEF Bit!LastQuarters
    <3>2. QED
      BY <1>1, <2>1, <3>1, NextQuarter
  <2>2. ~clk_en => bit_state' = bit_state
    BY <1>1, DriveStep
  <2>3. QED
    BY <2>1, <2>2
<1>8. CASE StartSeen
  <2>1. ~StartSent /\ ~sda
    BY <1>1, <1>8, StartPlace DEF StartSeen
  <2>2. StartSent'
    BY <1>2, <1>3, <1>7, <1>8, <2>1 DEF StartSent
  <2>3. wire' # <<>> /\ Front(wire') = wire /\ Last(wire') = "START"
    <3>1. "START" \in Symbols
      BY DEF Symbols
    <3>2. wire' = Append(wire, "START")
      BY <1>3, <1>8
    <3>3. /\ Append(wire, "START") # <<>> /\ Front(Append(wire, "START")) = wire
          /\ Last(Append(wire, "START")) = "START"
      BY <1>5, <3>1, Appended
    <3>4. QED
      BY <3>2, <3>3
  <2>4. QED
    BY <1>4, <1>6, <2>1, <2>2, <2>3 DEF SymbolsSent, Begins
<1>9. CASE ~StartSeen /\ StartSent
  <2>1. StartSent'
    BY <1>1, <1>3, <1>7, <1>9, StartPlace DEF StartSent
  <2>2. QED
    BY <1>3, <1>9, <2>1 DEF SymbolsSent, Begins
<1>10. CASE ~StartSeen /\ ~StartSent
  <2>1. bit_state \notin {"start_d", "start_e"}
    BY <1>1, <1>10, StartPlace
  <2>2. bit_state = "start_c" => was_sda'
    BY <1>1, <1>3, StartPlace
  <2>3. ~StartSent'
    BY <1>1, <2>1, <2>2, QuarterBefore DEF StartSent
  <2>4. QED
    BY <1>3, <1>4, <1>6, <1>10, <2>3 DEF SymbolsSent, Begins
<1>11. QED
  BY <1>8, <1>9, <1>10

\* The clock in which a bit command ends sends its symbol.
LEMMA WireSends ==
    ASSUME Timed, Sound, Clock, Begins, ~core_ack, core_ack'
    PROVE  SymbolsSent' = Append(SymbolsSent, NextSymbol) /\ Begins'
<1>1. Lines /\ bit_state \in Bit!BitStates /\ Bit!Tick /\ CoreTick /\ ObserverTick /\ ~core_reset
      /\ ~i2c_al /\ Ticking /\ Obeyed /\ T!Bit!Next /\ T!IInv /\ T!Offering
  BY SoundTypes, ClockParts DEF Sound
<1>2. bit_state \in Bit!LastQuarters /\ bit_state' = "idle"
  BY <1>1, DriveStep, AckStep, Zenon
<1>3. Serving # "NOP" /\ Serving = core_cmd /\ core_cmd' = core_cmd
  <2>1. Serving # "NOP" /\ Serving = core_cmd
    BY <1>1, <1>2 DEF Serving, Obeyed, Bit!LastQuarters
  <2>2. QED
    BY <1>1, <2>1, CommandHeld
<1>4. core_cmd' \in {"READ", "WRITE"} => bit' = BitSymbol(core_rxd')
  BY <1>1, AckStep
<1>5. ~StartSent'
  BY <1>2 DEF StartSent
<1>6. ~StartSeen /\ wire' = wire
  <2>1. ~StartSeen /\ ~Fall /\ ~StopSeen
    BY <1>1, <1>2, Events DEF Bit!LastQuarters
  <2>2. QED
    BY <1>1, <2>1 DEF ObserverTick
<1>7. wire \in Seq(Symbols)
  BY DEF Sound, TypeOK, HistoryTypeOK
<1>8. Begins'
  BY <1>5 DEF Begins
<1>9. CASE core_cmd = "START"
  <2>1. StartSent
    BY <1>1, <1>2, <1>3, <1>9, StartPlace DEF Serving, Bit!LastQuarters
  <2>2. wire # <<>> /\ Last(wire) = "START"
    BY <2>1 DEF Begins
  <2>3. Append(Front(wire), "START") = wire /\ wire \o <<>> = wire
    BY <1>7, <2>2, Ended, ConcatEmptySeq
  <2>4. OnItsWay' = <<>> /\ NextSymbol = "START"
    BY <1>3, <1>9 DEF OnItsWay, NextSymbol
  <2>5. QED
    BY <1>5, <1>6, <1>8, <2>1, <2>3, <2>4 DEF SymbolsSent
<1>10. CASE core_cmd # "START"
  <2>1. ~StartSent
    BY <1>3, <1>10 DEF Serving, StartSent
  <2>2. OnItsWay = <<>> /\ OnItsWay' = <<NextSymbol>> /\ NextSymbol \in Symbols
    <3>1. core_cmd \in {"STOP", "READ", "WRITE"}
      BY <1>2, <1>3, <1>10 DEF Serving, Bit!LastQuarters
    <3>2. QED
      BY <1>3, <1>4, <3>1 DEF OnItsWay, NextSymbol, Symbols, BitSymbol
  <2>3. wire \o <<>> = wire /\ wire \o <<NextSymbol>> = Append(wire, NextSymbol)
    BY <1>7, <2>2, Appended
  <2>4. QED
    BY <1>5, <1>6, <1>8, <2>1, <2>2, <2>3 DEF SymbolsSent
<1>11. QED
  BY <1>9, <1>10

\* So the symbols of I2CBus are sent as those of I2CTransfer are.
LEMMA WireStep ==
    ASSUME Timed, Sound, Clock, Begins
    PROVE  /\ Begins'
           /\ SymbolsSent' = IF core_ack' THEN Append(SymbolsSent, NextSymbol) ELSE SymbolsSent
BY WireArrives, WireWaits, WireSends

\* The peripheral keeps to the reply under way.
LEMMA AnswersStep ==
    ASSUME PeripheralTick, Answers, replies \in Seq(0..255), nbit \in 0..8
    PROVE  Answers'
<1>1. CASE UNCHANGED <<dev_sda, role, nbit, rw, reply, replies>>
  BY <1>1 DEF Answers
<1>2. ASSUME NEW next \in {"off", "address", "listen"}, NEW n, Listen(next, n) PROVE Answers'
  BY <1>2 DEF Listen, Answers
<1>3. ASSUME role = "talk", nbit < 7, role' = "talk", nbit' = nbit + 1,
             dev_sda' = BitOf(reply, 7 - nbit'), UNCHANGED <<reply, replies>>
      PROVE  Answers'
  BY <1>3 DEF Answers
<1>4. ASSUME role = "talk", Listen("talk", 8) PROVE Answers'
  BY <1>4 DEF Listen, Answers
<1>5. ASSUME Talk PROVE Answers'
  <2>1. PICK b \in RxBytes : reply' = b /\ replies' = Append(replies, b) /\ dev_sda' = BitOf(b, 7)
    BY <1>5 DEF Talk
  <2>2. b \in 0..255 /\ nbit' = 0 /\ 7 - 0 = 7
    BY <1>5, BusAssumption DEF Talk
  <2>3. replies' # <<>> /\ Last(replies') = b
    BY <2>1, <2>2, Appended, Zenon
  <2>4. QED
    BY <2>1, <2>2, <2>3 DEF Answers
<1>6. ASSUME AfterBit PROVE Answers'
  <2>1. CASE role = "off" /\ Listen("off", 0)
    BY <2>1, <1>2
  <2>2. CASE role \in {"address", "listen"} /\ Listen(role, nbit + 1)
    BY <2>2, <1>2
  <2>3. CASE role \in {"address", "listen"} /\ role' = role
    BY <2>3 DEF Answers
  <2>4. CASE /\ role = "talk" /\ nbit < 7
             /\ role' = "talk" /\ nbit' = nbit + 1
             /\ dev_sda' = BitOf(reply, 7 - nbit')
             /\ UNCHANGED <<rw, reply, replies>>
    BY <2>4, <1>3
  <2>5. CASE role = "talk" /\ Listen("talk", 8)
    BY <2>5, <1>4
  <2>6. CASE Listen("off", 0) \/ Talk \/ Listen("listen", 0)
    BY <2>6, <1>2, <1>5
  <2>7. QED
    BY <1>6, <2>1, <2>2, <2>3, <2>4, <2>5, <2>6 DEF AfterBit
<1>7. QED
  BY <1>1, <1>2, <1>6 DEF PeripheralTick

\* A receive command is under way until it is done.
LEMMA ReceivingStep ==
    ASSUME Timed, Sound, Clock
    PROVE  Receiving' <=> Receiving /\ ~done'
<1>1. pc' = pc /\ txn[k]' = txn[k]
  BY ClockKeeps
<1>2. outcome' = IF done THEN "done" ELSE outcome
  BY SoundTypes, ClockParts DEF OutcomeTick
<1>3. QED
  BY <1>1, <1>2 DEF Receiving

\* The answers asked for, and how much of one is left, after a clock.
AsksOn ==
    /\ RepliesAsked' = RepliesAsked
    /\ IF Serving = "READ" /\ core_ack' /\ BitsLeft > 0
       THEN core_rxd' = BitOf(ReplyAsked, BitsLeft - 1) /\ BitsLeft' = BitsLeft - 1
       ELSE BitsLeft' = BitsLeft

\* With no command under way nothing is asked.
LEMMA RestingAsks ==
    ASSUME Timed, Sound, Clock, ~T!Pending \/ done
    PROVE  AsksOn
<1>1. byte_state = "IDLE"
  BY AtRest DEF Sound, T!IInv, T!Settled, T!Handshake
<1>2. UNCHANGED Device /\ ~core_ack'
  BY <1>1, QuietClock
<1>3. ~Receiving
  BY DEF Receiving, T!Pending
<1>4. ~Receiving'
  BY <1>3, ReceivingStep
<1>5. RepliesAsked' = RepliesAsked
  BY <1>2, <1>3, <1>4 DEF RepliesAsked, Device
<1>6. BitsLeft' = 0 /\ BitsLeft = 0
  BY <1>3, <1>4 DEF BitsLeft
<1>7. QED
  BY <1>2, <1>5, <1>6 DEF AsksOn

\* The first clock of a command.
LEMMA GoAsks ==
    ASSUME Working, byte_state = "IDLE"
    PROVE  AsksOn
<1>1. Timed /\ Sound /\ Clock /\ T!Pending /\ ~done
  BY DEF Working
<1>2. UNCHANGED Device /\ ~core_ack'
  BY <1>1, QuietClock
<1>3. byte_state' = FirstOf(txn[k]) /\ ~done'
  BY <1>1, ClockParts, ByteMoves DEF Sound
<1>4. Receiving' <=> Receiving
  BY <1>1, <1>3, ReceivingStep
<1>5. RepliesAsked' = RepliesAsked
  BY <1>2, <1>4 DEF RepliesAsked, Device
<1>6. BitsLeft' = BitsLeft
  <2>1. CASE Receiving
    <3>1. txn[k].rx /\ ~txn[k].sta
      BY <2>1, WorkingKnown DEF Receiving
    <3>2. byte_state' = "READ"
      BY <1>3, <3>1 DEF FirstOf
    <3>3. nbit' = 0
      BY <1>1, <1>2, WorkingKnown DEF Device, InStep, Ready
    <3>4. QED
      BY <1>2, <1>4, <2>1, <3>2, <3>3 DEF BitsLeft
  <2>2. CASE ~Receiving
    BY <1>4, <2>2 DEF BitsLeft
  <2>3. QED
    BY <2>1, <2>2
<1>7. QED
  BY <1>2, <1>5, <1>6 DEF AsksOn

\* The bit that ends a READ is the one the peripheral drives.
LEMMA BitIsDriven ==
    ASSUME Working, ~core_ack, core_ack', Serving = "READ"
    PROVE  core_rxd' <=> dev_sda
<1>1. Lines /\ bit_state \in Bit!BitStates /\ Bit!Tick /\ ObserverTick /\ ~core_reset /\ ~i2c_al
  BY SoundTypes, ClockParts DEF Sound, Working
<1>2. bit_state = "rd_d"
  <2>1. bit_state \in Bit!LastQuarters
    BY <1>1, DriveStep, Zenon
  <2>2. QED
    BY <2>1 DEF Serving, Bit!LastQuarters
<1>3. High /\ sda_oen /\ SdaStill /\ Dividing /\ OnLines /\ DataIn /\ Flags
  BY <1>1, <1>2 DEF Lines, OnLines
<1>4. dSCL'
  BY <1>1, <1>3, TickPipes DEF High, SclStill, Still, Pipe
<1>5. bit_state \in Sampling
  BY <1>2 DEF Sampling
<1>6. core_rxd' <=> sda
  BY <1>1, <1>3, <1>4, <1>5, DataStep
<1>7. QED
  BY <1>3, <1>6 DEF sda

\* A clock in which the bit command goes on.
LEMMA WaitAsks ==
    ASSUME Working, Answers, byte_state # "IDLE", ~core_ack
    PROVE  AsksOn
<1>1. Timed /\ Sound /\ Clock /\ T!Pending /\ ~done
  BY DEF Working
<1>2. byte_state' = byte_state /\ (byte_state # "START" => UNCHANGED Device)
  BY WaitKnown
<1>3. ~done'
  BY <1>1, ClockParts, ByteMoves DEF Sound
<1>4. Receiving' <=> Receiving
  BY <1>1, <1>3, ReceivingStep
<1>5. CASE byte_state = "READ"
  <2>1. UNCHANGED Device
    BY <1>2, <1>5
  <2>2. RepliesAsked' = RepliesAsked
    BY <1>4, <2>1 DEF RepliesAsked, Device
  <2>3. nbit = BitsGone /\ role = "talk" /\ txn[k].rx
    BY <1>5, WorkingKnown DEF InStep, T!Turn, T!ThisOp
  <2>4. nbit \in 0..7
    <3>1. dcnt \in 0..7 /\ (shift => dcnt >= 1)
      BY <1>1, <1>5, WorkingKnown, SoundTypes DEF T!Turn
    <3>2. QED
      BY <2>3, <3>1 DEF BitsGone
  <2>5. Receiving /\ Receiving'
    BY <1>1, <1>4, <2>3 DEF Receiving, T!Pending
  <2>6. BitsLeft = 8 - nbit /\ BitsLeft' = (IF core_ack' THEN 7 - nbit ELSE 8 - nbit)
    BY <1>2, <1>5, <2>1, <2>4, <2>5 DEF BitsLeft, Device
  <2>7. core_ack' => Serving = "READ"
    <3>1. T!Bit!Next /\ ~core_reset /\ ~i2c_al
      BY <1>1, ClockParts, SoundTypes
    <3>2. core_ack' => Serving # "NOP"
      BY <3>1, ServingMoves
    <3>3. Serving \in {"NOP", core_cmd} /\ core_cmd = "READ"
      BY <1>5, WorkingKnown DEF T!Turn, T!BitCommandOf
    <3>4. QED
      BY <3>2, <3>3
  <2>8. core_ack' => core_rxd' = BitOf(ReplyAsked, 7 - nbit)
    <3>1. ReplyAsked = reply
      BY <2>3, <2>5 DEF Answers, ReplyAsked, RepliesAsked
    <3>2. dev_sda <=> BitOf(reply, 7 - nbit)
      BY <2>3, <2>4 DEF Answers
    <3>3. core_ack' => (core_rxd' <=> dev_sda)
      BY <2>7, BitIsDriven
    <3>4. core_rxd' \in BOOLEAN
      BY <1>1, ClockTypes, ClockParts DEF Sound, TypeOK, Bit!TypeOK
    <3>5. BitOf(reply, 7 - nbit) \in BOOLEAN
      BY DEF BitOf
    <3>6. QED
      BY <3>1, <3>2, <3>3, <3>4, <3>5
  <2>9. BitsLeft > 0 /\ BitsLeft - 1 = 7 - nbit
    BY <2>4, <2>6
  <2>10. QED
    BY <2>2, <2>6, <2>7, <2>8, <2>9 DEF AsksOn
<1>6. CASE byte_state # "READ"
  <2>1. BitsLeft = 0 /\ BitsLeft' = 0
    BY <1>2, <1>6 DEF BitsLeft
  <2>2. RepliesAsked' = RepliesAsked
    <3>1. CASE byte_state # "START"
      BY <1>2, <1>4, <3>1 DEF RepliesAsked, Device
    <3>2. CASE byte_state = "START"
      <4>1. role # "talk"
        BY <3>2, WorkingKnown DEF InStep
      <4>2. UNCHANGED Device \/ Listen("address", 0)
        BY <1>1, SoundTypes, ClockParts, DeviceStep DEF Sound
      <4>3. role' # "talk" /\ replies' = replies
        BY <4>1, <4>2 DEF Device, Listen
      <4>4. QED
        BY <4>1, <4>3 DEF RepliesAsked
    <3>3. QED
      BY <3>1, <3>2
  <2>3. QED
    BY <2>1, <2>2 DEF AsksOn
<1>7. QED
  BY <1>5, <1>6

\* The clock after a bit of a reply.
LEMMA BitReadAsks ==
    ASSUME Working, core_ack, byte_state = "READ"
    PROVE  AsksOn
<1>1. Timed /\ Sound /\ Clock /\ T!Pending /\ ~done
  BY DEF Working
<1>2. core_cmd = "READ" /\ nbit = BitsGone /\ role = "talk" /\ txn[k].rx
  BY WorkingKnown DEF InStep, T!Turn, T!ThisOp, T!BitCommandOf
<1>3. ~core_ack' /\ ~shift /\ ~ld /\ AfterBit /\ dcnt \in 0..7
  BY <1>2, AckKnown
<1>4. nbit = 7 - dcnt
  BY <1>2, <1>3 DEF BitsGone
<1>5. byte_state' = (IF dcnt = 0 THEN "ACK" ELSE "READ") /\ ~done'
  BY <1>1, ClockParts, ByteMoves DEF Sound
<1>6. Receiving /\ Receiving'
  BY <1>1, <1>2, <1>5, ReceivingStep DEF Receiving, T!Pending
<1>7. nbit' = nbit + 1 /\ replies' = replies
  BY <1>2, <1>3, <1>4 DEF AfterBit, Listen
<1>8. RepliesAsked' = RepliesAsked
  BY <1>6, <1>7 DEF RepliesAsked
<1>9. BitsLeft = 7 - nbit
  BY <1>3, <1>4, <1>6 DEF BitsLeft
<1>10. BitsLeft' = 7 - nbit
  <2>1. CASE dcnt = 0
    BY <1>4, <1>5, <2>1 DEF BitsLeft
  <2>2. CASE dcnt # 0
    <3>1. byte_state' = "READ"
      BY <1>5, <2>2
    <3>2. BitsLeft' = 8 - nbit'
      BY <1>3, <1>4, <1>6, <1>7, <3>1 DEF BitsLeft
    <3>3. QED
      BY <1>3, <1>4, <1>7, <3>2
  <2>3. QED
    BY <2>1, <2>2
<1>11. QED
  BY <1>3, <1>8, <1>9, <1>10 DEF AsksOn

\* The clock after a START, a bit sent or a STOP.
LEMMA BitSentAsks ==
    ASSUME Working, core_ack, byte_state \in {"START", "WRITE", "STOP"}
    PROVE  AsksOn
<1>1. Timed /\ Sound /\ Clock /\ T!Pending /\ ~done
  BY DEF Working
<1>2. core_cmd = byte_state
  BY WorkingKnown DEF T!BitCommandOf
<1>3. role # "talk"
  BY WorkingKnown DEF InStep, Addressed
<1>4. ~core_ack'
  BY AckKnown
<1>5. role' # "talk" /\ replies' = replies
  <2>1. CASE byte_state = "START"
    BY <1>2, <1>3, <2>1, AckKnown DEF Device
  <2>2. CASE byte_state = "STOP"
    BY <1>2, <2>2, AckKnown DEF Listen
  <2>3. CASE byte_state = "WRITE"
    <3>1. AfterBit /\ nbit = BitsGone /\ ~shift /\ ~ld /\ dcnt \in 0..7
      BY <1>2, <2>3, AckKnown, WorkingKnown DEF InStep
    <3>2. nbit # 8 /\ nbit \in 0..7
      BY <3>1 DEF BitsGone
    <3>3. QED
      BY <1>3, <3>1, <3>2 DEF AfterBit, Listen
  <2>4. QED
    BY <2>1, <2>2, <2>3
<1>6. RepliesAsked' = RepliesAsked
  BY <1>3, <1>5 DEF RepliesAsked
<1>7. BitsLeft = 0
  BY <1>2 DEF BitsLeft
<1>8. BitsLeft' = 0
  <2>1. CASE byte_state = "STOP"
    <3>1. done'
      BY <1>1, <2>1, ClockParts, ByteMoves DEF Sound
    <3>2. QED
      BY <3>1 DEF BitsLeft, Receiving
  <2>2. CASE byte_state \in {"START", "WRITE"}
    <3>1. ~txn[k].rx
      <4>1. CASE byte_state = "START"
        BY <4>1, WorkingKnown DEF T!Turn, T!ThisOp
      <4>2. CASE byte_state = "WRITE"
        BY <4>2, WorkingKnown DEF T!Turn, T!ThisOp
      <4>3. QED
        BY <2>2, <4>1, <4>2
    <3>2. ~Receiving'
      BY <1>1, <3>1, ReceivingStep DEF Receiving
    <3>3. QED
      BY <3>2 DEF BitsLeft
  <2>3. QED
    BY <2>1, <2>2
<1>9. QED
  BY <1>4, <1>6, <1>7, <1>8 DEF AsksOn

\* The clock after an ACK bit, in which the peripheral may go on to a byte
\* that it has yet to be asked for.
LEMMA AckAsks ==
    ASSUME Working, Answers, core_ack, byte_state = "ACK"
    PROVE  AsksOn
<1>1. Timed /\ Sound /\ Clock /\ T!Pending /\ ~done
  BY DEF Working
<1>2. core_cmd = (IF txn[k].rx THEN "WRITE" ELSE "READ") /\ nbit = 8
  BY WorkingKnown DEF InStep, T!BitCommandOf
<1>3. ~core_ack' /\ AfterBit /\ (bit = "1" <=> core_rxd)
  BY <1>2, AckKnown
<1>4. /\ byte_state' = (IF txn[k].sto THEN "STOP" ELSE "IDLE")
      /\ done' <=> ~txn[k].sto
  BY <1>1, ClockParts, ByteMoves DEF Sound
<1>5. Receiving' => txn[k].sto
  BY <1>1, <1>4, ReceivingStep
<1>6. BitsLeft = 0
  BY DEF BitsLeft
<1>7. BitsLeft' = 0
  <2>1. CASE txn[k].sto
    BY <1>4, <2>1 DEF BitsLeft
  <2>2. CASE ~txn[k].sto
    BY <1>5, <2>2 DEF BitsLeft
  <2>3. QED
    BY <2>1, <2>2
<1>8. RepliesAsked = replies
  BY <1>2 DEF RepliesAsked
<1>9. \/ Listen("off", 0) \/ (Listen("listen", 0) /\ bit # "1")
      \/ (Talk /\ bit # "1")
  BY <1>2, <1>3 DEF AfterBit
<1>10. CASE Listen("off", 0) \/ Listen("listen", 0)
  <2>1. RepliesAsked' = replies
    BY <1>10 DEF Listen, RepliesAsked
  <2>2. QED
    BY <1>3, <1>6, <1>7, <1>8, <2>1 DEF AsksOn
<1>11. CASE Talk /\ bit # "1"
  <2>1. ~Receiving'
    <3>1. CASE txn[k].rx
      <4>1. core_rxd <=> txn[k].nack
        <5>1. core_rxd <=> T!Offered
          BY <1>2, <3>1, AckKnown
        <5>2. T!Offered = command.ACK /\ command = CommandOf(txn[k])
          BY WorkingKnown DEF T!Offered
        <5>3. QED
          BY <5>1, <5>2 DEF CommandOf
      <4>2. ~txn[k].nack
        BY <1>3, <1>11, <4>1
      <4>3. ~txn[k].sto
        BY <3>1, <4>2, WorkingKnown DEF Ends
      <4>4. QED
        BY <1>5, <4>3
    <3>2. CASE ~txn[k].rx
      BY <1>1, <3>2, ReceivingStep DEF Receiving
    <3>3. QED
      BY <3>1, <3>2
  <2>2. PICK b \in RxBytes : replies' = Append(replies, b)
    BY <1>11 DEF Talk
  <2>3. role' = "talk" /\ nbit' = 0
    BY <1>11 DEF Talk
  <2>4. Front(replies') = replies
    <3>1. replies \in Seq(0..255) /\ b \in 0..255
      BY <1>1, BusAssumption DEF Sound, TypeOK, HistoryTypeOK
    <3>2. QED
      BY <2>2, <3>1, Appended, Zenon
  <2>5. RepliesAsked' = replies
    BY <2>1, <2>3, <2>4 DEF RepliesAsked
  <2>6. QED
    BY <1>3, <1>6, <1>7, <1>8, <2>5 DEF AsksOn
<1>12. QED
  BY <1>9, <1>10, <1>11

\* A clock asks for no new answer, and takes a bit of the one under way with
\* each READ that ends.
LEMMA AskStep ==
    ASSUME Timed, Sound, Clock, Answers
    PROVE  AsksOn
<1>1. CASE ~T!Pending \/ done
  BY <1>1, RestingAsks
<1>2. CASE T!Pending /\ ~done
  <2>1. Working
    BY <1>2 DEF Working
  <2>2. byte_state \in {"IDLE", "START", "READ", "WRITE", "ACK", "STOP"}
    BY <2>1, WorkingKnown DEF Byte!ByteStates
  <2>3. core_ack => byte_state # "IDLE"
    BY <2>1, AckKnown
  <2>4. QED
    BY <2>1, <2>2, <2>3, GoAsks, WaitAsks, BitReadAsks, BitSentAsks, AckAsks
<1>3. QED
  BY <1>1, <1>2

\* All that the mapping to I2CTransfer rests on.
MInv == BInv /\ Answers /\ Begins

\* Before the core is enabled the lines do not move.
LEMMA SleepingMap ==
    ASSUME Timed, MInv, Clock, pc \in Initialising
    PROVE  /\ Answers' /\ Begins' /\ AsksOn
           /\ SymbolsSent' = IF core_ack' THEN Append(SymbolsSent, NextSymbol) ELSE SymbolsSent
<1>1. BInv /\ BInv' /\ Asleep /\ NeverLost /\ T!IInv /\ TypeOK
  BY ClockInv DEF MInv, BInv
<1>2. Asleep' /\ UNCHANGED Device
  BY <1>1, SleepingClock
<1>3. pc' = pc
  BY ClockKeeps
<1>4. ~core_ack /\ ~core_ack'
  BY <1>1, <1>3 DEF BInv, T!IInv, T!Resting, T!Settled, Initialising
<1>5. wire' = wire
  <2>1. scl /\ sda /\ was_scl /\ was_sda
    BY <1>1 DEF Asleep, scl, sda
  <2>2. QED
    BY <2>1 DEF Clock, ObserverTick, StartSeen, StopSeen, Fall
<1>6. ~StartSent /\ ~StartSent'
  BY <1>1, <1>2 DEF Asleep, StartSent
<1>7. SymbolsSent' = SymbolsSent
  BY <1>4, <1>5, <1>6 DEF SymbolsSent, OnItsWay
<1>8. role # "talk" /\ role' # "talk"
  BY <1>1, <1>2 DEF Asleep
<1>9. RepliesAsked' = RepliesAsked
  BY <1>2, <1>8 DEF RepliesAsked, Device
<1>10. BitsLeft' = 0 /\ BitsLeft = 0
  BY <1>3 DEF BitsLeft, Receiving, Initialising
<1>11. QED
  BY <1>4, <1>6, <1>7, <1>8, <1>9, <1>10 DEF Answers, Begins, AsksOn

\* A clock, in the terms of I2CTransfer.
LEMMA MapClock ==
    ASSUME Timed, MInv, Clock
    PROVE  /\ MInv' /\ AsksOn
           /\ SymbolsSent' = IF core_ack' THEN Append(SymbolsSent, NextSymbol) ELSE SymbolsSent
<1>1. BInv /\ BInv'
  BY ClockInv DEF MInv
<1>2. CASE pc \in Initialising
  BY <1>1, <1>2, SleepingMap DEF MInv
<1>3. CASE pc \notin Initialising
  <2>1. Sound
    BY <1>1, <1>3 DEF BInv, Sound
  <2>2. Answers /\ Begins
    BY DEF MInv
  <2>3. Answers'
    BY <2>1, <2>2, AnswersStep, ClockParts, SoundTypes DEF Sound, TypeOK, HistoryTypeOK
  <2>4. AsksOn
    BY <2>1, <2>2, AskStep
  <2>5. QED
    BY <1>1, <2>1, <2>2, <2>3, <2>4, WireStep DEF MInv
<1>4. QED
  BY <1>2, <1>3

\* Every clock of I2CBus is one of I2CTransfer.
LEMMA TransferClock ==
    ASSUME Timed, MInv, Clock
    PROVE  Transfer!Tick
<1>1. BInv /\ BInv'
  BY ClockInv DEF MInv
<1>2. T!Bit!Next
  BY <1>1, ServedClock
<1>3. Transfer!Bit!Abort \/ Transfer!Bit!Accept \/ Transfer!Bit!Rest \/ Transfer!Bit!Work
      \/ Transfer!Bit!Finish
  BY <1>2
  DEF T!Bit!Next, T!Bit!Abort, T!Bit!Accept, T!Bit!Rest, T!Bit!Work, T!Bit!Finish, T!Bit!Free,
      Transfer!Bit!Abort, Transfer!Bit!Accept, Transfer!Bit!Rest, Transfer!Bit!Work,
      Transfer!Bit!Finish, Transfer!Bit!Free
<1>4. Transfer!CoreTick
  <2>1. Transfer!Byte!Tick
    BY DEF Clock, CoreTick,
       Byte!Tick, Byte!ShiftRegister, Byte!ShiftIn, Byte!BitValue, Byte!BitCounter,
       Byte!StateMachine, Byte!Abort, Byte!Idle, Byte!Pending, Byte!Started, Byte!BitWritten,
       Byte!BitRead, Byte!Acknowledged, Byte!Stopped, Byte!go, Byte!Goto, Byte!FirstCommand,
       Byte!Strobes, Byte!Msb, Byte!cnt_done,
       Transfer!Byte!Tick, Transfer!Byte!ShiftRegister, Transfer!Byte!ShiftIn,
       Transfer!Byte!BitValue, Transfer!Byte!BitCounter, Transfer!Byte!StateMachine,
       Transfer!Byte!Abort, Transfer!Byte!Idle, Transfer!Byte!Pending, Transfer!Byte!Started,
       Transfer!Byte!BitWritten, Transfer!Byte!BitRead, Transfer!Byte!Acknowledged,
       Transfer!Byte!Stopped, Transfer!Byte!go, Transfer!Byte!Goto, Transfer!Byte!FirstCommand,
       Transfer!Byte!Strobes, Transfer!Byte!Msb, Transfer!Byte!cnt_done
  <2>2. Transfer!CsrTick
    BY DEF Clock, CoreTick, CsrTick, Transfer!CsrTick, CommandAfter, Transfer!CommandAfter,
       NoCommand, Transfer!NoCommand
  <2>3. QED
    BY <2>1, <2>2 DEF Transfer!CoreTick
<1>5. Transfer!DriverTick /\ Transfer!OutcomeTick
  BY DEF Clock, DriverTick, Transfer!DriverTick, OutcomeTick, Transfer!OutcomeTick
<1>6. Transfer!PeripheralTick
  <2>1. AsksOn
    BY MapClock
  <2>2. BitOf(ReplyAsked, BitsLeft - 1) = Transfer!BitOf(ReplyAsked, BitsLeft - 1)
    BY DEF BitOf, Transfer!BitOf
  <2>3. ReplyAsked' = ReplyAsked
    BY <2>1 DEF AsksOn, ReplyAsked
  <2>4. QED
    BY <2>1, <2>2, <2>3 DEF AsksOn, Transfer!PeripheralTick
<1>7. Transfer!WireTick
  <2>1. SymbolsSent' = IF core_ack' THEN Append(SymbolsSent, NextSymbol) ELSE SymbolsSent
    BY MapClock
  <2>2. ~i2c_al'
    BY <1>1 DEF BInv, NeverLost
  <2>3. NextSymbol = IF Serving \in {"READ", "WRITE"} THEN Transfer!BitSymbol(core_rxd') ELSE Serving
    BY DEF NextSymbol, BitSymbol, Transfer!BitSymbol
  <2>4. QED
    BY <2>1, <2>2, <2>3 DEF Transfer!WireTick
<1>8. QED
  BY <1>3, <1>4, <1>5, <1>6, <1>7
  DEF Transfer!Tick, Transfer!TickAbort, Transfer!TickAccept, Transfer!TickRest, Transfer!TickWork,
      Transfer!TickFinish, Transfer!Clock

\* A step of the CPU moves nothing on the lines, and outside of i2c_wait_tip
\* no receive command is under way.
LEMMA MapLeaves ==
    ASSUME UNCHANGED <<hardware, peripheral, lines>>
    PROVE  /\ UNCHANGED Transfer!hardware
           /\ UNCHANGED <<byte_state, core_ack, done, role, nbit, reply>>
           /\ wire' = wire => SymbolsSent' = SymbolsSent /\ (Begins => Begins')
           /\ replies' = replies => (Answers => Answers')
<1>1. UNCHANGED <<byteregs, bitouts, bit_state, clk_en, was_sda, bit, dev_sda, role, nbit, reply>>
  BY DEF hardware, bitregs, peripheral, lines
<1>2. UNCHANGED <<byte_state, core_cmd, core_ack, done>>
  BY <1>1 DEF byteregs, bitouts
<1>3. UNCHANGED <<Transfer!byteregs, Transfer!bitouts>>
  BY <1>1 DEF byteregs, Transfer!byteregs, bitouts, Transfer!bitouts
<1>4. Serving' = Serving /\ Age' = Age
  BY <1>1 DEF Serving, Age
<1>5. StartSent' = StartSent /\ OnItsWay' = OnItsWay
  BY <1>1, <1>2 DEF StartSent, OnItsWay
<1>6. wire' = wire => SymbolsSent' = SymbolsSent /\ (Begins => Begins')
  BY <1>5 DEF SymbolsSent, Begins
<1>7. replies' = replies => (Answers => Answers')
  BY <1>1 DEF Answers
<1>8. QED
  BY <1>1, <1>2, <1>3, <1>4, <1>6, <1>7 DEF Transfer!hardware

\* The answers asked for do not change with the command under way.
LEMMA AsksLeft ==
    ASSUME UNCHANGED <<hardware, peripheral, lines>>, replies' = replies, Receiving' <=> Receiving
    PROVE  RepliesAsked' = RepliesAsked /\ ReplyAsked' = ReplyAsked /\ BitsLeft' = BitsLeft
<1>1. UNCHANGED <<byte_state, core_ack, role, nbit>>
  BY MapLeaves
<1>2. RepliesAsked' = RepliesAsked
  BY <1>1 DEF RepliesAsked
<1>3. BitsLeft' = BitsLeft
  BY <1>1 DEF BitsLeft
<1>4. QED
  BY <1>2, <1>3 DEF ReplyAsked

\* i2c_init.
LEMMA TransferInit ==
    ASSUME MInv, CpuInit, UNCHANGED <<hardware, peripheral, lines>>
    PROVE  Transfer!Cpu /\ Answers' /\ Begins'
<1>1. wire' = wire /\ replies' = replies /\ outcome' = outcome
  BY DEF CpuInit, history
<1>2. pc # "wait" /\ pc' # "wait"
  BY DEF CpuInit, InitCoreReset, InitPrescale, InitControl, Access
<1>3. Receiving' <=> Receiving
  BY <1>2 DEF Receiving
<1>4. RepliesAsked' = RepliesAsked /\ ReplyAsked' = ReplyAsked /\ BitsLeft' = BitsLeft
  BY <1>1, <1>3, AsksLeft
<1>5. SymbolsSent' = SymbolsSent /\ Answers' /\ Begins' /\ UNCHANGED Transfer!hardware
  BY <1>1, MapLeaves DEF MInv
<1>6. Transfer!CpuInit
  BY <1>1, <1>4, <1>5
  DEF CpuInit, Transfer!CpuInit, InitCoreReset, Transfer!InitCoreReset, InitPrescale,
      Transfer!InitPrescale, InitControl, Transfer!InitControl, Access, Transfer!Access,
      WriteCoreReset, Transfer!WriteCoreReset, WritePrescale, Transfer!WritePrescale,
      WriteControl, Transfer!WriteControl, Transfer!history
<1>7. QED
  BY <1>4, <1>5, <1>6 DEF Transfer!Cpu

\* The store of a command asks for the answer that the peripheral has.
LEMMA TransferCommand ==
    ASSUME MInv, CpuCommand, UNCHANGED replies, UNCHANGED <<hardware, peripheral, lines>>
    PROVE  Transfer!Cpu /\ Answers' /\ Begins'
<1>1. /\ pc = "command" /\ pc' = "wait" /\ txn' = txn /\ k' = k /\ outcome' = "pending"
      /\ wire' = wire /\ replies' = replies
  BY DEF CpuCommand, CommandStore, Access
<1>2. SymbolsSent' = SymbolsSent /\ Answers' /\ Begins' /\ UNCHANGED Transfer!hardware
  BY <1>1, MapLeaves DEF MInv
<1>3. UNCHANGED <<byte_state, core_ack, done, role, nbit, reply>>
  BY MapLeaves
<1>4. byte_state = "IDLE" /\ ~core_ack /\ ~done
  BY <1>1 DEF MInv, BInv, T!IInv, T!Resting, T!Settled
<1>5. ~Receiving
  BY <1>1 DEF Receiving
<1>6. Receiving' <=> txn[k].rx
  BY <1>1, <1>3, <1>4 DEF Receiving
<1>7. Ready(txn[k])
  BY <1>1 DEF MInv, BInv, Together
<1>8. Transfer!CpuCommand
  BY <1>1, <1>2
  DEF CpuCommand, Transfer!CpuCommand, CommandStore, Transfer!CommandStore, Access,
      Transfer!Access, WriteCommand, Transfer!WriteCommand, CommandOf, Transfer!CommandOf
<1>9. Transfer!PeripheralReply
  <2>1. CASE txn[k].rx
    <3>1. role = "talk" /\ nbit = 0
      BY <1>7, <2>1 DEF Ready
    <3>2. replies # <<>> /\ reply = Last(replies) /\ reply \in RxBytes
      BY <3>1 DEF MInv, Answers
    <3>3. replies \in Seq(0..255) /\ reply \in 0..255
      BY <3>2, BusAssumption DEF MInv, BInv, TypeOK, HistoryTypeOK
    <3>4. RepliesAsked = Front(replies)
      BY <1>5, <3>1 DEF RepliesAsked
    <3>5. RepliesAsked' = replies
      BY <1>1, <1>6, <2>1 DEF RepliesAsked
    <3>6. replies = Append(Front(replies), reply)
      BY <3>2, <3>3, Ended
    <3>7. ReplyAsked' = reply
      BY <3>2, <3>5 DEF ReplyAsked
    <3>8. BitsLeft' = 8
      BY <1>3, <1>4, <1>6, <2>1 DEF BitsLeft
    <3>9. QED
      BY <2>1, <3>2, <3>4, <3>5, <3>6, <3>7, <3>8 DEF Transfer!PeripheralReply
  <2>2. CASE ~txn[k].rx
    <3>1. Receiving' <=> Receiving
      BY <1>5, <1>6, <2>2
    <3>2. RepliesAsked' = RepliesAsked /\ ReplyAsked' = ReplyAsked
      BY <1>1, <3>1, AsksLeft
    <3>3. BitsLeft' = 0
      BY <1>6, <2>2 DEF BitsLeft
    <3>4. QED
      BY <2>2, <3>2, <3>3 DEF Transfer!PeripheralReply
  <2>3. QED
    BY <2>1, <2>2
<1>10. QED
  BY <1>2, <1>8, <1>9 DEF Transfer!Cpu

\* Whatever else the driver does.
LEMMA TransferOther ==
    ASSUME MInv, CpuOther, UNCHANGED <<hardware, peripheral, lines>>
    PROVE  Transfer!Cpu /\ Answers' /\ Begins'
<1>1. wire' = wire /\ replies' = replies /\ outcome' = outcome
  BY DEF CpuOther, history
<1>2. SymbolsSent' = SymbolsSent /\ Answers' /\ Begins' /\ UNCHANGED Transfer!hardware
  BY <1>1, MapLeaves DEF MInv
<1>3. Receiving' <=> Receiving
  <2>1. CASE TxrStore \/ ReadRxr \/ Advance \/ Return
    <3>1. pc # "wait" /\ pc' # "wait"
      BY <2>1 DEF TxrStore, ReadRxr, Advance, Return, Access, Begin
    <3>2. QED
      BY <3>1 DEF Receiving
  <2>2. CASE PollBusy
    <3>1. UNCHANGED <<pc, txn, k, done>>
      BY <2>2, MapLeaves DEF PollBusy
    <3>2. QED
      BY <1>1, <3>1 DEF Receiving
  <2>3. CASE PollDone
    <3>1. pc = "wait" /\ elapsed >= NopDelay /\ ~tip /\ pc' # "wait"
      BY <2>3 DEF PollDone, PollReady
    <3>2. elapsed # 0
      BY <3>1, DelayAssumption
    <3>3. outcome # "pending"
      BY <3>1, <3>2 DEF MInv, BInv, T!IInv, T!Underway
    <3>4. QED
      BY <3>1, <3>3 DEF Receiving
  <2>4. QED
    BY <2>1, <2>2, <2>3 DEF CpuOther
<1>4. RepliesAsked' = RepliesAsked /\ ReplyAsked' = ReplyAsked /\ BitsLeft' = BitsLeft
  BY <1>1, <1>3, AsksLeft
<1>5. Transfer!CpuOther
  <2>1. TxrStore => Transfer!TxrStore
    BY DEF TxrStore, Transfer!TxrStore, Access, Transfer!Access, WriteTxr, Transfer!WriteTxr
  <2>2. PollBusy => Transfer!PollBusy
    BY DEF PollBusy, Transfer!PollBusy, PollReady, Transfer!PollReady, csr, Transfer!csr
  <2>3. PollDone => Transfer!PollDone
    BY DEF PollDone, Transfer!PollDone, PollReady, Transfer!PollReady, csr, Transfer!csr
  <2>4. ReadRxr => Transfer!ReadRxr
    BY DEF ReadRxr, Transfer!ReadRxr, Access, Transfer!Access, csr, Transfer!csr
  <2>5. Advance => Transfer!Advance
    BY DEF Advance, Transfer!Advance, Begin, Transfer!Begin, Failed, Transfer!Failed, csr,
       Transfer!csr
  <2>6. Return => Transfer!Return
    BY DEF Return, Transfer!Return, Failed, Transfer!Failed, status_error_code,
       Transfer!status_error_code, ReturnValue, Transfer!ReturnValue, ENACK, Transfer!ENACK,
       EARB, Transfer!EARB, EUNK, Transfer!EUNK, csr, Transfer!csr
  <2>7. QED
    BY <1>1, <1>2, <1>4, <2>1, <2>2, <2>3, <2>4, <2>5, <2>6
    DEF CpuOther, Transfer!CpuOther, Transfer!history
<1>6. QED
  BY <1>2, <1>4, <1>5 DEF Transfer!Cpu

\* A call begins with nothing on the lines and nothing asked for.
LEMMA TransferCall ==
    ASSUME MInv, CpuCall, UNCHANGED <<hardware, peripheral, lines>>
    PROVE  Transfer!Caller /\ Answers' /\ Begins'
<1>1. pc = "idle" /\ wire' = <<>> /\ replies' = <<>> /\ outcome' = outcome
  BY DEF CpuCall, Call
<1>2. pc' # "wait"
  BY DEF CpuCall, Call, Begin
<1>3. UNCHANGED <<byte_state, core_ack, done, role, nbit, reply>> /\ UNCHANGED Transfer!hardware
  BY MapLeaves
<1>4. /\ Serving = "NOP" /\ ~core_ack
  BY <1>1 DEF MInv, BInv, T!IInv, T!Resting, T!Settled
<1>5. bit_state' = bit_state
  BY DEF hardware, bitregs
<1>6. ~StartSent'
  BY <1>4, <1>5 DEF Serving, StartSent
<1>7. SymbolsSent' = <<>>
  <2>1. OnItsWay' = <<>>
    BY <1>3, <1>4 DEF OnItsWay
  <2>2. <<>> \o <<>> = <<>>
    BY EmptySeq, ConcatEmptySeq
  <2>3. QED
    BY <1>1, <1>6, <2>1, <2>2 DEF SymbolsSent
<1>8. role' # "talk"
  BY <1>1, <1>3 DEF MInv, BInv, Together
<1>9. RepliesAsked' = <<>> /\ ReplyAsked' = 0
  BY <1>1, <1>8 DEF RepliesAsked, ReplyAsked
<1>10. BitsLeft' = 0
  BY <1>2 DEF BitsLeft, Receiving
<1>11. Txns = Transfer!Txns
  BY DEF Txns, Transfer!Txns, ReadTxn, Transfer!ReadTxn, WriteTxn, Transfer!WriteTxn,
     GeneralCallReset, Transfer!GeneralCallReset, SecondByte, Transfer!SecondByte, TxChar,
     Transfer!TxChar, RxChar, Transfer!RxChar
<1>12. Transfer!CpuCall
  BY <1>1, <1>7, <1>9, <1>11
  DEF CpuCall, Transfer!CpuCall, Call, Transfer!Call, Begin, Transfer!Begin, NoReturn,
      Transfer!NoReturn, csr, Transfer!csr
<1>13. QED
  BY <1>3, <1>6, <1>8, <1>9, <1>10, <1>12 DEF Transfer!Caller, Answers, Begins

\* Every step of I2CBus is one of I2CTransfer.
LEMMA TransferStep ==
    ASSUME Timed, MInv, Next
    PROVE  MInv' /\ Transfer!Next
<1>1. CASE Clock
  BY <1>1, MapClock, TransferClock DEF Transfer!Next
<1>2. CASE Cpu \/ Caller
  <2>1. BInv' /\ UNCHANGED <<hardware, peripheral, lines>>
    BY <1>2, CpuInv, CpuParts DEF MInv
  <2>2. \/ CpuCommand /\ UNCHANGED replies
        \/ CpuInit \/ CpuOther \/ CpuCall
    BY <1>2 DEF Cpu, Caller
  <2>3. (Transfer!Cpu \/ Transfer!Caller) /\ Answers' /\ Begins'
    BY <2>1, <2>2, TransferInit, TransferCommand, TransferOther, TransferCall
  <2>4. QED
    BY <2>1, <2>3 DEF Transfer!Next, MInv
<1>3. QED
  BY <1>1, <1>2 DEF Next, TickRunning, TickStretched

\* The mapped variables of I2CTransfer change only with those of I2CBus.
LEMMA TransferStutters ==
    ASSUME MInv, UNCHANGED vars
    PROVE  MInv' /\ UNCHANGED Transfer!vars
<1>1. UNCHANGED <<hardware, peripheral, lines, csr, driver, history>>
  BY DEF vars
<1>2. UNCHANGED <<wire, replies, outcome, pc, txn, k>>
  BY <1>1 DEF history, driver
<1>3. UNCHANGED Transfer!hardware /\ SymbolsSent' = SymbolsSent /\ Answers' /\ Begins' /\ done' = done
  BY <1>1, <1>2, MapLeaves DEF MInv
<1>4. Receiving' <=> Receiving
  BY <1>2, <1>3 DEF Receiving
<1>5. RepliesAsked' = RepliesAsked /\ ReplyAsked' = ReplyAsked /\ BitsLeft' = BitsLeft
  BY <1>1, <1>2, <1>4, AsksLeft
<1>6. UNCHANGED Transfer!csr /\ UNCHANGED Transfer!driver /\ UNCHANGED Transfer!history
  BY <1>1, <1>2, <1>3, <1>5 DEF csr, Transfer!csr, driver, Transfer!driver, Transfer!history
<1>7. BInv'
  BY StutterInv DEF MInv
<1>8. QED
  BY <1>3, <1>5, <1>6, <1>7 DEF MInv, Transfer!vars

\* Its initial states are initial states.
LEMMA TransferInits ==
    ASSUME Init
    PROVE  MInv /\ Transfer!Init
<1>1. BInv
  BY InitInv
<1>2. /\ bit_state = "idle" /\ ~core_ack /\ role = "off" /\ pc = "core_reset" /\ wire = <<>>
      /\ replies = <<>> /\ outcome = "none"
  BY DEF Init, Bit!Init, DriverInit, HistoryInit
<1>3. SymbolsSent = <<>>
  <2>1. <<>> \o <<>> = <<>>
    BY EmptySeq, ConcatEmptySeq
  <2>2. QED
    BY <1>2, <2>1 DEF SymbolsSent, StartSent, OnItsWay
<1>4. RepliesAsked = <<>> /\ ReplyAsked = 0 /\ BitsLeft = 0
  BY <1>2 DEF RepliesAsked, ReplyAsked, BitsLeft, Receiving
<1>5. Answers /\ Begins
  BY <1>2 DEF Answers, Begins, StartSent
<1>6. Transfer!CsrInit /\ Transfer!Byte!Init /\ Transfer!DriverInit
  BY DEF Init, CsrInit, Transfer!CsrInit, NoCommand, Transfer!NoCommand, Byte!Init,
     Transfer!Byte!Init, DriverInit, Transfer!DriverInit, NoReturn, Transfer!NoReturn
<1>7. Transfer!Bit!Init
  BY DEF Init, Bit!Init, Transfer!Bit!Init, Serving, Age
<1>8. Transfer!HistoryInit
  BY <1>2, <1>3, <1>4 DEF Transfer!HistoryInit
<1>9. QED
  BY <1>1, <1>4, <1>5, <1>6, <1>7, <1>8 DEF MInv, Transfer!Init

\* I2CBus implements I2CTransfer: driver, wrapper and byte controller on the
\* real bit controller and the lines with a peripheral, clock by clock, do
\* nothing that they could not do on the abstract bit service.
THEOREM ImplementsI2CTransfer == Timed => (Spec => ImplementsTransfer)
<1> SUFFICES ASSUME Timed PROVE Spec => ImplementsTransfer
  OBVIOUS
<1>1. Init => MInv /\ Transfer!Init
  BY TransferInits
<1>2. MInv /\ [Next]_vars => MInv' /\ [Transfer!Next]_Transfer!vars
  BY TransferStep, TransferStutters
<1>3. QED
  BY <1>1, <1>2, PTL DEF Spec, ImplementsTransfer, Transfer!Spec

-----------------------------------------------------------------------------
(* What I2CTransferProofs proves of the wire and of the value returned.    *)

\* I2CTransferProofs again, with the history that I2CTransfer has of I2CBus.
W == INSTANCE I2CTransferProofs WITH
    Setup <- 1, serving <- Serving, age <- Age,
    wire <- SymbolsSent, replies <- RepliesAsked, reply <- ReplyAsked, left <- BitsLeft

\* A clock of I2CTransfer is one of the module that its proofs are about,
LEMMA SameTick ==
    ASSUME Transfer!Tick
    PROVE  W!Tick
<1>1. Transfer!Byte!Tick => W!Byte!Tick
  BY DEF
     W!Byte!Tick, W!Byte!ShiftRegister, W!Byte!ShiftIn, W!Byte!BitValue, W!Byte!BitCounter,
     W!Byte!StateMachine, W!Byte!Abort, W!Byte!Idle, W!Byte!Pending, W!Byte!Started,
     W!Byte!BitWritten, W!Byte!BitRead, W!Byte!Acknowledged, W!Byte!Stopped, W!Byte!go,
     W!Byte!Goto, W!Byte!FirstCommand, W!Byte!Strobes, W!Byte!Msb, W!Byte!cnt_done,
     Transfer!Byte!Tick, Transfer!Byte!ShiftRegister, Transfer!Byte!ShiftIn,
     Transfer!Byte!BitValue, Transfer!Byte!BitCounter, Transfer!Byte!StateMachine,
     Transfer!Byte!Abort, Transfer!Byte!Idle, Transfer!Byte!Pending, Transfer!Byte!Started,
     Transfer!Byte!BitWritten, Transfer!Byte!BitRead, Transfer!Byte!Acknowledged,
     Transfer!Byte!Stopped, Transfer!Byte!go, Transfer!Byte!Goto, Transfer!Byte!FirstCommand,
     Transfer!Byte!Strobes, Transfer!Byte!Msb, Transfer!Byte!cnt_done
<1>2. Transfer!CoreTick => W!CoreTick
  BY <1>1 DEF Transfer!CoreTick, W!CoreTick, Transfer!CsrTick, W!CsrTick, Transfer!CommandAfter,
     W!CommandAfter, Transfer!NoCommand, W!NoCommand
<1>3. Transfer!DriverTick => W!DriverTick
  BY DEF Transfer!DriverTick, W!DriverTick
<1>4. Transfer!OutcomeTick => W!OutcomeTick
  BY DEF Transfer!OutcomeTick, W!OutcomeTick
<1>5. Transfer!PeripheralTick => W!PeripheralTick
  BY DEF Transfer!PeripheralTick, W!PeripheralTick, Transfer!BitOf, W!BitOf
<1>6. Transfer!WireTick => W!WireTick
  BY DEF Transfer!WireTick, W!WireTick, Transfer!BitSymbol, W!BitSymbol
<1>7. /\ Transfer!Bit!Abort => W!Bit!Abort
      /\ Transfer!Bit!Accept => W!Bit!Accept
      /\ Transfer!Bit!Rest => W!Bit!Rest
      /\ Transfer!Bit!Work => W!Bit!Work
      /\ Transfer!Bit!Finish => W!Bit!Finish
  BY DEF Transfer!Bit!Abort, Transfer!Bit!Accept, Transfer!Bit!Rest, Transfer!Bit!Work,
     Transfer!Bit!Finish, Transfer!Bit!Free, W!Bit!Abort, W!Bit!Accept, W!Bit!Rest, W!Bit!Work,
     W!Bit!Finish, W!Bit!Free
<1>8. QED
  BY <1>2, <1>3, <1>4, <1>5, <1>6, <1>7
  DEF Transfer!Tick, Transfer!TickAbort, Transfer!TickAccept, Transfer!TickRest, Transfer!TickWork,
      Transfer!TickFinish, Transfer!Clock, W!Tick, W!TickAbort, W!TickAccept, W!TickRest,
      W!TickWork, W!TickFinish, W!Clock

\* and so is a step of the CPU
LEMMA SameCpu ==
    ASSUME Transfer!Cpu
    PROVE  W!Cpu
<1>1. Transfer!CpuInit => W!CpuInit
  BY DEF Transfer!CpuInit, W!CpuInit, Transfer!InitCoreReset, W!InitCoreReset,
     Transfer!InitPrescale, W!InitPrescale, Transfer!InitControl, W!InitControl,
     Transfer!Access, W!Access, Transfer!WriteCoreReset, W!WriteCoreReset,
     Transfer!WritePrescale, W!WritePrescale, Transfer!WriteControl, W!WriteControl,
     Transfer!history, W!history
<1>2. Transfer!CpuCommand => W!CpuCommand
  BY DEF Transfer!CpuCommand, W!CpuCommand, Transfer!CommandStore, W!CommandStore,
     Transfer!Access, W!Access, Transfer!WriteCommand, W!WriteCommand, Transfer!CommandOf,
     W!CommandOf
<1>3. Transfer!PeripheralReply => W!PeripheralReply
  BY DEF Transfer!PeripheralReply, W!PeripheralReply
<1>4. Transfer!TxrStore => W!TxrStore
  BY DEF Transfer!TxrStore, W!TxrStore, Transfer!Access, W!Access, Transfer!WriteTxr, W!WriteTxr
<1>5. Transfer!PollBusy => W!PollBusy
  BY DEF Transfer!PollBusy, W!PollBusy, Transfer!PollReady, W!PollReady, Transfer!csr, W!csr
<1>6. Transfer!PollDone => W!PollDone
  BY DEF Transfer!PollDone, W!PollDone, Transfer!PollReady, W!PollReady, Transfer!csr, W!csr
<1>7. Transfer!ReadRxr => W!ReadRxr
  BY DEF Transfer!ReadRxr, W!ReadRxr, Transfer!Access, W!Access, Transfer!csr, W!csr
<1>8. Transfer!Advance => W!Advance
  BY DEF Transfer!Advance, W!Advance, Transfer!Begin, W!Begin, Transfer!Failed, W!Failed,
     Transfer!csr, W!csr
<1>9. Transfer!Return => W!Return
  BY DEF Transfer!Return, W!Return, Transfer!Failed, W!Failed, Transfer!status_error_code,
     W!status_error_code, Transfer!ReturnValue, W!ReturnValue, Transfer!ENACK, W!ENACK,
     Transfer!EARB, W!EARB, Transfer!EUNK, W!EUNK, Transfer!csr, W!csr
<1>10. Transfer!CpuOther => W!CpuOther
  BY <1>4, <1>5, <1>6, <1>7, <1>8, <1>9
  DEF Transfer!CpuOther, W!CpuOther, Transfer!history, W!history
<1>11. UNCHANGED Transfer!hardware => UNCHANGED W!hardware
  BY DEF Transfer!hardware, W!hardware, Transfer!byteregs, W!byteregs, Transfer!bitouts, W!bitouts
<1>12. QED
  BY <1>1, <1>2, <1>3, <1>10, <1>11 DEF Transfer!Cpu, W!Cpu

\* and a call.
LEMMA SameCaller ==
    ASSUME Transfer!Caller
    PROVE  W!Caller
<1>1. Transfer!Txns = W!Txns
  BY DEF Transfer!Txns, W!Txns, Transfer!ReadTxn, W!ReadTxn, Transfer!WriteTxn, W!WriteTxn,
     Transfer!GeneralCallReset, W!GeneralCallReset, Transfer!SecondByte, W!SecondByte,
     Transfer!TxChar, W!TxChar, Transfer!RxChar, W!RxChar
<1>2. Transfer!CpuCall => W!CpuCall
  BY <1>1 DEF Transfer!CpuCall, W!CpuCall, Transfer!Call, W!Call, Transfer!Begin, W!Begin,
     Transfer!NoReturn, W!NoReturn, Transfer!csr, W!csr
<1>3. UNCHANGED Transfer!hardware => UNCHANGED W!hardware
  BY DEF Transfer!hardware, W!hardware, Transfer!byteregs, W!byteregs, Transfer!bitouts, W!bitouts
<1>4. QED
  BY <1>2, <1>3 DEF Transfer!Caller, W!Caller

\* The behaviours are the same, then.
LEMMA SameTransfer == Transfer!Spec => W!Spec
<1>1. Transfer!Init => W!Init
  BY DEF Transfer!Init, W!Init, Transfer!CsrInit, W!CsrInit, Transfer!NoCommand, W!NoCommand,
     Transfer!Byte!Init, W!Byte!Init, Transfer!Bit!Init, W!Bit!Init, Transfer!DriverInit,
     W!DriverInit, Transfer!NoReturn, W!NoReturn, Transfer!HistoryInit, W!HistoryInit
<1>2. Transfer!Next => W!Next
  BY SameTick, SameCpu, SameCaller DEF Transfer!Next, W!Next
<1>3. UNCHANGED Transfer!vars => UNCHANGED W!vars
  BY DEF Transfer!vars, W!vars, Transfer!csr, W!csr, Transfer!hardware, W!hardware,
     Transfer!byteregs, W!byteregs, Transfer!bitouts, W!bitouts, Transfer!driver, W!driver,
     Transfer!history, W!history
<1>4. QED
  BY <1>1, <1>2, <1>3, PTL DEF Transfer!Spec, W!Spec

\* So what is proved of I2CTransfer holds of I2CBus.
LEMMA TransferHolds == Timed => (Spec => [](W!AllInv /\ W!WirePrefix /\ W!ReturnTruthful))
<1> SUFFICES ASSUME Timed PROVE Spec => [](W!AllInv /\ W!WirePrefix /\ W!ReturnTruthful)
  OBVIOUS
<1>1. Spec => W!Spec
  BY ImplementsI2CTransfer, SameTransfer, PTL DEF ImplementsTransfer
<1>2. /\ W!Spec => []W!IInv
      /\ W!Spec => []W!Offering
      /\ W!Spec => [](W!TypeOK /\ W!Placed)
      /\ W!Spec => []W!WInv
      /\ W!Spec => []W!WirePrefix
      /\ W!Spec => []W!ReturnTruthful
  BY ONLY W!Invariance, W!OfferInvariance, W!TypeInvariance, W!WireInvariance, W!WireIsPrefix,
     W!ReturnIsTruthful,
     PrescaleAssumption, DelayAssumption, AddrsAssumption, BusAssumption
<1>3. W!IInv /\ W!Offering /\ W!TypeOK /\ W!Placed /\ W!WInv => W!AllInv
  BY DEF W!AllInv
<1>4. QED
  BY <1>1, <1>2, <1>3, PTL

-----------------------------------------------------------------------------
(* On the lines themselves.                                                *)

\* Without its last element a prefix is one still.
LEMMA PrefixShorter ==
    ASSUME NEW S, NEW s \in Seq(S), NEW x \in S, NEW t \in Seq(S), IsPrefix(Append(s, x), t)
    PROVE  IsPrefix(s, t)
<1>1. /\ Append(s, x) \in Seq(S) /\ Len(Append(s, x)) = Len(s) + 1
      /\ \A i \in 1..Len(s) : Append(s, x)[i] = s[i]
  BY AppendProperties
<1>2. Len(Append(s, x)) <= Len(t) /\ \A i \in 1..Len(Append(s, x)) : Append(s, x)[i] = t[i]
  BY DEF IsPrefix
<1>3. Len(s) \in Nat /\ Len(t) \in Nat
  OBVIOUS
<1>4. QED
  BY <1>1, <1>2, <1>3 DEF IsPrefix

\* The symbols of a transaction are the same in both instances,
LEMMA SameSymbols ==
    ASSUME NEW t, NEW r, NEW n, NEW a
    PROVE  W!Symbolled(t, r, n, a) = T!Symbolled(t, r, n, a)
BY Zenon
DEF W!Symbolled, W!Parts, W!Sent, W!SymbolAt, W!BitSymbol, W!BitOf, W!Starts, W!OpLength, W!ByteAt,
    W!FlattenSeq, T!Symbolled, T!Parts, T!Sent, T!SymbolAt, T!BitSymbol, T!BitOf, T!Starts,
    T!OpLength, T!ByteAt, T!FlattenSeq

\* and those of I2CSession with the replies that the peripheral gave,
LEMMA SymbolsOnLines ==
    ASSUME NEW n, NEW a, T!WellFormed(txn), n \in 0..Len(txn), a \in T!Symbols
    PROVE  TxnSymbols(n, a) = T!Symbolled(txn, replies, n, a)
<1>1. T!TxnSymbols(n, a) = T!Symbolled(txn, replies, n, a)
  BY ONLY T!SymbolledIs, T!WellFormed(txn), n \in 0..Len(txn), a \in T!Symbols,
     PrescaleAssumption, DelayAssumption, AddrsAssumption, BusAssumption
<1>2. TxnSymbols(n, a) = T!TxnSymbols(n, a)
  <2>1. \A op, b, c : OpSymbols(op, b, c) = T!OpSymbols(op, b, c)
    BY Zenon DEF OpSymbols, DataBits, BitSymbol, BitOf, T!OpSymbols, T!DataBits, T!BitSymbol, T!BitOf
  <2>2. \A i : ByteOf(i) = T!ByteOf(i)
    BY Zenon DEF ByteOf, T!ByteOf, Cardinality, T!Cardinality
  <2>3. \A s : FlattenSeq(s) = T!FlattenSeq(s)
    BY Zenon DEF FlattenSeq, T!FlattenSeq
  <2>4. \A b : BitSymbol(b) = T!BitSymbol(b)
    BY Zenon DEF BitSymbol, T!BitSymbol
  <2>5. [i \in 1..n |-> OpSymbols(txn[i], ByteOf(i),
                       IF txn[i].rx THEN BitSymbol(txn[i].nack) ELSE IF i < n THEN "0" ELSE a)]
        = [i \in 1..n |-> T!OpSymbols(txn[i], T!ByteOf(i),
                       IF txn[i].rx THEN T!BitSymbol(txn[i].nack) ELSE IF i < n THEN "0" ELSE a)]
    BY <2>1, <2>2, <2>4, Zenon
  <2>6. QED
    BY <2>3, <2>5, Zenon DEF TxnSymbols, T!TxnSymbols
<1>3. QED
  BY <1>1, <1>2

\* or with those that it has been asked for.
LEMMA SymbolsAsked ==
    ASSUME NEW n, NEW a, W!WellFormed(txn), n \in 0..Len(txn), a \in W!Symbols
    PROVE  W!TxnSymbols(n, a) = W!Symbolled(txn, RepliesAsked, n, a)
BY ONLY W!SymbolledIs, W!WellFormed(txn), n \in 0..Len(txn), a \in W!Symbols,
   PrescaleAssumption, DelayAssumption, AddrsAssumption, BusAssumption

\* What is known of a transaction that has been called.
LEMMA Called ==
    ASSUME MInv, W!AllInv, txn # <<>>
    PROVE  /\ T!WellFormed(txn) /\ W!WellFormed(txn)
           /\ k \in 1..Len(txn) /\ Len(txn) \in Nat /\ Begun \in 0..Len(txn)
           /\ pc \in W!Busy \cup {"idle"} /\ pc \notin Initialising
           /\ SymbolsSent \in Seq(Symbols) /\ RepliesAsked \in Seq(0..255)
           /\ wire \in Seq(Symbols) /\ replies \in Seq(0..255)
<1>1. W!Kept /\ W!TypeOK
  BY DEF W!AllInv, W!WInv
<1>2. txn \in W!Txns /\ k \in 1..Len(txn) /\ pc \in W!Busy \cup {"idle"}
  BY <1>1 DEF W!Kept
<1>3. \A t \in W!Txns : W!WellFormed(t)
  BY ONLY W!TxnsWellFormed, PrescaleAssumption, DelayAssumption, AddrsAssumption, BusAssumption
<1>4. W!WellFormed(txn)
  BY <1>2, <1>3
<1>5. T!WellFormed(txn)
  BY <1>4 DEF W!WellFormed, T!WellFormed, W!Op, T!Op
<1>6. Len(txn) \in Nat
  BY <1>4 DEF W!WellFormed
<1>7. Begun \in 0..Len(txn)
  BY <1>2, <1>6 DEF Begun
<1>8. SymbolsSent \in Seq(Symbols) /\ RepliesAsked \in Seq(0..255)
  BY <1>1 DEF W!TypeOK, W!HistoryTypeOK, W!Symbols, Symbols
<1>9. wire \in Seq(Symbols) /\ replies \in Seq(0..255)
  BY DEF MInv, BInv, TypeOK, HistoryTypeOK
<1>10. pc \notin Initialising
  BY <1>2 DEF W!Busy, Initialising
<1>11. QED
  BY <1>2, <1>4, <1>5, <1>6, <1>7, <1>8, <1>9, <1>10

\* A reply under way is to an operation whose command is still to come.
LEMMA RepliesEnough ==
    ASSUME MInv, W!AllInv, txn # <<>>, RepliesAsked # replies
    PROVE  /\ replies # <<>> /\ RepliesAsked = Front(replies)
           /\ \/ Begun = 0 \/ ~txn[Begun].rx
              \/ Len(RepliesAsked) >= Begun - Len(txn) + 2
<1>1. role = "talk" /\ RepliesAsked = Front(replies)
  BY DEF RepliesAsked
<1>2. replies # <<>>
  BY <1>1 DEF MInv, Answers
<1>3. pc # "idle"
  BY <1>1 DEF MInv, BInv, Together
<1>4. pc \in W!Busy
  BY <1>3, Called
<1>5. Len(RepliesAsked) = IF ~txn[k].rx THEN 0
                          ELSE IF pc = "command" THEN k - Len(txn) + 1 ELSE k - Len(txn) + 2
  BY <1>4 DEF W!AllInv, W!WInv, W!Answered, W!ThisOp
<1>6. k \in Nat /\ k >= 1 /\ k <= Len(txn) /\ Len(txn) \in Nat
  BY Called
<1>7. CASE txn[k].rx
  <2>1. pc # "txr"
    BY <1>7 DEF MInv, BInv, Together
  <2>2. Len(RepliesAsked) >= Begun - Len(txn) + 2
    BY <1>5, <1>6, <1>7, <2>1 DEF Begun
  <2>3. QED
    BY <1>1, <1>2, <2>2
<1>8. CASE ~txn[k].rx
  <2>1. Begun = k \/ Begun = k - 1
    BY DEF Begun
  <2>2. Begun # 0 => ~txn[Begun].rx
    <3>1. CASE Begun = k
      BY <1>8, <3>1
    <3>2. CASE Begun = k - 1 /\ Begun # 0
      <4>1. k - 1 \in 1..Len(txn) /\ k \in 1..Len(txn)
        BY <1>6, <3>2
      <4>2. \A i \in 1..Len(txn) : txn[i].rx <=> txn[Len(txn)].rx /\ i >= Len(txn) - 1
        BY Called DEF T!WellFormed
      <4>3. k - 1 >= Len(txn) - 1 => k >= Len(txn) - 1
        BY <1>6
      <4>4. ~txn[k - 1].rx
        BY <1>8, <4>1, <4>2, <4>3
      <4>5. QED
        BY <3>2, <4>4
    <3>3. QED
      BY <2>1, <3>1, <3>2
  <2>3. QED
    BY <1>1, <1>2, <2>2
<1>9. QED
  BY <1>7, <1>8

\* So the symbols asked for are those that the lines should show.
LEMMA SymbolsAgree ==
    ASSUME MInv, W!AllInv, txn # <<>>, NEW a \in {"0", "1"}
    PROVE  TxnSymbols(Begun, a) = W!Symbolled(txn, RepliesAsked, Begun, a)
<1> DEFINE n == Begun
           r == RepliesAsked
<1>1. T!WellFormed(txn) /\ n \in 0..Len(txn) /\ a \in T!Symbols
  BY Called DEF T!Symbols
<1>2. TxnSymbols(n, a) = T!Symbolled(txn, replies, n, a)
  BY <1>1, SymbolsOnLines
<1>3. W!Symbolled(txn, r, n, a) = T!Symbolled(txn, r, n, a)
  BY SameSymbols
<1>4. T!Symbolled(txn, replies, n, a) = T!Symbolled(txn, r, n, a)
  <2>1. CASE r = replies
    BY <2>1
  <2>2. CASE r # replies
    <3> DEFINE b == Last(replies)
    <3>1. replies = Append(r, b) /\ r \in Seq(0..255) /\ b \in 0..255
      BY <2>2, RepliesEnough, Called, Ended
    <3>2. n = 0 \/ ~txn[n].rx \/ Len(r) >= n - Len(txn) + 2
      BY <2>2, RepliesEnough
    <3> HIDE DEF n, r, b
    <3>3. T!Unread(txn, r, b, n)
      BY <1>1, <3>1, <3>2 DEF T!Unread
    <3>4. T!Symbolled(txn, Append(r, b), n, a) = T!Symbolled(txn, r, n, a)
      BY ONLY <3>3, T!SymbolledUnread,
         PrescaleAssumption, DelayAssumption, AddrsAssumption, BusAssumption
    <3>5. QED
      BY <3>1, <3>4
  <2>3. QED
    BY <2>1, <2>2
<1>5. QED
  BY <1>2, <1>3, <1>4

\* A START that is seen before its command has ended is the first symbol of
\* the operation under way.
LEMMA StartOnLines ==
    ASSUME MInv, W!AllInv, txn # <<>>, StartSent
    PROVE  IsPrefix(wire, W!Symbolled(txn, RepliesAsked, Begun, "0"))
<1> DEFINE op == txn[k]
           byte == W!ThisByte
           base == W!Before
           one == W!Sent(op, byte, "0", 1)
           rest == W!Sent(op, byte, "0", W!OpLength(op))
<1>1. BInv /\ Begins /\ W!IInv /\ W!WInv
  BY DEF MInv, W!AllInv
<1>2. Serving = "START" /\ pc \notin Initialising
  BY Called, ServingOf DEF StartSent, Addressing
<1>3. T!Pending /\ T!Turn /\ ~core_ack
  <2>1. T!IInv /\ Together
    BY <1>1 DEF BInv
  <2>2. T!Pending
    BY <1>2, <2>1, AtRest DEF T!Settled
  <2>3. QED
    BY <1>2, <2>1, <2>2 DEF Together, InTurn, T!IInv, T!Handshake
<1>4. core_cmd = "START" /\ byte_state = "START" /\ op.sta
  <2>1. core_cmd = "START"
    BY <1>2, <1>3 DEF T!Turn
  <2>2. core_cmd = T!BitCommandOf(op, byte_state)
    BY <1>3 DEF T!Turn, T!ThisOp
  <2>3. byte_state = "START"
    BY <2>1, <2>2 DEF T!BitCommandOf
  <2>4. QED
    BY <1>3, <2>1, <2>3 DEF T!Turn, T!ThisOp
<1>5. SymbolsSent = base \o W!Sent(op, byte, W!ThisAck, 0)
  <2>1. W!Pending /\ ~i2c_al
    BY <1>1, <1>3 DEF W!Pending, T!Pending, BInv, NeverLost
  <2>2. W!Position
    BY <1>1, <2>1 DEF W!WInv, W!InProgress
  <2>3. W!Place = 0
    BY <1>3, <1>4 DEF W!Place, W!Acked
  <2>4. QED
    BY <2>2, <2>3 DEF W!Position, W!ThisOp
<1>6. base \in Seq(Symbols)
  <2>1. k - 1 \in Nat /\ "0" \in W!Symbols
    BY Called DEF W!Symbols
  <2>2. W!Before \in Seq(W!Symbols)
    <3>1. W!Symbolled(txn, RepliesAsked, k - 1, "0") \in Seq(W!Symbols)
      BY ONLY <2>1, W!SymbolledType,
         PrescaleAssumption, DelayAssumption, AddrsAssumption, BusAssumption
    <3>2. QED
      BY <3>1 DEF W!Before
  <2>3. QED
    BY <2>2 DEF W!Symbols, Symbols
<1>7. W!Sent(op, byte, W!ThisAck, 0) = <<>>
  BY ONLY W!SentNothing,
     PrescaleAssumption, DelayAssumption, AddrsAssumption, BusAssumption
<1>8. one = <<"START">>
  <2>1. W!SymbolAt(op, byte, "0", 1) = "START"
    BY <1>4 DEF W!SymbolAt, W!Starts
  <2>2. one = [i \in 1..1 |-> W!SymbolAt(op, byte, "0", i)]
    BY DEF W!Sent
  <2> HIDE DEF op, byte, one
  <2>3. QED
    BY <2>1, <2>2
<1>9. wire = base \o one
  <2>1. wire \in Seq(Symbols) /\ wire # <<>> /\ Last(wire) = "START"
    BY <1>1, Called DEF Begins
  <2>2. wire = Append(SymbolsSent, "START")
    BY <2>1, Ended DEF SymbolsSent
  <2> HIDE DEF base, one
  <2>3. SymbolsSent = base
    BY <1>5, <1>6, <1>7, ConcatEmptySeq
  <2>4. "START" \in Symbols
    BY DEF Symbols
  <2>5. base \o <<"START">> = Append(base, "START")
    BY <1>6, <2>4, Appended
  <2>6. QED
    BY <1>8, <2>2, <2>3, <2>5
<1>10. W!IsPrefix(base \o one, base \o rest)
  <2>1. "0" \in W!Symbols /\ W!Before \in Seq(W!Symbols)
    BY <1>6 DEF W!Symbols, Symbols
  <2>2. 1 \in 0..W!OpLength(op)
    BY DEF W!OpLength, W!Starts
  <2> HIDE DEF op, byte
  <2>3. QED
    BY ONLY <2>1, <2>2, W!SentIsPrefix,
       PrescaleAssumption, DelayAssumption, AddrsAssumption, BusAssumption
<1>11. W!Symbolled(txn, RepliesAsked, k, "0") = base \o rest
  <2>1. k \in Nat /\ k >= 1
    BY Called
  <2>2. "0" \in W!Symbols
    BY DEF W!Symbols
  <2>3. W!Symbolled(txn, RepliesAsked, k, "0")
          = W!Before \o W!Sent(W!ThisOp, W!ThisByte, "0", W!OpLength(W!ThisOp))
    BY ONLY <2>1, <2>2, W!SymbolledHere,
       PrescaleAssumption, DelayAssumption, AddrsAssumption, BusAssumption
  <2>4. QED
    BY <2>3 DEF W!ThisOp
<1>12. Begun = k
  BY <1>3 DEF T!Pending, Begun
<1>13. IsPrefix(base \o one, base \o rest)
  BY <1>10 DEF W!IsPrefix, IsPrefix
<1>14. QED
  BY <1>9, <1>11, <1>12, <1>13

\* What is on the lines is a prefix of what the driver asked for.
LEMMA LinesPrefix ==
    ASSUME MInv, W!AllInv, W!WirePrefix
    PROVE  WirePrefix
<1> SUFFICES ASSUME txn # <<>>
             PROVE  \E a \in {"0", "1"} : IsPrefix(wire, TxnSymbols(Begun, a))
  BY DEF WirePrefix
<1>1. CASE StartSent
  <2>1. IsPrefix(wire, TxnSymbols(Begun, "0"))
    BY <1>1, StartOnLines, SymbolsAgree
  <2>2. QED
    BY <2>1
<1>2. CASE ~StartSent
  <2>1. PICK a \in {"0", "1"} : W!IsPrefix(SymbolsSent, W!TxnSymbols(W!Begun, a))
    BY DEF W!WirePrefix
  <2>2. W!Begun = Begun
    BY DEF W!Begun, Begun
  <2>3. W!WellFormed(txn) /\ Begun \in 0..Len(txn) /\ a \in W!Symbols
    BY Called DEF W!Symbols
  <2>4. W!TxnSymbols(Begun, a) = TxnSymbols(Begun, a)
    BY <2>3, SymbolsAsked, SymbolsAgree
  <2> DEFINE t == TxnSymbols(Begun, a)
  <2>5. t \in Seq(Symbols)
    <3>1. W!Symbolled(txn, RepliesAsked, Begun, a) \in Seq(W!Symbols)
      <4>1. Begun \in Nat
        BY <2>3, Called
      <4>2. QED
        BY ONLY <2>3, <4>1, W!SymbolledType,
           PrescaleAssumption, DelayAssumption, AddrsAssumption, BusAssumption
    <3>2. QED
      BY <3>1, SymbolsAgree DEF W!Symbols, Symbols
  <2>6. IsPrefix(SymbolsSent, t)
    BY <2>1, <2>2, <2>4 DEF W!IsPrefix, IsPrefix
  <2> HIDE DEF t
  <2>7. IsPrefix(wire, t)
    <3>1. wire \in Seq(Symbols) /\ SymbolsSent = wire \o OnItsWay
      BY <1>2, Called DEF SymbolsSent
    <3>2. CASE OnItsWay = <<>>
      <4>1. SymbolsSent = wire
        BY <3>1, <3>2, ConcatEmptySeq
      <4>2. QED
        BY <2>6, <4>1
    <3>3. CASE OnItsWay # <<>>
      <4>1. PICK x \in Symbols : OnItsWay = <<x>>
        <5>1. Lines
          BY Called DEF MInv, BInv
        <5>2. core_ack /\ core_cmd \in {"READ", "WRITE"} => bit \in Symbols
          BY <5>1 DEF Lines, AckSeen, BitSymbol, Symbols
        <5>3. "STOP" \in Symbols
          BY DEF Symbols
        <5>4. QED
          BY <3>3, <5>2, <5>3 DEF OnItsWay
      <4>2. SymbolsSent = Append(wire, x)
        BY <3>1, <4>1, Appended
      <4>3. QED
        BY <2>5, <2>6, <3>1, <4>2, PrefixShorter
    <3>4. QED
      BY <3>2, <3>3
  <2>8. QED
    BY <2>7 DEF t
<1>3. QED
  BY <1>1, <1>2

\* Once a transaction has returned both histories are the same.
LEMMA LinesReturn ==
    ASSUME MInv, W!AllInv, W!ReturnTruthful
    PROVE  ReturnTruthful
<1> SUFFICES ASSUME pc = "idle", ret # NoReturn
             PROVE  \/ /\ ret >= 0
                       /\ wire = TxnSymbols(Len(txn), "0")
                       /\ ret = IF Len(replies) = 2 THEN 256 * replies[1] + replies[2] ELSE 0
                    \/ /\ ret = ENACK
                       /\ ~txn[k].rx
                       /\ wire = TxnSymbols(k, "1")
                    \/ /\ ret = EARB
                       /\ outcome = "lost"
  BY DEF ReturnTruthful
<1>1. txn # <<>>
  BY DEF W!AllInv, W!WInv, W!Kept, W!NoReturn, NoReturn
<1>2. RepliesAsked = replies
  BY DEF MInv, BInv, Together, RepliesAsked
<1>3. SymbolsSent = wire
  <2>1. ~core_ack /\ Serving = "NOP"
    BY DEF MInv, BInv, T!IInv, T!Resting, T!Settled
  <2>2. ~StartSent
    BY <2>1, ServingOf DEF StartSent, Addressing
  <2>3. wire \o <<>> = wire
    BY <1>1, Called, ConcatEmptySeq
  <2>4. QED
    BY <2>1, <2>2, <2>3 DEF SymbolsSent, OnItsWay
<1>4. ASSUME NEW n \in 0..Len(txn), NEW a \in {"0", "1"}
      PROVE  W!TxnSymbols(n, a) = TxnSymbols(n, a)
  <2>1. W!WellFormed(txn) /\ T!WellFormed(txn) /\ a \in W!Symbols /\ a \in T!Symbols
    BY <1>1, Called DEF W!Symbols, T!Symbols
  <2>2. W!TxnSymbols(n, a) = W!Symbolled(txn, replies, n, a)
    BY <1>2, <2>1, SymbolsAsked
  <2>3. TxnSymbols(n, a) = T!Symbolled(txn, replies, n, a)
    BY <2>1, SymbolsOnLines
  <2>4. QED
    BY <2>2, <2>3, SameSymbols
<1>5. Len(txn) \in 0..Len(txn) /\ k \in 0..Len(txn)
  BY <1>1, Called
<1>6. W!TxnSymbols(Len(txn), "0") = TxnSymbols(Len(txn), "0")
      /\ W!TxnSymbols(k, "1") = TxnSymbols(k, "1")
  BY <1>4, <1>5
<1>7. \/ /\ ret >= 0
         /\ SymbolsSent = W!TxnSymbols(Len(txn), "0")
         /\ ret = IF Len(RepliesAsked) = 2 THEN 256 * RepliesAsked[1] + RepliesAsked[2] ELSE 0
      \/ /\ ret = W!ENACK
         /\ ~txn[k].rx
         /\ SymbolsSent = W!TxnSymbols(k, "1")
      \/ /\ ret = W!EARB
         /\ outcome = "lost"
  BY DEF W!ReturnTruthful, W!NoReturn, NoReturn
<1>8. QED
  BY <1>2, <1>3, <1>6, <1>7 DEF W!ENACK, ENACK, W!EARB, EARB

\* MInv holds throughout, and with it what I2CTransferProofs knows.
LEMMA MapInvariance == Timed => (Spec => []MInv)
<1> SUFFICES ASSUME Timed PROVE Spec => []MInv
  OBVIOUS
<1>1. Init => MInv
  BY TransferInits
<1>2. MInv /\ [Next]_vars => MInv'
  BY TransferStep, TransferStutters
<1>3. QED
  BY <1>1, <1>2, PTL DEF Spec

\* WirePrefix (I2CSession) on the lines: with the bit controller of
\* i2c_controller_bit_ctrl.v and a peripheral that may stretch SCL and refuse
\* bytes, what an observer of SCL and SDA sees is a prefix of what i2c.c asked
\* for, no bit twice and none left out.
THEOREM BusWireIsPrefix == Timed => (Spec => []WirePrefix)
<1> SUFFICES ASSUME Timed PROVE Spec => []WirePrefix
  OBVIOUS
<1>1. MInv /\ W!AllInv /\ W!WirePrefix => WirePrefix
  BY LinesPrefix
<1>2. QED
  BY <1>1, MapInvariance, TransferHolds, PTL

\* ReturnTruthful (I2CSession) on the lines: when i2c_read_txn and the others
\* return success every symbol has been seen on SCL and SDA, and a read returns
\* the two bytes that the peripheral put there; ENACK is the refusal seen there.
THEOREM BusReturnIsTruthful == Timed => (Spec => []ReturnTruthful)
<1> SUFFICES ASSUME Timed PROVE Spec => []ReturnTruthful
  OBVIOUS
<1>1. MInv /\ W!AllInv /\ W!ReturnTruthful => ReturnTruthful
  BY LinesReturn
<1>2. QED
  BY <1>1, MapInvariance, TransferHolds, PTL
=============================================================================
