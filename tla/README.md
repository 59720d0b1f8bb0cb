# TLA+ models of the OHMC2022 theremin firmware

The Rockling theremin badge is an iCE40 FPGA with a small RISC-V CPU, an I2C
core, two frequency counters and a USB debug bridge, and a BIOS that drives
them. This directory holds TLA+ models of that system, the TLC configurations
that check them, and TLAPS proofs about them. `PROJECT.json` maps every
definition to the lines it models, lists the runs and the hazards they are for.

## 1. The system

| component | source | state | operations | interacts with |
|---|---|---|---|---|
| BIOS main program | `custom-bios/main.c`, `dac.c`, `codec.c` | LED, latch pin, `post_failed`, cycle samples | `post`, `extended_post`, `dac_test_loop` | calls the I2C driver; writes LED, latch and counter CSRs |
| I2C driver | `custom-bios/i2c.c` | position in a transaction, last status | `i2c_init`, `i2c_read_txn`, `i2c_write_txn`, `i2c_general_call_reset` | CSRs of the I2C core, by polling |
| I2C CSR wrapper | `rtl/i2c/core.py` | prescale, control, txr, command, core_reset; TIP, IF, ArbLost | register writes; one clock | ports of the byte controller |
| byte controller | `rtl/i2c/i2c_controller_byte_ctrl.v` | state, shift register, bit counter, strobes | one clock | bit commands and `core_ack` with the bit controller |
| bit controller | `rtl/i2c/i2c_controller_bit_ctrl.v` | divider, capture and filter of the lines, detectors, state | one clock | the SCL and SDA lines |
| frequency counter | `rtl/freq_counter.py` | synchronizer, `elapse`, `cycles`, `ctrl` | one clock; write of `ctrl` | BIOS and host share `ctrl` |
| host scripts | `tools/*.sh`, `tools/read_freq.py` | none | CSR accesses over USB | every CSR, at any time |
| Messible | `rtl/messible.py` | FIFO of 64 bytes | write `in`, read `out` | BIOS writes, host reads |
| Etherbone client | `remote-bus/etherbone.c` | socket | `eb_read32`, `eb_write32` | TCP or UDP to a bridge |
| RGB LED | `custom-bios/rgb.c`, `rtl/sbled.py`, `tools/rgb.c`, `tools/led_test.sh` | ctrl, raw, address and data CSR, LED registers | `rgb_init`, `rgb_write`, `rgb_set` | BIOS and host share the CSRs |
| build environment | `lxbuildenv.py` | submodules on disk, `bin/`, environment | what `import lxbuildenv` does in a program | starts Python and git |
| clock and reset | `rockling.py` (`_CRG`) | `reset_delay` | power-on countdown | resets everything |

There is no operating system, no interrupt and no lock. Concurrency comes from
three places: the CPU and the gateware run side by side and see each other only
through registers; the USB bridge is a second master on the same bus, so the
host may access any register between two accesses of the CPU; and the
peripherals on the I2C bus are on their own. The hard behaviours are:

- the handshakes of the I2C core, whose layers see each other one or two clocks
  late, and a driver that polls a flag which rises a clock after the command;
- everything that can go wrong on the I2C bus: a byte refused, SCL held low, a
  (real or imagined) loss of arbitration;
- two masters on one register (`ctrl`, `core_reset`), or on a register that takes two
  accesses to write (the LED);
- the CPU reset alone by `tools/hot_reload.sh`, which leaves all the rest as it was;
- a build script that fetches what it depends on, starts itself again and may be stopped or
  launched twice at any moment;
- 32-bit counters that wrap, a divider with a smallest useful value.

What makes each component correct:

- *driver*: a transaction puts on the bus the bytes asked for, in order, between
  START and STOP, stops at the first refused byte, and returns what happened;
- *wrapper and byte controller*: a command runs once, TIP covers it, and the
  flags read at its end are its own;
- *bit controller*: it serves one bit command at a time, samples the data bit
  only when it is stable, keeps the I2C discipline of the lines through clock
  stretching, and sees no other controller where there is none;
- *frequency counter*: the count is the number of rising edges, but for the edges
  next to resets and pauses, and never more than the clock allows;
- *Messible*: bytes leave in the order they came, and only a full queue drops them;
- *Etherbone client*: a read returns the register it asked for, as it was after the
  writes sent before, however the stream cuts the answer;
- *main program*: the colour of the LED tells the truth about the tests;
- *LED*: the colour set is the colour shown, whatever was in the registers before, and a
  value goes to the register it is for unless the other master came in between;
- *build environment*: git is not run where its lack went unreported, a program that starts finds its
  dependencies, and every launch ends.

## 2. Modules

The I2C path is modelled twice above the byte controller's lower boundary: once
with an abstract bit service, which is small enough for all interleavings and
for proofs, and once with the real bit controller and the wires; a refinement
ties the two.

| module | models | remarks |
|---|---|---|
| `I2CByteCtrl` | byte controller | input ports and registers are variables; `Tick` is one clock |
| `I2CBitCtrl` | bit controller | every register of the Verilog, one `Tick` per clock |
| `I2CBitService` | what the bit controller promises | `Accept`, `Work`, `Finish`, `Abort`, `Rest`; abstract specification |
| `RTLI2C` | CSR wrapper | instantiates `I2CByteCtrl` as `Byte`; register writes; `CsrTick` |
| `I2CDriver` | `i2c.c` | one action per register access or check |
| `I2CSession` | steps of the CPU with history of the bus, and the shared properties | extended by the next two |
| `I2CTransfer` | driver + wrapper + byte controller + `I2CBitService` + peripheral | arbitration may be lost at any clock |
| `I2CBus` | driver + wrapper + byte controller + `I2CBitCtrl` + lines + peripheral | shows that `I2CBitCtrl` implements `I2CBitService`, and itself `I2CTransfer` |
| `I2CCalls` | `I2CTransfer` with the arguments of the calls, to compare with the bytes on the bus | history variable `call` |
| `I2CReset` | `I2CTransfer` with a `core_reset` by the host | |
| `FreqCounter` | one frequency counter | `Modulus` stands for 2^32 |
| `FreqHost` | `FreqCounter` with `dac_test_loop` and `read_freq.py` | |
| `Bios` | main program over transactions that succeed or fail | |
| `Messible` | FIFO, flags, CPU and host | migen's `SyncFIFOBuffered` is external; one step is one clock with at most one bus access |
| `LossyQueue` | what the Messible promises | abstract specification; leaves open whether the byte at the limit is kept |
| `Etherbone` | client of the remote bus over TCP | server and sockets are external |
| `RgbLed` | LED CSRs, `rgb.c`, `led_test.sh` | the LED block and the board are external |
| `LxBuildEnv` | `lxbuildenv.py`, as imported by a program | git, Python and the file system are external |
| `I2CTransferProofs`, `I2CBusProofs`, `FreqCounterProofs`, `BiosProofs`, `MessibleProofs`, `EtherboneProofs`, `RgbLedProofs`, `LxBuildEnvProofs` | proofs | |
| `MC*` | instances for TLC | constants are in the `.cfg` files |

How state and actions correspond to the code:

- *Gateware.* A `Tick` is the rising edge of `clk`: all registers of a module
  change at once, from the values before. The registers have the names of the
  source, except that `I2CBus` and `RTLI2C` prefix those that occur in two
  modules (`byte_state`, `bit_state` for the two `c_state`; `done`, `rxack`,
  `rxr` as `core.py` calls the outputs). `nReset` is tied to 1; the initial
  state is the one the synchronous power-on reset leaves.
- *CPU.* A step between two clocks. A register write is seen by the next clock. A
  write in the clock in which the core clears the command register comes after
  that clock, and wins, as in LiteX's `CSRStorage`. The pieces of
  `i2c_tx_char` are the labels `txr`, `command`, `wait`; of `i2c_rx_char`
  `command`, `wait`, `rxr`; `check` is the `CHECK_` macro. A transaction is the
  sequence of its byte operations, which is exactly how `i2c.c` is written.
- *Time.* The program counts no clocks, but it cannot make two register accesses
  in one: `AccessTime` is a lower bound for the clocks between two accesses,
  `NopDelay` for those of `nop_delay()`. Nothing bounds them above. Every run
  uses values far below the real ones (some 10 and some 1000), and the proofs hold
  for all.
- *Peripherals* are external. Refusals, answers and stretching are free
  choices; only the rules of the I2C bus are assumed (SDA moves while SCL is low).
- *Remote bus.* One action per system call of `etherbone.c` whose outcome matters;
  the turns of the loop in `eb_read32` that change nothing (EINTR, EAGAIN, the 0 at the
  end of a closed stream) are stuttering. A packet is `Size` units, of which the last holds data
  or address. The CPU of the SoC writes the registers at any time; `seen` collects
  what the register of a read was since its call. A write to a closed connection is
  dropped or kills the program (SIGPIPE). The server takes a connection when it is done with the one before.
- *LED.* One action per register access. `todo` holds the accesses that each master is still to make; a reset of
  the CPU (`HotReload`) and a restart of the script (`HostScript`) begin anew and leave the registers as they are.
  The wiring of the LEDs on the board is not in the repository: it is taken from `rgb_set`, whose comment says that
  they are "wired funny", and from the permutation that `sbled.py` makes for the revision.
- *Build environment.* `lxbuildenv.py` runs in each launched program, and again in the child that the program
  starts. One action per part of it that reads or writes something others see: the options, the check of the
  dependencies, each of the two look-ups of submodules, the call of git, the child. A submodule is
  absent, an empty directory, cloned (but not checked out) or there. Several launches run on one tree, one after the other or at once; each may be killed.
- Some definitions are followed by no use at all and are marked *Mutant*: each is
  a plausible bug put in place of the definition after it to see that a
  property notices.

## 3. Runs

| run | instance | shows |
|---|---|---|
| `transfer` | `I2CCalls` with words {0, -151}, answers {178}, Setup 1, delays 1 and 2 | types; `TipSound`, `ArbLostTruthful`, `EndsOnce`, `WirePrefix`, `ReturnTruthful`, `ArgumentsHeard`, `TxdStable`; every transaction returns (`TxnReturns`) |
| `bus` | prescale 23, stretching before ACK, answers {77} | types, frames, `NoArbitrationLoss`, `BusReleased`, refinement `ImplementsBitService` |
| `bus_fastest` | prescale 3, stretching before bits 0, 3 and 8, answers {77, 178} | results (`ReturnTruthful`), `NoArbitrationLoss`, refinement `ImplementsTransfer` (which has the frames and every clock of the bit service in it) and `TxnReturns`, at the smallest prescale that works |
| `stale_reset` | words {150}, answers {77} | `ResetQuiesces` is violated (finding) |
| `freq_counter` | Modulus 16 | types, `NyquistBound`, `CountError` |
| `freq_pause` | Modulus 8 | `PauseHolds` is violated (finding) |
| `bios` | one wrong word | types, `NoFalseAlarm`, `BlueMeansLevels`, `BlueMeansRestored` |
| `bios_led` | the same | `BlueMeansPostPassed` is violated (finding) |
| `messible` | Depth 3, two bytes, AccessTime 2 | types, `FullTruthful`, `HaveTruthful`, refinement `ImplementsLossyQueue` |
| `etherbone` | two registers, two values, packets of 3 units, two requests in the send buffer | types, `ReadTruthful`, `NoLeak`, `ReadReturns` |
| `rgb_led` | rockling_evt, three of the six settings, the colours of the firmware, one stray at a time | types, `LedTruthful`, `WritesLand` |
| `lx_build` | two programs, two dependencies, one of them with a submodule of its own, the options that matter | types, `GitWasChecked`, `ProgramHasDeps`, every launch ends (`LaunchEnds`) |

**Why the bounds are enough.** The I2C instances run *all* transactions of the
driver, one after the other for ever, with every byte acknowledged or refused;
data enters the control only through its bits, its low byte and the sign of `tx1`, and 150 = 10010110b,
105 = -151 + 256 and 77, 178 have both bits next to both, at both ends, and distinguish
byte and bit order (the order of two different bytes received is checked in
`bus_fastest`, where a transaction may read 77 and then 178). 0 is the least `tx1` that is sent, and of -151 the low byte is sent except as `tx1`. The prescale changes how many clocks a quarter takes against
the constant delay of capture and filter: 23 is the firmware's value and 3 the
smallest that works. The counter wraps in both fields at any modulus; 16 clocks leave
room for resets, pauses and edges in all orders. A Messible of 3 bytes is empty, partly filled,
full and full with a byte in its output register; 3 units can be cut in all ways that
differ (before, in and after the data), and two requests under way let a write precede a read.
The six settings of `rgb_init` are written alike, so three of them leave room for the other
master before, between and after; `MaxStrays` bounds how many registers may hold a stray
value at once, not how often an address is overwritten. In `LxBuildEnv` a dependency with and one without a submodule of
its own are the two cases the code tells apart, and the second program may
do anything while the first is at any point. No program of the repository sets `skip-git`; what it does is covered by the proof only.

**What the bounds showed.** With a prescale of 0 `ImplementsBitService` fails, with
1 `NoArbitrationLoss`, with 2 `WirePrefix`; 3, 4, 7 and 23 pass. `I2CTransfer` needs
`Setup >= 1`: with 0 `TxdStable` fails, that is, a bit controller that sampled its
data bit in the clock after it took the command would send the bit before; the real
one samples a quarter later, as `ImplementsBitService` shows. `I2CBus` needs
`AccessTime >= 2`: `core_reset` clears the capture registers while both lines are high, the
filter, which samples at every clock until the core is enabled, sees both lines rise
together, and a command started within some 20 clocks takes that for a STOP and
loses arbitration. The CPU needs many more clocks than that to get there.

`Messible` needs `AccessTime >= 2`: two accesses of the CPU in successive
clocks could read FULL while a byte is on its way into the last place, and `FullTruthful` fails. A
bus access takes more clocks than that.

**Fairness.** In `I2CTransfer` (`Fairness`, which `CallsSpec` has) the clock runs, the CPU executes, and the
bit service takes, continues and ends a command that stays; in `I2CBus` the clock runs
through other than stretched clocks, that is the peripheral lets go of SCL some time, and the
CPU executes. Nothing else is fair: the program need never start a transaction, and
a peripheral that holds SCL for ever hangs the driver, as `i2c_wait_tip` has no timeout. In `Etherbone` the client takes
units that have arrived and returns, and the server serves what it was sent while the connection is
open; nothing makes it stay open, and `ReadReturns` says nothing once it is closed, for then `eb_read32`
gets 0 bytes for ever. In `LxBuildEnv` Python executes and git and the program end, one way or the
other; nothing is assumed about their results.

## 4. Proofs

`I2CTransferProofs` proves for all addresses, data, answers, delays
(`1 <= AccessTime <= NopDelay`) and setup times that `TipSound`,
`ArbLostTruthful` and `EndsOnce` are invariants of `I2CTransfer`. None is
inductive: they speak of the clock in which the driver leaves its loop. `IInv`
says what the layers are doing at every other moment:

- `Handshake`: byte controller and bit service take turns; `done` comes with both at rest;
- `Resting`: outside of `i2c_wait_tip` the core is at rest (`Settled`);
- `Underway`: a pending command is still in its register and from the first clock on
  TIP shows it, and an old ArbLost is about to be cleared by its START;
- `Over`: a command that is over leaves the core at rest, and TIP stays up until ArbLost
  is up to date;
- `LossEndsTxn`: ArbLost is set at a command without START only if the transaction
  has been given up, because it makes every check fail and every transaction begins with a START (`TxnBegins`);
- `ResetOver`: the pulse of `core_reset` is over before the next access, where the delay enters.

`ByteStep` and `BitStep` summarise one clock of each layer, `TickInv` and `CpuInv`
prove the two kinds of step, one case per action, and `Invariance` puts them together.

On top of it `TxdIsStable` proves the action property `TxdStable`: the
data bit settles within a clock (`Setup >= 1` is all it needs) and is then left alone. `TransferTypeCorrect` proves
`TypeOK`, and that is more than types: `txn[k]` and the received bytes are indexed
inside their bounds, and what is returned is an int. It needs `Placed`, which says where in its transaction the driver
is and how many bytes it has received there, and `WellFormed`, the shape of the driver's transactions (reads come last and are two).

The second half of the module proves for the same constants that the bus has, at any time, a prefix of what the driver asked for
(`WireIsPrefix`), and that the driver returns what happened there (`ReturnIsTruthful`). `WInv` follows the data through the layers:

- `Kept`: the transaction under way is one the driver has, and its length and place fit;
- `Stored`: the byte to send and the bits of the command are in the registers from the write to the end of the command;
- `InProgress`: while the core works, its state and `dcnt` say how many symbols of the byte are out (`Turn`, `Position`); of a byte that is
  written the bits still to come are in the upper part of `sr` and in `core_txd` (`Writing`), of one that is read those that have come are in its lower part (`Reading`);
- `OnWire`: the symbols on the bus are those of the operations before and the first `p` of this one;
- `Answered`, `Complete`, `Told`, `Returned`: RxACK is the answer of the peripheral, a command that ended without a loss put all of
  its symbols on the bus, and a check, an early return or `rxr` passes on just that.

The symbols of a transaction are concatenations chosen by `FlattenSeq`; what these are is proved once
(`PartialsExist`, `SymbolledStep`), from `FirstFailure`, which is induction over a set of numbers in place of
the library's induction over a predicate.

`FreqCounterProofs` proves for every modulus above 1 that the registers keep their
width (`FreqTypeCorrect`), that `2 * cycles <= elapse + 1` (`FreqNyquist`),
from a strengthening that distinguishes the clock after a rising edge, and that the count is off by one edge
and one more for each pause (`FreqCountError`). For the latter `EdgeSeen` adds that `sig_prev` is the level one clock ago
unless the counter stood still or nothing has been counted yet: it is the first edge after a reset or a pause that may be missed or counted in excess.

`MessibleProofs` proves for every depth that the FIFO never holds more than `Depth` bytes beside its output
register (`MessibleTypeCorrect`), that HAVE does not lie (`HaveIsTruthful`), that FULL does not (`FullIsTruthful`, under
`AccessTime > 1`, as 1 is not enough, see section 3), and that the Messible implements `LossyQueue`
(`IsALossyQueue`), step by step: every clock is a step of the queue or a stutter. `RoomIsKept` is what FULL
needs: between the flag and the byte there is a place that nothing else can take.

`BiosProofs` proves the three properties of the LED (`LedRaisesNoFalseAlarm`, `BlueSampledAtLevels`,
`BlueLeavesDevicesRestored`) for any wrong word and DAC default. They speak of the loop at the end; the invariant
says for each point of the program what its verdict stands for so far (`CleanSoFar`, `RestoredSoFar`, `SetSoFar`,
`Truthful`) and where the latch pin is (`LatchIsDown`).

`EtherboneProofs` proves for any packet length, header, registers, values and size of the send buffer that a read is
truthful (`ReadIsTruthful`) and that nothing is left open (`NothingLeaks`). `HeldByPlace` says what each place of the
program holds; `OneReadAtATime` follows the one read through the stream: still asked, lost with the connection, or answered
with a value that `seen` has, in the pieces that are left of its packet.

`LxBuildEnvProofs` proves for any programs, options, dependencies and nesting that git was checked for
(`GitIsChecked`) and that a program has its dependencies (`DepsAreThere`): all of them if its launch fetched them; if it found them,
they are in its search path, and checked out but for those whose clone another git is at work on or has left behind. It cannot be more: `check_module` takes
a clone without a checkout for complete (see Findings). That there is no other way to lack one is `ClonesKnown`: every clone without its checkout belongs to a git
that is running (`Clones`) or was stopped or failed (the history variable `stopped`). `FetchedSound` says that what a launch knows of the submodules
stays true while other launches go on.

`RgbLedProofs` proves for any colours, settings and order of the accesses that no access selects a register that is not there
(`RgbLedTypes`), that values land in the registers they are meant for (`WritesLandWhereMeant`), and that the LEDs of an EVT board
show the colour of the BIOS (`LedShowsTheColour`; the theorem assumes `Revision \in {"evt", "rockling_evt"}`, as on the
others the outputs of the LED block go to the LEDs in another order, which `rgb_set` does not know). Its `IInv` says that the rest of each program is a list
of addresses, each with its datum (`Paired`), that a master between the two has its own register selected unless the other wrote an address
since (`Selected`), and that as long as the host keeps out every register is right or will be written (`Undisturbed`), which is what
survives a reset of the CPU in the middle of a list.

`I2CBusProofs` proves of the whole path, clock by clock, for any addresses, data, answers and stretches, that the bit
controller implements the bit service (`ImplementsService`), that it never loses arbitration on a bus of its
own (`BusNeverLosesArbitration`), that a transaction that succeeds leaves both lines high (`BusIsReleased`), the types
(`BusTypeCorrect`), that it implements `I2CTransfer` as a whole (`ImplementsI2CTransfer`), and that what is seen on SCL and SDA is
what the driver asked for (`BusWireIsPrefix`) and what it tells its caller (`BusReturnIsTruthful`). The theorems assume `Timed`: a prescale of 10 or more and 4 clocks or more between two accesses of the
CPU. The firmware has 23, and the CPU takes more than 4 clocks for a store; without some such bound the theorems are false
(section 3). `BInv` is the inductive invariant:

- the invariant of the layers above the bit controller, `T!IInv` and `T!Offering`: `T` is an instance of
  `I2CTransferProofs` whose bit service is read off the registers of the bit controller, so that its step lemmas are cited
  here and not proved again. A clock of `I2CBus` is a clock of `I2CTransfer` as far as they are concerned, once the bit
  controller has been shown to take a step of the service (`ServiceStep`);
- `Lines`: in each quarter, what the core drives, what is on the lines and how far it has come through capture, filter and edge
  detection. A stage has the level of its line or there is enough of the quarter left to get there (`Settles`), and a
  level goes through the stages in order (`Moves`). This makes a line that is low a quarter later low in every stage,
  however long the peripheral stretches SCL, as the divider waits until the *filtered* line is high (`Rising`). `LowSafe` is what keeps a
  change of SDA from being seen as a START or STOP: it goes into the filter after the fall of SCL, which it cannot overtake;
- `Together`: the peripheral, which knows the lines only, has the role and has counted the bits that the byte controller believes
  (`InStep`), so it pulls SDA low only where the core lets go of it (`Drives`). That the transactions of `i2c.c` lead it from
  role to role, and leave it silent at the end, is `TxnShape`;
- `Asleep`, in place of `Lines` until `i2c_init` enables the core: the filters fill with the level of the idle lines
  after `core_reset` has emptied them, which takes the clocks between the stores.

Each needs the others: without `Together` nobody keeps SDA still, without `Lines` the peripheral sees other bits than the byte controller sent, and
without the invariant of the layers above, the command that is being served could change. `ClockInv` puts the lemmas for one clock
together, `CpuInv` those for a step of the CPU.

`ImplementsI2CTransfer` maps the history as well as the registers. `I2CTransfer` puts a symbol on the bus with the clock that ends
its bit command and draws the answer of the peripheral with the store of a receive command; on the lines a START is seen two quarters before its
command ends, the other symbols a clock after, and the peripheral has its answer as soon as it has been addressed.
`SymbolsSent` takes back the first and adds the second, `RepliesAsked` leaves out an answer that has not been asked for, and `BitsLeft` counts
its bits. `MInv` adds to `BInv` what makes that a refinement: a START whose command has not ended is the last symbol recorded,
and a byte of the peripheral that is ready is the last of `replies`. `MapInvariance` proves it; there is one lemma for each kind of clock of the bit
service and for each step of the CPU.

`WirePrefix` and `ReturnTruthful` then come down from `I2CTransfer`. `W`, a second instance of `I2CTransferProofs`, has its lemmas under
this mapping (`TransferHolds`), and what remains is the way back from the history under the mapping to the one on the lines: `LinesPrefix`, where the observer is a START ahead
or a symbol behind, and `LinesReturn`, where at the end of a transaction the two are the same.

`I2CSession` and `I2CBus` define the four operators on sequences that they use, and do not extend `SequencesExt` for them: each of the three instances
in this proof would bring that module, and all that it extends, into every obligation.

Only model-checked: `ArgumentsHeard`, which decodes the bus in `I2CCalls`; prescales from 3 to 9, where a fall of SCL may take longer than a quarter; and
liveness, which is out of the prover's reach, and with it ENABLED.

## 5. Findings

- `core_reset` does not clear the command register: a reset in the middle of a
  transfer starts the command again (`stale_reset`; `core.py:56` promises a reset of the core).
- The BIOS undoes the pause of `tools/read_freq.py` (`freq_pause`; the accessor of one field of
  `ctrl` reads and writes back the other).
- A failure of the self test is painted over by the extended test (`bios_led`; `README.md:52`).

Noted without a run: a reset of a frequency counter that is disabled is lost
(`freq_counter.py:44`); `dac_set_val` sets a channel whose value is 0, its comment says
"only set if greater than 0" (`dac.c:55`);
`messible.py:42` says that OUT gives "the most recent byte", where it is the oldest; `eb_read32` never
returns once the server has closed the connection in the middle of an answer (`etherbone.c:129`), and its -1 for
an error is also a value of a register. `sbled.py:40` says that `graw` controls the green LED, where the
mapping of `rgb_set` (`rgb.c:64`) makes the same output blue; `tools/rgb.c:67`, from which
`led_test.sh` was made, does not exchange blue and green as the BIOS does.

Of `lxbuildenv.py`: a `git submodule update` that is stopped, or looked at by a second launch while it runs, leaves clones without
a checkout, which `check_module` takes for fine (`:302`) and no later launch repairs, where
`README.md:14` says that submodules are installed automatically; the status of git is not looked at (`:328`);
`--run` always ends with status 1, because `read_configuration` (`:86`) uses an option that the parser of `main` (`:516`) does not
have, in a `try` whose bare `except` (`:369`) catches it; `fixup_env` (`:607`) computes PYTHONPATH before the
submodules are fetched (`:619`), which the child makes good for itself (`:634`) but not for the Python that `make` starts; an `--init` that is
stopped leaves `bin/` incomplete (`:408`), and a stopped `make venv` a directory that the next one takes for done.

## 6. Not modelled, and the plan

Not modelled: static wiring, pin tables and ROM images; the Makefiles and `setup-venv.sh`; `lxbuildenv.py` as a
program of its own (`--init` makes a new project, which this one is not, and `--run` stops at once, see above);
vendor
primitives (PLL, warm boot, hard I2C, LED PWM); the codec clock; the version
registers and `romgen.py` (constants); `rgb_on_time` to `rgb_out_time`, which have no caller; the UDP mode of `etherbone.c`, which has no caller; `isr` and `counter_loop`, which the program does not reach; the event manager of the
I2C core, which nothing enables; LiteX, femtorv and the USB bridge, which are not in the repository.

Modules to come, in this order:

1. `I2CReload`: `I2CTransfer` with a CPU that restarts anywhere; what the first transaction of the new
   BIOS meets.
2. `PowerOnReset`: the countdown of `_CRG`.
3. `I2CProbe`: the sequences of the host scripts, which do not poll TIP.
4. `I2CTop`: the OpenCores wrapper, compared with `RTLI2C`.
5. `I2CMulti`: a second controller on the bus of `I2CBus`.

Abstract specifications worth stating: atomic writes of two masters for `RgbLed`; the registers of
`Etherbone` as an atomic memory, to put the I2C driver on top of it as `remote-bus/main.c` does.

Theorems to come: those of `I2CBusProofs` for prescales down to 3.
