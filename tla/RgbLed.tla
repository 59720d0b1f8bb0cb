------------------------------- MODULE RgbLed --------------------------------
(***************************************************************************)
(* The RGB LED: its CSRs (rtl/sbled.py), the BIOS that writes them         *)
(* (custom-bios/rgb.c) and the host that writes them as well, with         *)
(* tools/led_test.sh or with wishbone-tool alone.  A register of the       *)
(* LED block is written by two accesses, an address and a datum, between   *)
(* which the other master, or a reset of the CPU, may come.                *)
(*                                                                         *)
(* The LED block and the wiring of the board are external.                 *)
(***************************************************************************)
EXTENDS Integers, FiniteSets, Sequences

CONSTANTS Revision,    \* of the board
          Settings,    \* settings that rgb_init writes, in its order
          Colours,     \* colours that the BIOS sets
          HostColour,  \* colour that the script sets
          HostCtrls,   \* other values that a host may write to ctrl
          HostRaws,    \* and to raw
          MaxStrays    \* bound: strays when a pair of accesses is split

Colour == [r : 0..255, g : 0..255, b : 0..255]
ASSUME ColourAssumption ==
    Colours \subseteq Colour /\ HostColour \in Colour /\ HostCtrls \subseteq 0..63
    /\ HostRaws \subseteq 0..7 /\ MaxStrays \in Nat

VARIABLES ctrl, raw, addr,  \* CSRs
          ledd,             \* registers of SB_LEDDA_IP
          todo,             \* accesses that each master is still to make
          asked,            \* colour of the last rgb_set of the BIOS, NoColour since its reset
          quiet,            \* history: the host wrote nothing since the CPU was reset
          split,            \* history: masters whose address was overwritten by the other
          strays            \* history: registers that got the datum of such a master

csrs == <<ctrl, raw, addr, ledd>>
history == <<quiet, split, strays>>
vars == <<csrs, todo, asked, history>>

Masters == {"cpu", "host"}
NoColour == [r |-> -1, g |-> -1, b |-> -1]

LEDDPWRR == 1
LEDDPWRG == 2
LEDDPWRB == 3
LEDDBCRR == 5
LEDDBCFR == 6
LEDDCR0 == 8
LEDDBR == 9
LEDDONR == 10
LEDDOFR == 11

Powers == {LEDDPWRR, LEDDPWRG, LEDDPWRB}
Registers == Powers \cup {Settings[i] : i \in DOMAIN Settings}

ASSUME SettingsAssumption ==
    Settings \in Seq({LEDDCR0, LEDDBR, LEDDONR, LEDDOFR, LEDDBCRR, LEDDBCFR})

\* What rgb_init writes: 250 Hz, quick stop, 64 kHz, on for ever, breathing fixed.
Setting == [x \in Registers \ Powers |->
    CASE x = LEDDCR0 -> 128 + 64 + 8
      [] x = LEDDBR -> 12000000 \div 64000 - 1
      [] x = LEDDONR -> 32 \div 32
      [] x = LEDDOFR -> 0
      [] OTHER -> 128 + (257 \div 128)]

\* The types of all the variables.
TypeOK ==
    /\ ctrl \in 0..63 /\ raw \in 0..7 /\ addr \in 0..15
    /\ ledd \in [Registers -> 0..255]
    /\ \A m \in Masters : \A i \in 1..Len(todo[m]) :
          todo[m][i] \in [csr : {"ctrl", "addr", "dat"}, value : 0..255]
    /\ asked \in Colour \cup {NoColour}
    /\ quiet \in BOOLEAN /\ split \subseteq Masters /\ strays \subseteq Registers

-----------------------------------------------------------------------------
(* What the programs write.                                                *)

\* Mutant: the datum before its address.
rgb_write_late(value, x) ==
    <<[csr |-> "dat", value |-> value], [csr |-> "addr", value |-> x]>>

\* Mutant: the arguments in the wrong order.
rgb_write_swapped(value, x) ==
    <<[csr |-> "addr", value |-> value], [csr |-> "dat", value |-> x]>>

rgb_write(value, x) ==
    <<[csr |-> "addr", value |-> x], [csr |-> "dat", value |-> value]>>

\* One rgb_write, of two accesses, after the other.
rgb_settings == [i \in 1..(2 * Len(Settings)) |->
    LET x == Settings[(i + 1) \div 2] IN rgb_write(Setting[x], x)[2 - (i % 2)]]

rgb_init == <<[csr |-> "ctrl", value |-> 1 + 2 + 4]>> \o rgb_settings

\* Blue and green change places: the LEDs are "wired funny".
rgb_set(c) ==
    rgb_write(c.r, LEDDPWRR) \o rgb_write(c.b, LEDDPWRG) \o rgb_write(c.g, LEDDPWRB)

\* The script has the values of tools/rgb.c, whose rgb_set does not.
led_test == rgb_init \o rgb_write(HostColour.r, LEDDPWRR)
                     \o rgb_write(HostColour.g, LEDDPWRG)
                     \o rgb_write(HostColour.b, LEDDPWRB)

-----------------------------------------------------------------------------
(* From the registers to the LEDs.                                         *)

CtrlBit(i) == (ctrl \div 2^i) % 2 = 1
exe == CtrlBit(0)
RawLevel(i) == IF (raw \div 2^i) % 2 = 1 THEN 255 ELSE 0

\* The outputs of SB_LEDDA_IP, steady with these settings.
Steady == exe /\ \A x \in DOMAIN Setting : ledd[x] = Setting[x]
ledd_value == [i \in 0..2 |-> ledd[i + 1]]

\* Mutant: the outputs of the first revision are taken for those of this board.
pwm_index_dvt(j) == <<1, 0, 2>>[j + 1]

\* The output of the LED driver that each of the three values goes to.
pwm_index(j) ==
    (CASE Revision \in {"pvt", "dvt"} -> <<1, 0, 2>>
       [] Revision \in {"evt", "rockling_evt"} -> <<1, 2, 0>>
       [] Revision = "hacker" -> <<2, 1, 0>>
       [] OTHER -> <<0, 1, 2>>)[j + 1]

\* A value comes from the LED block or, with its bit in ctrl, from raw.
rgba_pwm ==
    [i \in 0..2 |-> LET j == CHOOSE j \in 0..2 : pwm_index(j) = i
                    IN  IF CtrlBit(3 + j) THEN RawLevel(j) ELSE ledd_value[j]]

\* The driver of the pads needs its current and its PWM enabled.
Driven == CtrlBit(1) /\ CtrlBit(2)

\* The LEDs on a rockling_evt board, green and red behind each other's pad.
Shown == [r |-> rgba_pwm[1], g |-> rgba_pwm[0], b |-> rgba_pwm[2]]

-----------------------------------------------------------------------------
(* The masters.                                                            *)

Init ==
    /\ ctrl = 0 /\ raw = 0 /\ addr = 0
    /\ ledd = [x \in Registers |-> 0]
    /\ todo = [m \in Masters |-> IF m = "cpu" THEN rgb_init ELSE <<>>]
    /\ asked = NoColour
    /\ quiet = TRUE /\ split = {} /\ strays = {}

Other(m) == CHOOSE n \in Masters : n # m

\* A master is between an address and its datum.
Between(m) == todo[m] # <<>> /\ Head(todo[m]).csr = "dat"

\* The next access of a master.
Access(m) ==
    /\ todo[m] # <<>>
    /\ todo' = [todo EXCEPT ![m] = Tail(@)]
    /\ quiet' = (quiet /\ m = "cpu")
    /\ LET w == Head(todo[m]) IN
       \/ /\ w.csr = "ctrl" /\ ctrl' = w.value
          /\ UNCHANGED <<addr, ledd, split, strays>>
       \/ /\ w.csr = "addr" /\ addr' = w.value
          /\ Between(Other(m)) => Cardinality(strays) < MaxStrays
          /\ split' = (split \ {m}) \cup {n \in {Other(m)} : Between(n)}
          /\ UNCHANGED <<ctrl, ledd, strays>>
       \/ /\ w.csr = "dat" /\ ledd' = [ledd EXCEPT ![addr] = w.value]
          /\ strays' = IF m \in split THEN strays \cup {addr} ELSE strays \ {addr}
          /\ UNCHANGED <<ctrl, addr, split>>
    /\ UNCHANGED <<raw, asked>>

\* all_good or nah_mate
Set(c) ==
    /\ todo["cpu"] = <<>>
    /\ todo' = [todo EXCEPT !["cpu"] = rgb_set(c)]
    /\ asked' = c
    /\ UNCHANGED <<csrs, history>>

\* tools/hot_reload.sh: the CPU starts anew, and the CSRs stay as they are.
HotReload ==
    /\ todo' = [todo EXCEPT !["cpu"] = rgb_init]
    /\ asked' = NoColour
    /\ quiet' = TRUE /\ split' = split \ {"cpu"}
    /\ UNCHANGED <<csrs, strays>>

\* The script may be stopped (Ctrl-C) and started again.
HostScript ==
    /\ todo' = [todo EXCEPT !["host"] = led_test]
    /\ split' = split \ {"host"}
    /\ UNCHANGED <<csrs, asked, quiet, strays>>

\* One access with wishbone-tool.
HostPoke ==
    /\ \/ ctrl' \in HostCtrls /\ UNCHANGED raw
       \/ raw' \in HostRaws /\ UNCHANGED ctrl
    /\ quiet' = FALSE
    /\ UNCHANGED <<addr, ledd, todo, asked, split, strays>>

Next == (\E m \in Masters : Access(m)) \/ (\E c \in Colours : Set(c))
        \/ HotReload \/ HostScript \/ HostPoke

Spec == Init /\ [][Next]_vars

-----------------------------------------------------------------------------
(* Properties.                                                             *)

\* rgb.c:40-68 with sbled.py:53-76: when the BIOS has set a colour and the host
\* did not write since the CPU was reset, the LEDs show it, whatever the host
\* left in the registers before, and wherever the BIOS before was stopped.
LedTruthful ==
    quiet /\ asked # NoColour /\ todo["cpu"] = <<>> => Steady /\ Driven /\ Shown = asked

\* Values that a program means for a register.
Meant(x) ==
    {0} \cup (IF x \in Powers
              THEN {HostColour.r, HostColour.g, HostColour.b}
                   \cup UNION {{c.r, c.g, c.b} : c \in Colours}
              ELSE {Setting[x]})

\* rgb.c:40-43: a register has a value that a program meant for it, unless
\* the other master came between an address and its datum; a reset of the CPU
\* or the end of the script between the two does no harm.
WritesLand == \A x \in Registers \ strays : ledd[x] \in Meant(x)
=============================================================================
