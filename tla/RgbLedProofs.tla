---------------------------- MODULE RgbLedProofs -----------------------------
(***************************************************************************)
(* Proofs about RgbLed, for every sequence of settings, every set of       *)
(* colours and every order of the accesses of the two masters: the types,  *)
(* that values land in the registers that they are meant for, and that the *)
(* LEDs of an EVT board show the colour which the BIOS set.                *)
(***************************************************************************)
EXTENDS RgbLed, SequenceTheorems, TLAPS

Entry == [csr : {"ctrl", "addr", "dat"}, value : 0..255]

\* The value that the CPU has for a register when the BIOS has set the colour c;
\* negative for a power when it has set none.
Right(c, x) ==
    IF x = LEDDPWRR THEN c.r
    ELSE IF x = LEDDPWRG THEN c.b
    ELSE IF x = LEDDPWRB THEN c.g
    ELSE Setting[x]

\* Registers with values that a program means for them, and those with the
\* values of the CPU.
MeantWrites == {w \in Registers \X (0..255) : w[2] \in Meant(w[1])}
RightWrites(c) == {w \in Registers \X (0..255) : w[2] = Right(c, w[1])}
WritesOf(c, m) == IF m = "cpu" THEN RightWrites(c) ELSE MeantWrites

\* The rest of a program: ctrl comes first and turns the LEDs on, a datum that
\* is not the first access comes after its address, and each address has its
\* datum, the two being one of W.  What is left after an access is such a rest.
Paired(q, W) ==
    \A i \in 1..Len(q) :
        /\ q[i].csr = "ctrl" => i = 1 /\ q[i].value = 7
        /\ q[i].csr = "addr" => /\ i + 1 \in 1..Len(q)
                                /\ q[i + 1].csr = "dat"
                                /\ <<q[i].value, q[i + 1].value>> \in W
        /\ q[i].csr = "dat" /\ i # 1 => q[i - 1].csr = "addr"

\* The types that the steps need.
Types ==
    /\ ctrl \in 0..63 /\ raw \in 0..7 /\ addr \in 0..15
    /\ ledd \in [Registers -> 0..255]
    /\ todo \in [Masters -> Seq(Entry)]
    /\ asked \in Colours \cup {NoColour}
    /\ quiet \in BOOLEAN /\ split \subseteq Masters /\ strays \subseteq Registers

\* Each master follows its program.
Programs == \A m \in Masters : Paired(todo[m], WritesOf(asked, m))

\* A master between an address and its datum finds a register selected, its
\* own one unless the other wrote an address since.
Selected ==
    \A m \in Masters : Between(m) =>
        /\ addr \in Registers
        /\ m \notin split => <<addr, Head(todo[m]).value>> \in WritesOf(asked, m)

\* A program selects x, and so the CPU is still to do.
Selects(q, x) == \E i \in 1..Len(q) : q[i].csr = "addr" /\ q[i].value = x
Ahead(x) == Selects(todo["cpu"], x)

\* The CPU has written x, or will.
Arrives(x) == ledd[x] = Right(asked, x) \/ Ahead(x) \/ (Between("cpu") /\ addr = x)

\* What the CPU has done and what is left make a whole, if the host keeps away.
Undisturbed ==
    quiet =>
        /\ "cpu" \notin split
        /\ ctrl = 7 \/ (todo["cpu"] # <<>> /\ Head(todo["cpu"]).csr = "ctrl")
        /\ \A x \in Registers : x \notin Powers \/ asked # NoColour => Arrives(x)

IInv == Types /\ Programs /\ Selected /\ WritesLand /\ Undisturbed

-----------------------------------------------------------------------------
(* Constants and sequences.                                                *)

\* Every register is one of the block, and has a value of a byte.
LEMMA RegistersType ==
    /\ Registers \subseteq 1..15 /\ Powers \subseteq Registers
    /\ DOMAIN Setting = Registers \ Powers
    /\ \A x \in Registers \ Powers : Setting[x] \in 0..255
<1>1. \A i \in DOMAIN Settings : Settings[i] \in {LEDDCR0, LEDDBR, LEDDONR, LEDDOFR, LEDDBCRR, LEDDBCFR}
  BY SettingsAssumption, LenProperties, ElementOfSeq
<1>2. Registers \subseteq 1..15 /\ Powers \subseteq Registers
  BY <1>1 DEF Registers, Powers, LEDDPWRR, LEDDPWRG, LEDDPWRB, LEDDCR0, LEDDBR, LEDDONR, LEDDOFR,
              LEDDBCRR, LEDDBCFR
<1>3. DOMAIN Setting = Registers \ Powers
  BY DEF Setting
<1>4. ASSUME NEW x \in Registers \ Powers PROVE Setting[x] \in 0..255
  <2>1. Setting[x] = CASE x = LEDDCR0 -> 128 + 64 + 8
                       [] x = LEDDBR -> 12000000 \div 64000 - 1
                       [] x = LEDDONR -> 32 \div 32
                       [] x = LEDDOFR -> 0
                       [] OTHER -> 128 + (257 \div 128)
    BY SMT DEF Setting
  <2>2. 12000000 \div 64000 - 1 = 186 /\ 32 \div 32 = 1 /\ 257 \div 128 = 2
    OBVIOUS
  <2>3. QED
    BY <2>1, <2>2, SMT DEF LEDDCR0, LEDDBR, LEDDONR, LEDDOFR
<1>5. QED
  BY <1>2, <1>3, <1>4

\* The first element of what is left, and the rest, by their places.
LEMMA HeadTail ==
    ASSUME NEW q \in Seq(Entry), q # <<>>
    PROVE  /\ Len(q) \in Nat /\ Len(q) >= 1
           /\ Head(q) = q[1] /\ Head(q) \in Entry
           /\ Tail(q) \in Seq(Entry) /\ Len(Tail(q)) = Len(q) - 1
           /\ \A i \in 1..(Len(q) - 1) : Tail(q)[i] = q[i + 1]
<1>1. Len(q) \in Nat /\ Len(q) # 0
  BY EmptySeq, LenProperties
<1>2. Head(q) = q[1]
  BY <1>1
<1>3. QED
  BY <1>1, <1>2, HeadTailProperties

\* An access leaves the rest of a program.
LEMMA PairedTail ==
    ASSUME NEW q \in Seq(Entry), q # <<>>, NEW W, Paired(q, W)
    PROVE  Paired(Tail(q), W)
<1> SUFFICES ASSUME NEW i \in 1..(Len(q) - 1)
             PROVE  /\ Tail(q)[i].csr = "ctrl" => i = 1 /\ Tail(q)[i].value = 7
                    /\ Tail(q)[i].csr = "addr" =>
                          /\ i + 1 \in 1..(Len(q) - 1)
                          /\ Tail(q)[i + 1].csr = "dat"
                          /\ <<Tail(q)[i].value, Tail(q)[i + 1].value>> \in W
                    /\ Tail(q)[i].csr = "dat" /\ i # 1 => Tail(q)[i - 1].csr = "addr"
  BY HeadTail DEF Paired
<1>1. /\ Len(q) \in Nat /\ i + 1 \in 1..Len(q) /\ i + 1 # 1
      /\ Tail(q)[i] = q[i + 1]
      /\ i + 1 \in 1..(Len(q) - 1) => Tail(q)[i + 1] = q[(i + 1) + 1]
      /\ i # 1 => Tail(q)[i - 1] = q[i] /\ (i + 1) - 1 = i
      /\ (i + 1) + 1 \in 1..Len(q) => i + 1 \in 1..(Len(q) - 1)
  BY HeadTail
<1>2. /\ q[i + 1].csr # "ctrl"
      /\ q[i + 1].csr = "addr" =>
            /\ (i + 1) + 1 \in 1..Len(q)
            /\ q[(i + 1) + 1].csr = "dat"
            /\ <<q[i + 1].value, q[(i + 1) + 1].value>> \in W
      /\ q[i + 1].csr = "dat" => q[(i + 1) - 1].csr = "addr"
  BY <1>1, Zenon DEF Paired
<1>3. QED
  BY <1>1, <1>2

\* A part of a program that follows another.
Follows(q, W) == Paired(q, W) /\ (q # <<>> => q[1].csr = "addr")

\* One rgb_write is such a part.
LEMMA WriteFollows ==
    ASSUME NEW W, NEW x \in 0..255, NEW v \in 0..255, <<x, v>> \in W
    PROVE  /\ rgb_write(v, x) \in Seq(Entry) /\ Len(rgb_write(v, x)) = 2
           /\ rgb_write(v, x)[1] = [csr |-> "addr", value |-> x]
           /\ rgb_write(v, x)[2] = [csr |-> "dat", value |-> v]
           /\ Follows(rgb_write(v, x), W) /\ Selects(rgb_write(v, x), x)
<1> DEFINE q == rgb_write(v, x)
<1>1. /\ q \in Seq(Entry) /\ Len(q) = 2
      /\ q[1] = [csr |-> "addr", value |-> x]
      /\ q[2] = [csr |-> "dat", value |-> v]
  BY DEF rgb_write, Entry
<1> HIDE DEF q
<1>2. q[1].csr = "addr" /\ q[1].value = x /\ q[2].csr = "dat" /\ q[2].value = v
  BY <1>1
<1>3. ASSUME NEW i \in 1..Len(q)
      PROVE  /\ q[i].csr = "ctrl" => i = 1 /\ q[i].value = 7
             /\ q[i].csr = "addr" => /\ i + 1 \in 1..Len(q)
                                     /\ q[i + 1].csr = "dat"
                                     /\ <<q[i].value, q[i + 1].value>> \in W
             /\ q[i].csr = "dat" /\ i # 1 => q[i - 1].csr = "addr"
  <2>1. CASE i = 1
    BY <1>1, <1>2, <2>1
  <2>2. CASE i = 2
    BY <1>1, <1>2, <2>2
  <2>3. QED
    BY <1>1, <2>1, <2>2
<1>4. Follows(q, W)
  BY <1>2, <1>3 DEF Follows, Paired
<1>5. Selects(q, x)
  <2>1. 1 \in 1..Len(q)
    BY <1>1
  <2>2. QED
    BY <1>2, <2>1, Zenon DEF Selects
<1>6. QED
  BY <1>1, <1>4, <1>5, Zenon DEF q

\* A part that follows a program makes a program with it.
LEMMA PairedConcat ==
    ASSUME NEW W, NEW q \in Seq(Entry), NEW r \in Seq(Entry), Paired(q, W), Follows(r, W)
    PROVE  /\ Paired(q \o r, W)
           /\ q # <<>> => (q \o r)[1] = q[1]
<1> DEFINE s == q \o r
<1>1. /\ Len(q) \in Nat /\ Len(r) \in Nat
      /\ Len(s) = Len(q) + Len(r)
      /\ \A i \in 1..Len(s) : s[i] = IF i <= Len(q) THEN q[i] ELSE r[i - Len(q)]
  BY ConcatProperties, LenProperties
<1> HIDE DEF s
<1>2. ASSUME NEW i \in 1..Len(s)
      PROVE  /\ s[i].csr = "ctrl" => i = 1 /\ s[i].value = 7
             /\ s[i].csr = "addr" => /\ i + 1 \in 1..Len(s)
                                     /\ s[i + 1].csr = "dat"
                                     /\ <<s[i].value, s[i + 1].value>> \in W
             /\ s[i].csr = "dat" /\ i # 1 => s[i - 1].csr = "addr"
  <2>1. CASE i <= Len(q)
    <3>1. i \in 1..Len(q) /\ s[i] = q[i]
      BY <1>1, <2>1
    <3>2. i # 1 => s[i - 1] = q[i - 1]
      BY <1>1, <2>1
    <3>3. i + 1 \in 1..Len(q) => i + 1 \in 1..Len(s) /\ s[i + 1] = q[i + 1]
      BY <1>1, <2>1
    <3>4. QED
      BY <3>1, <3>2, <3>3, Zenon DEF Paired
  <2>2. CASE i > Len(q)
    <3> DEFINE j == i - Len(q)
    <3>1. j # 1 => i - 1 \in 1..Len(s) /\ ~(i - 1 <= Len(q)) /\ (i - 1) - Len(q) = j - 1
      BY <1>1, <2>2
    <3>2. j # 1 => s[i - 1] = r[j - 1]
      BY <1>1, <3>1
    <3>3. j + 1 \in 1..Len(r) => i + 1 \in 1..Len(s) /\ s[i + 1] = r[j + 1]
      BY <1>1, <2>2
    <3>4. j \in 1..Len(r) /\ s[i] = r[j]
      BY <1>1, <2>2
    <3>5. r[1].csr = "addr"
      <4>1. r # <<>>
        BY <3>4
      <4>2. QED
        BY <4>1 DEF Follows
    <3> HIDE DEF j
    <3>6. /\ r[j].csr = "ctrl" => j = 1
          /\ r[j].csr = "addr" => /\ j + 1 \in 1..Len(r)
                                  /\ r[j + 1].csr = "dat"
                                  /\ <<r[j].value, r[j + 1].value>> \in W
          /\ r[j].csr = "dat" /\ j # 1 => r[j - 1].csr = "addr"
      BY <3>4, Zenon DEF Follows, Paired
    <3>7. r[j].csr # "ctrl" /\ (r[j].csr = "dat" => j # 1)
      BY <3>5, <3>6
    <3>8. QED
      BY <3>2, <3>3, <3>4, <3>6, <3>7, Zenon
  <2>3. QED
    BY <1>1, <2>1, <2>2
<1>3. Paired(s, W)
  BY <1>2, Zenon DEF Paired
<1>4. q # <<>> => s[1] = q[1]
  <2>1. q # <<>> => Len(q) # 0
    BY EmptySeq
  <2>2. QED
    BY <1>1, <2>1
<1>5. QED
  BY <1>3, <1>4 DEF s

\* Two parts make one.
LEMMA FollowsConcat ==
    ASSUME NEW W, NEW q \in Seq(Entry), NEW r \in Seq(Entry), Follows(q, W), Follows(r, W)
    PROVE  Follows(q \o r, W)
<1>1. Paired(q \o r, W) /\ (q # <<>> => (q \o r)[1] = q[1])
  BY PairedConcat DEF Follows
<1>2. q = <<>> => q \o r = r
  BY ConcatEmptySeq
<1>3. QED
  BY <1>1, <1>2, Zenon DEF Follows

\* What one of them selects, both do.
LEMMA SelectsConcat ==
    ASSUME NEW q \in Seq(Entry), NEW r \in Seq(Entry), NEW x, Selects(q, x) \/ Selects(r, x)
    PROVE  Selects(q \o r, x)
<1> DEFINE s == q \o r
<1>1. /\ Len(q) \in Nat /\ Len(r) \in Nat
      /\ Len(s) = Len(q) + Len(r)
      /\ \A i \in 1..Len(s) : s[i] = IF i <= Len(q) THEN q[i] ELSE r[i - Len(q)]
  BY ConcatProperties, LenProperties
<1> HIDE DEF s
<1>2. CASE Selects(q, x)
  <2>1. PICK i \in 1..Len(q) : q[i].csr = "addr" /\ q[i].value = x
    BY <1>2 DEF Selects
  <2>2. i \in 1..Len(s) /\ s[i] = q[i]
    BY <1>1
  <2>3. QED
    BY <2>1, <2>2, Zenon DEF Selects, s
<1>3. CASE Selects(r, x)
  <2>1. PICK i \in 1..Len(r) : r[i].csr = "addr" /\ r[i].value = x
    BY <1>3 DEF Selects
  <2>2. i + Len(q) \in 1..Len(s) /\ ~(i + Len(q) <= Len(q)) /\ (i + Len(q)) - Len(q) = i
    BY <1>1
  <2>3. s[i + Len(q)] = r[i]
    BY <1>1, <2>2
  <2>4. QED
    BY <2>1, <2>2, <2>3, Zenon DEF Selects, s
<1>4. QED
  BY <1>2, <1>3

\* The entries of rgb_write are entries.
LEMMA EntriesType ==
    ASSUME NEW v \in 0..255
    PROVE  /\ [csr |-> "addr", value |-> v] \in Entry
           /\ [csr |-> "dat", value |-> v] \in Entry
  BY DEF Entry

\* What the fields of an entry are.
LEMMA EntryFields ==
    ASSUME NEW e, NEW v, NEW name, e = [csr |-> name, value |-> v]
    PROVE  e.csr = name /\ e.value = v
  OBVIOUS

\* The settings of rgb_init are such a part, and select every register but the
\* powers.
LEMMA SettingsFollow ==
    ASSUME NEW W, \A x \in Registers \ Powers : <<x, Setting[x]>> \in W
    PROVE  /\ rgb_settings \in Seq(Entry) /\ Follows(rgb_settings, W)
           /\ \A x \in Registers \ Powers : Selects(rgb_settings, x)
<1> DEFINE n == Len(Settings)
           top == 2 * n
           at == [i \in 1..top |-> Settings[(i + 1) \div 2]]
           Odd == {i \in 1..top : i % 2 = 1}
           Even == {i \in 1..top : i % 2 # 1}
<1>1. /\ n \in Nat /\ DOMAIN Settings = 1..n
      /\ \A i \in 1..n : Settings[i] \in Registers \ Powers
  <2>1. /\ n \in Nat /\ DOMAIN Settings = 1..n
        /\ \A i \in 1..n : Settings[i] \in {LEDDCR0, LEDDBR, LEDDONR, LEDDOFR, LEDDBCRR, LEDDBCFR}
    BY SettingsAssumption, LenProperties, ElementOfSeq
  <2>2. \A i \in 1..n : Settings[i] \in Registers
    BY <2>1 DEF Registers
  <2>3. \A i \in 1..n : Settings[i] \notin Powers
    BY <2>1 DEF Powers, LEDDPWRR, LEDDPWRG, LEDDPWRB, LEDDCR0, LEDDBR, LEDDONR, LEDDOFR, LEDDBCRR,
                LEDDBCFR
  <2>4. QED
    BY <2>1, <2>2, <2>3
<1>2. ASSUME NEW i \in 1..top PROVE at[i] \in Registers \ Powers
  <2>1. (i + 1) \div 2 \in 1..n
    BY <1>1
  <2>2. at[i] = Settings[(i + 1) \div 2]
    BY Zenon
  <2> HIDE DEF at
  <2>3. QED
    BY <1>1, <2>1, <2>2, Zenon
<1>3. ASSUME NEW i \in 1..top
      PROVE  rgb_settings[i] = rgb_write(Setting[at[i]], at[i])[2 - (i % 2)]
  BY Zenon DEF rgb_settings
<1>4. ASSUME NEW i \in Odd
      PROVE  /\ rgb_settings[i] = [csr |-> "addr", value |-> at[i]]
             /\ rgb_settings[i].csr = "addr" /\ rgb_settings[i].value = at[i]
  <2>1. 2 - (i % 2) = 1 /\ i \in 1..top
    OBVIOUS
  <2> HIDE DEF at, top
  <2>2. rgb_write(Setting[at[i]], at[i])[1] = [csr |-> "addr", value |-> at[i]]
    BY DEF rgb_write
  <2>3. rgb_settings[i] = [csr |-> "addr", value |-> at[i]]
    BY <1>3, <2>1, <2>2, Zenon
  <2>4. QED
    BY <2>3, EntryFields, Zenon
<1>5. ASSUME NEW i \in Even
      PROVE  /\ rgb_settings[i] = [csr |-> "dat", value |-> Setting[at[i]]]
             /\ rgb_settings[i].csr = "dat" /\ rgb_settings[i].value = Setting[at[i]]
  <2>1. 2 - (i % 2) = 2 /\ i \in 1..top
    BY <1>1
  <2> HIDE DEF at, top
  <2>2. rgb_write(Setting[at[i]], at[i])[2] = [csr |-> "dat", value |-> Setting[at[i]]]
    BY DEF rgb_write
  <2>3. rgb_settings[i] = [csr |-> "dat", value |-> Setting[at[i]]]
    BY <1>3, <2>1, <2>2, Zenon
  <2>4. QED
    BY <2>3, EntryFields, Zenon
<1>6. ASSUME NEW i \in Odd PROVE i + 1 \in Even /\ at[i + 1] = at[i]
  <2>1. /\ i \in 1..top /\ i + 1 \in 1..top /\ (i + 1) % 2 # 1
        /\ ((i + 1) + 1) \div 2 = (i + 1) \div 2
    BY <1>1
  <2> HIDE DEF top
  <2>2. at[i + 1] = Settings[((i + 1) + 1) \div 2] /\ at[i] = Settings[(i + 1) \div 2]
    BY <2>1, Zenon
  <2> HIDE DEF at
  <2>3. QED
    BY <2>1, <2>2, Zenon
<1>7. ASSUME NEW i \in Even PROVE i - 1 \in Odd
  BY <1>1
<1>8. ASSUME NEW m \in 1..n PROVE 2 * m - 1 \in Odd /\ at[2 * m - 1] = Settings[m]
  <2>1. 2 * m - 1 \in 1..top /\ (2 * m - 1) % 2 = 1 /\ ((2 * m - 1) + 1) \div 2 = m
    BY <1>1
  <2> HIDE DEF top
  <2>2. at[2 * m - 1] = Settings[((2 * m - 1) + 1) \div 2]
    BY <2>1, Zenon
  <2> HIDE DEF at
  <2>3. QED
    BY <2>1, <2>2, Zenon
<1>9. /\ top \in Nat /\ 1..top = Odd \cup Even /\ Odd \subseteq 1..top /\ Even \subseteq 1..top
      /\ 1 \notin Even
  BY <1>1
<1>10. rgb_settings = [i \in 1..top |-> rgb_settings[i]]
  BY Zenon DEF rgb_settings
<1> HIDE DEF n, top, at, Odd, Even
<1>11. ASSUME NEW i \in 1..top PROVE at[i] \in 0..255 /\ Setting[at[i]] \in 0..255
  <2>1. at[i] \in Registers \ Powers
    BY <1>2
  <2>2. at[i] \in 1..15 /\ Setting[at[i]] \in 0..255
    BY <2>1, RegistersType, Zenon
  <2>3. QED
    BY <2>2
<1>12. rgb_settings \in Seq(Entry) /\ Len(rgb_settings) = top
  <2>1. ASSUME NEW i \in Odd PROVE rgb_settings[i] \in Entry
    <3>1. rgb_settings[i] = [csr |-> "addr", value |-> at[i]] /\ at[i] \in 0..255
      BY <1>4, <1>9, <1>11, Zenon
    <3>2. QED
      BY <3>1, EntriesType, Zenon
  <2>2. ASSUME NEW i \in Even PROVE rgb_settings[i] \in Entry
    <3>1. rgb_settings[i] = [csr |-> "dat", value |-> Setting[at[i]]] /\ Setting[at[i]] \in 0..255
      BY <1>5, <1>9, <1>11, Zenon
    <3>2. QED
      BY <3>1, EntriesType, Zenon
  <2>3. rgb_settings \in [1..top -> Entry]
    BY <1>9, <1>10, <2>1, <2>2
  <2>4. QED
    BY <1>9, <2>3
<1>13. ASSUME NEW i \in 1..top
       PROVE  /\ rgb_settings[i].csr = "ctrl" => i = 1 /\ rgb_settings[i].value = 7
              /\ rgb_settings[i].csr = "addr" =>
                    /\ i + 1 \in 1..top
                    /\ rgb_settings[i + 1].csr = "dat"
                    /\ <<rgb_settings[i].value, rgb_settings[i + 1].value>> \in W
              /\ rgb_settings[i].csr = "dat" /\ i # 1 => rgb_settings[i - 1].csr = "addr"
  <2>1. CASE i \in Odd
    <3>1. rgb_settings[i].csr = "addr" /\ rgb_settings[i].value = at[i]
      BY <1>4, <2>1, Zenon
    <3>2. i + 1 \in Even /\ at[i + 1] = at[i]
      BY <1>6, <2>1
    <3>3. rgb_settings[i + 1].csr = "dat" /\ rgb_settings[i + 1].value = Setting[at[i]]
      BY <1>5, <3>2, Zenon
    <3>4. <<at[i], Setting[at[i]]>> \in W
      BY <1>2
    <3>5. QED
      BY <1>9, <3>1, <3>2, <3>3, <3>4
  <2>2. CASE i \in Even
    <3>1. rgb_settings[i].csr = "dat"
      BY <1>5, <2>2, Zenon
    <3>2. i - 1 \in Odd
      BY <1>7, <2>2
    <3>3. rgb_settings[i - 1].csr = "addr"
      BY <1>4, <3>2, Zenon
    <3>4. QED
      BY <3>1, <3>3
  <2>3. QED
    BY <1>9, <2>1, <2>2
<1>14. Follows(rgb_settings, W)
  <2>1. Paired(rgb_settings, W)
    BY <1>12, <1>13, Zenon DEF Paired
  <2>2. ASSUME rgb_settings # <<>> PROVE rgb_settings[1].csr = "addr"
    <3>1. 1 \in 1..top
      BY <1>9, <1>12, <2>2, EmptySeq
    <3>2. 1 \in Odd
      BY <1>9, <3>1
    <3>3. QED
      BY <1>4, <3>2, Zenon
  <2>3. QED
    BY <2>1, <2>2 DEF Follows
<1>15. ASSUME NEW x \in Registers \ Powers PROVE Selects(rgb_settings, x)
  <2>1. PICK m \in 1..n : Settings[m] = x
    BY <1>1 DEF Registers
  <2>2. 2 * m - 1 \in Odd /\ at[2 * m - 1] = x
    BY <1>8, <2>1, Zenon
  <2>3. PICK i \in Odd : at[i] = x
    BY <2>2
  <2>4. i \in 1..Len(rgb_settings) /\ rgb_settings[i].csr = "addr" /\ rgb_settings[i].value = x
    BY <1>4, <1>9, <1>12, <2>3, Zenon
  <2>5. QED
    BY <2>4 DEF Selects
<1>16. QED
  BY <1>12, <1>14, <1>15

\* rgb_init is a program of its own.
LEMMA InitPaired ==
    ASSUME NEW W, \A x \in Registers \ Powers : <<x, Setting[x]>> \in W
    PROVE  /\ rgb_init \in Seq(Entry) /\ Paired(rgb_init, W)
           /\ rgb_init # <<>> /\ Head(rgb_init).csr = "ctrl"
           /\ \A x \in Registers \ Powers : Selects(rgb_init, x)
<1> DEFINE q == <<[csr |-> "ctrl", value |-> 1 + 2 + 4]>>
<1>1. q \in Seq(Entry) /\ Len(q) = 1 /\ q[1] = [csr |-> "ctrl", value |-> 7] /\ q # <<>>
  BY DEF Entry
<1>2. rgb_init = q \o rgb_settings
  BY DEF rgb_init
<1> HIDE DEF q
<1>3. Paired(q, W)
  <2>1. q[1].csr = "ctrl" /\ q[1].value = 7
    BY <1>1
  <2>2. \A i \in 1..Len(q) : i = 1
    BY <1>1
  <2>3. QED
    BY <2>1, <2>2 DEF Paired
<1>4. /\ rgb_settings \in Seq(Entry) /\ Follows(rgb_settings, W)
      /\ \A x \in Registers \ Powers : Selects(rgb_settings, x)
  BY SettingsFollow
<1>5. Paired(rgb_init, W) /\ rgb_init[1] = q[1] /\ rgb_init \in Seq(Entry)
  BY <1>1, <1>2, <1>3, <1>4, PairedConcat, ConcatProperties
<1>6. rgb_init # <<>>
  BY <1>1, <1>2, <1>4, ConcatEqualIffEmpty
<1>7. Head(rgb_init).csr = "ctrl"
  <2>1. Head(rgb_init) = rgb_init[1]
    BY <1>5, <1>6, HeadTail
  <2>2. QED
    BY <1>1, <1>5, <2>1
<1>8. \A x \in Registers \ Powers : Selects(rgb_init, x)
  BY <1>1, <1>2, <1>4, SelectsConcat
<1>9. QED
  BY <1>5, <1>6, <1>7, <1>8

\* rgb_set writes the three powers.
LEMMA SetFollows ==
    ASSUME NEW W, NEW c \in Colour,
           <<LEDDPWRR, c.r>> \in W, <<LEDDPWRG, c.b>> \in W, <<LEDDPWRB, c.g>> \in W
    PROVE  /\ rgb_set(c) \in Seq(Entry) /\ Follows(rgb_set(c), W)
           /\ \A x \in Powers : Selects(rgb_set(c), x)
<1> DEFINE r == rgb_write(c.r, LEDDPWRR)
           b == rgb_write(c.b, LEDDPWRG)
           g == rgb_write(c.g, LEDDPWRB)
<1>1. c.r \in 0..255 /\ c.g \in 0..255 /\ c.b \in 0..255
  BY DEF Colour
<1>2. LEDDPWRR \in 0..255 /\ LEDDPWRG \in 0..255 /\ LEDDPWRB \in 0..255
  BY DEF LEDDPWRR, LEDDPWRG, LEDDPWRB
<1>3. /\ r \in Seq(Entry) /\ Follows(r, W) /\ Selects(r, LEDDPWRR)
      /\ b \in Seq(Entry) /\ Follows(b, W) /\ Selects(b, LEDDPWRG)
      /\ g \in Seq(Entry) /\ Follows(g, W) /\ Selects(g, LEDDPWRB)
  BY <1>1, <1>2, WriteFollows, Zenon
<1>4. rgb_set(c) = (r \o b) \o g
  BY DEF rgb_set
<1> HIDE DEF r, b, g
<1>5. /\ r \o b \in Seq(Entry) /\ Follows(r \o b, W)
      /\ Selects(r \o b, LEDDPWRR) /\ Selects(r \o b, LEDDPWRG)
  <2>1. r \o b \in Seq(Entry)
    BY <1>3, ConcatProperties
  <2>2. QED
    BY <1>3, <2>1, FollowsConcat, SelectsConcat, Zenon
<1>6. /\ (r \o b) \o g \in Seq(Entry) /\ Follows((r \o b) \o g, W)
      /\ Selects((r \o b) \o g, LEDDPWRR) /\ Selects((r \o b) \o g, LEDDPWRG)
      /\ Selects((r \o b) \o g, LEDDPWRB)
  <2>1. (r \o b) \o g \in Seq(Entry)
    BY <1>3, <1>5, ConcatProperties
  <2>2. QED
    BY <1>3, <1>5, <2>1, FollowsConcat, SelectsConcat, Zenon
<1>7. QED
  BY <1>4, <1>6, Zenon DEF Powers

\* The script of the host is a program of its own.
LEMMA ScriptPaired ==
    /\ led_test \in Seq(Entry) /\ Paired(led_test, MeantWrites)
    /\ led_test # <<>> /\ Head(led_test).csr = "ctrl"
<1> DEFINE W == MeantWrites
           r == rgb_write(HostColour.r, LEDDPWRR)
           g == rgb_write(HostColour.g, LEDDPWRG)
           b == rgb_write(HostColour.b, LEDDPWRB)
<1>1. /\ HostColour.r \in 0..255 /\ HostColour.g \in 0..255 /\ HostColour.b \in 0..255
      /\ LEDDPWRR \in 0..255 /\ LEDDPWRG \in 0..255 /\ LEDDPWRB \in 0..255
  BY ColourAssumption DEF Colour, LEDDPWRR, LEDDPWRG, LEDDPWRB
<1>2. /\ <<LEDDPWRR, HostColour.r>> \in W
      /\ <<LEDDPWRG, HostColour.g>> \in W
      /\ <<LEDDPWRB, HostColour.b>> \in W
  <2>1. /\ LEDDPWRR \in Registers /\ LEDDPWRG \in Registers /\ LEDDPWRB \in Registers
        /\ LEDDPWRR \in Powers /\ LEDDPWRG \in Powers /\ LEDDPWRB \in Powers
    BY DEF Registers, Powers
  <2>2. /\ HostColour.r \in Meant(LEDDPWRR)
        /\ HostColour.g \in Meant(LEDDPWRG)
        /\ HostColour.b \in Meant(LEDDPWRB)
    BY <2>1 DEF Meant
  <2>3. QED
    BY <1>1, <2>1, <2>2 DEF MeantWrites
<1>3. \A x \in Registers \ Powers : <<x, Setting[x]>> \in W
  <2>1. ASSUME NEW x \in Registers \ Powers PROVE Setting[x] \in Meant(x) /\ Setting[x] \in 0..255
    BY RegistersType, Zenon DEF Meant
  <2>2. QED
    BY <2>1, Zenon DEF MeantWrites
<1> HIDE DEF W
<1>4. /\ r \in Seq(Entry) /\ Follows(r, W)
      /\ g \in Seq(Entry) /\ Follows(g, W)
      /\ b \in Seq(Entry) /\ Follows(b, W)
  BY <1>1, <1>2, WriteFollows, Zenon
<1>5. ASSUME NEW q \in Seq(Entry), NEW p \in Seq(Entry), Paired(q, W), Follows(p, W),
             q # <<>>, q[1].csr = "ctrl"
      PROVE  /\ q \o p \in Seq(Entry) /\ Paired(q \o p, W)
             /\ q \o p # <<>> /\ (q \o p)[1].csr = "ctrl"
  <2>1. q \o p \in Seq(Entry) /\ q \o p # <<>>
    BY <1>5, ConcatProperties, ConcatEqualIffEmpty
  <2>2. Paired(q \o p, W) /\ (q \o p)[1] = q[1]
    BY <1>5, PairedConcat, Zenon
  <2>3. QED
    BY <1>5, <2>1, <2>2
<1>6. led_test = ((rgb_init \o r) \o g) \o b
  BY DEF led_test
<1> HIDE DEF r, g, b
<1>7. /\ rgb_init \in Seq(Entry) /\ Paired(rgb_init, W)
      /\ rgb_init # <<>> /\ rgb_init[1].csr = "ctrl"
  <2>1. /\ rgb_init \in Seq(Entry) /\ Paired(rgb_init, W)
        /\ rgb_init # <<>> /\ Head(rgb_init).csr = "ctrl"
    BY <1>3, InitPaired, Zenon
  <2>2. Head(rgb_init) = rgb_init[1]
    BY <2>1, HeadTail, Zenon
  <2>3. QED
    BY <2>1, <2>2, Zenon
<1>8. /\ led_test \in Seq(Entry) /\ Paired(led_test, W)
      /\ led_test # <<>> /\ led_test[1].csr = "ctrl"
  <2>1. /\ rgb_init \o r \in Seq(Entry) /\ Paired(rgb_init \o r, W)
        /\ rgb_init \o r # <<>> /\ (rgb_init \o r)[1].csr = "ctrl"
    BY <1>4, <1>5, <1>7, Zenon
  <2>2. /\ (rgb_init \o r) \o g \in Seq(Entry) /\ Paired((rgb_init \o r) \o g, W)
        /\ (rgb_init \o r) \o g # <<>> /\ ((rgb_init \o r) \o g)[1].csr = "ctrl"
    BY <1>4, <1>5, <2>1, Zenon
  <2>3. QED
    BY <1>4, <1>5, <1>6, <2>2, Zenon
<1>9. Head(led_test) = led_test[1]
  BY <1>8, HeadTail, Zenon
<1>10. QED
  BY <1>8, <1>9, Zenon DEF W

\* What an access does to the rest of a program.
LEMMA PairedHead ==
    ASSUME NEW q \in Seq(Entry), q # <<>>, NEW W, Paired(q, W)
    PROVE  /\ Head(q) \in Entry
           /\ Head(q).csr = "ctrl" => Head(q).value = 7
           /\ Head(q).csr = "addr" =>
                 /\ Tail(q) # <<>> /\ Head(Tail(q)).csr = "dat"
                 /\ <<Head(q).value, Head(Tail(q)).value>> \in W
           /\ Head(q).csr # "addr" /\ Tail(q) # <<>> => Head(Tail(q)).csr # "dat"
           /\ \A x : Selects(q, x) =>
                 Selects(Tail(q), x) \/ (Head(q).csr = "addr" /\ Head(q).value = x)
<1>1. /\ Len(q) \in Nat /\ Len(q) >= 1 /\ 1 \in 1..Len(q)
      /\ Head(q) = q[1] /\ Head(q) \in Entry
      /\ Tail(q) \in Seq(Entry) /\ Len(Tail(q)) = Len(q) - 1
      /\ \A i \in 1..(Len(q) - 1) : Tail(q)[i] = q[i + 1]
  BY HeadTail
<1>2. /\ q[1].csr = "ctrl" => q[1].value = 7
      /\ q[1].csr = "addr" => /\ 1 + 1 \in 1..Len(q)
                              /\ q[1 + 1].csr = "dat"
                              /\ <<q[1].value, q[1 + 1].value>> \in W
  BY <1>1, Zenon DEF Paired
<1>3. Tail(q) # <<>> <=> 1 + 1 \in 1..Len(q)
  <2>1. Tail(q) = <<>> <=> Len(Tail(q)) = 0
    BY <1>1, EmptySeq
  <2>2. Len(Tail(q)) # 0 <=> 1 + 1 \in 1..Len(q)
    BY <1>1
  <2>3. QED
    BY <2>1, <2>2, Zenon
<1>4. Tail(q) # <<>> => Head(Tail(q)) = q[1 + 1]
  <2>1. ASSUME Tail(q) # <<>> PROVE Head(Tail(q)) = Tail(q)[1] /\ 1 \in 1..(Len(q) - 1)
    BY <1>1, <1>3, <2>1, HeadTail
  <2>2. QED
    BY <1>1, <2>1
<1>5. ASSUME 1 + 1 \in 1..Len(q), q[1 + 1].csr = "dat" PROVE q[1].csr = "addr"
  <2>1. 1 + 1 # 1 /\ (1 + 1) - 1 = 1
    OBVIOUS
  <2>2. q[1 + 1].csr = "dat" /\ 1 + 1 # 1 => q[(1 + 1) - 1].csr = "addr"
    BY <1>5, Zenon DEF Paired
  <2>3. QED
    BY <1>5, <2>1, <2>2, Zenon
<1>6. ASSUME NEW x, Selects(q, x), ~Selects(Tail(q), x)
      PROVE  q[1].csr = "addr" /\ q[1].value = x
  <2>1. PICK i \in 1..Len(q) : q[i].csr = "addr" /\ q[i].value = x
    BY <1>6 DEF Selects
  <2>2. CASE i = 1
    BY <2>1, <2>2
  <2>3. CASE i # 1
    <3>1. i - 1 \in 1..Len(Tail(q)) /\ i - 1 \in 1..(Len(q) - 1) /\ (i - 1) + 1 = i
      BY <1>1, <2>3
    <3>2. Tail(q)[i - 1] = q[i]
      BY <1>1, <3>1
    <3>3. Selects(Tail(q), x)
      BY <2>1, <3>1, <3>2, Zenon DEF Selects
    <3>4. QED
      BY <1>6, <3>3
  <2>4. QED
    BY <2>2, <2>3
<1>7. Head(q).csr = "addr" =>
         /\ Tail(q) # <<>> /\ Head(Tail(q)).csr = "dat"
         /\ <<Head(q).value, Head(Tail(q)).value>> \in W
  BY <1>1, <1>2, <1>3, <1>4, Zenon
<1>8. Head(q).csr # "addr" /\ Tail(q) # <<>> => Head(Tail(q)).csr # "dat"
  BY <1>1, <1>3, <1>4, <1>5, Zenon
<1>9. Head(q).csr = "ctrl" => Head(q).value = 7
  BY <1>1, <1>2, Zenon
<1>10. \A x : Selects(q, x) => Selects(Tail(q), x) \/ (Head(q).csr = "addr" /\ Head(q).value = x)
  BY <1>1, <1>6, Zenon
<1>11. Head(q) \in Entry
  BY <1>1
<1>12. QED
  BY <1>7, <1>8, <1>9, <1>10, <1>11

-----------------------------------------------------------------------------
(* The values of the CPU.                                                  *)

\* What the CPU writes for a colour of the BIOS is meant, and the settings are
\* among it.
LEMMA RightIsMeant ==
    ASSUME NEW c \in Colours \cup {NoColour}
    PROVE  /\ RightWrites(c) \subseteq MeantWrites
           /\ \A x \in Registers \ Powers : <<x, Setting[x]>> \in RightWrites(c)
           /\ \A x \in Registers \ Powers : Right(c, x) = Setting[x]
<1>1. ASSUME NEW x \in Registers \ Powers
      PROVE  Right(c, x) = Setting[x] /\ <<x, Setting[x]>> \in RightWrites(c)
  <2>1. x # LEDDPWRR /\ x # LEDDPWRG /\ x # LEDDPWRB
    BY DEF Powers
  <2>2. Right(c, x) = Setting[x]
    BY <2>1, Zenon DEF Right
  <2>3. Setting[x] \in 0..255
    BY RegistersType, Zenon
  <2>4. QED
    BY <2>2, <2>3, Zenon DEF RightWrites
<1>2. ASSUME NEW x \in Registers, NEW v \in 0..255, v = Right(c, x) PROVE v \in Meant(x)
  <2>1. CASE x \in Powers
    <3>1. v \in {c.r, c.g, c.b}
      BY <1>2, <2>1, Zenon DEF Powers, Right
    <3>2. c # NoColour
      <4>1. NoColour.r = -1 /\ NoColour.g = -1 /\ NoColour.b = -1
        BY DEF NoColour
      <4>2. v # -1
        OBVIOUS
      <4>3. QED
        BY <3>1, <4>1, <4>2, Zenon
    <3>3. c \in Colours
      BY <3>2
    <3>4. v \in UNION {{d.r, d.g, d.b} : d \in Colours}
      BY <3>1, <3>3, Zenon
    <3>5. QED
      BY <2>1, <3>4, Zenon DEF Meant
  <2>2. CASE x \notin Powers
    <3>1. v = Setting[x]
      BY <1>1, <1>2, <2>2, Zenon
    <3>2. QED
      BY <2>2, <3>1, Zenon DEF Meant
  <2>3. QED
    BY <2>1, <2>2
<1>3. ASSUME NEW w \in RightWrites(c) PROVE w \in MeantWrites
  <2>1. w \in Registers \X (0..255) /\ w[2] = Right(c, w[1])
    BY Zenon DEF RightWrites
  <2>2. w[1] \in Registers /\ w[2] \in 0..255
    BY <2>1, Zenon
  <2>3. w[2] \in Meant(w[1])
    BY <1>2, <2>1, <2>2, Zenon
  <2>4. QED
    BY <2>1, <2>3, Zenon DEF MeantWrites
<1>4. QED
  BY <1>1, <1>3, Zenon

\* A pair of a program is a register and a byte that is meant for it.
LEMMA PairType ==
    ASSUME NEW c \in Colours \cup {NoColour}, NEW m \in Masters, NEW x, NEW v,
           <<x, v>> \in WritesOf(c, m)
    PROVE  /\ x \in Registers /\ x \in 0..15 /\ v \in 0..255 /\ v \in Meant(x)
           /\ m = "cpu" => v = Right(c, x)
<1>1. <<x, v>> \in MeantWrites
  BY RightIsMeant, Zenon DEF WritesOf
<1>2. x \in Registers /\ v \in 0..255 /\ v \in Meant(x)
  BY <1>1 DEF MeantWrites
<1>3. x \in 0..15
  <2>1. x \in 1..15
    BY <1>2, RegistersType, Zenon
  <2>2. QED
    BY <2>1
<1>4. ASSUME m = "cpu" PROVE v = Right(c, x)
  <2>1. <<x, v>> \in RightWrites(c)
    BY <1>4, Zenon DEF WritesOf
  <2>2. QED
    BY <2>1 DEF RightWrites
<1>5. QED
  BY <1>2, <1>3, <1>4

-----------------------------------------------------------------------------
(* An access.                                                              *)

\* There are two masters.
LEMMA TwoMasters ==
    ASSUME NEW m \in Masters
    PROVE  /\ Other(m) \in Masters /\ Other(m) # m
           /\ \A n \in Masters : n = m \/ n = Other(m)
<1>1. \E n \in Masters : n # m
  BY DEF Masters
<1>2. Other(m) \in Masters /\ Other(m) # m
  BY <1>1, Zenon DEF Other
<1>3. QED
  BY <1>2 DEF Masters

\* What every access does to the programs.
LEMMA AccessTodo ==
    ASSUME IInv, NEW m \in Masters, Access(m)
    PROVE  /\ Head(todo[m]) \in Entry
           /\ todo' \in [Masters -> Seq(Entry)]
           /\ todo'[m] = Tail(todo[m])
           /\ \A n \in Masters \ {m} : todo'[n] = todo[n] /\ (Between(n)' <=> Between(n))
           /\ Programs'
           /\ Head(todo[m]).csr = "ctrl" => Head(todo[m]).value = 7
           /\ Head(todo[m]).csr = "addr" =>
                 /\ Between(m)'
                 /\ <<Head(todo[m]).value, Head(todo'[m]).value>> \in WritesOf(asked, m)
           /\ Head(todo[m]).csr # "addr" => ~Between(m)'
           /\ \A x : Selects(todo[m], x) =>
                 \/ Selects(todo'[m], x)
                 \/ Head(todo[m]).csr = "addr" /\ Head(todo[m]).value = x
<1> DEFINE q == todo[m]
           W == WritesOf(asked, m)
<1>1. /\ q \in Seq(Entry) /\ q # <<>> /\ Paired(q, W)
      /\ todo \in [Masters -> Seq(Entry)]
      /\ todo' = [todo EXCEPT ![m] = Tail(q)]
      /\ asked' = asked
  BY DEF IInv, Types, Programs, Access
<1>2. Tail(q) \in Seq(Entry) /\ Paired(Tail(q), W)
  BY <1>1, HeadTail, PairedTail, Zenon
<1>3. /\ todo' \in [Masters -> Seq(Entry)]
      /\ todo'[m] = Tail(q)
      /\ \A n \in Masters \ {m} : todo'[n] = todo[n]
  BY <1>1, <1>2
<1>4. \A n \in Masters \ {m} : Between(n)' <=> Between(n)
  BY <1>3, Zenon DEF Between
<1>5. Programs'
  <2>1. ASSUME NEW n \in Masters PROVE Paired(todo'[n], WritesOf(asked', n))
    <3>1. CASE n = m
      BY <1>1, <1>2, <1>3, <3>1, Zenon
    <3>2. CASE n # m
      <4>1. Paired(todo[n], WritesOf(asked, n))
        BY Zenon DEF IInv, Programs
      <4>2. QED
        BY <1>1, <1>3, <3>2, <4>1, Zenon
    <3>3. QED
      BY <3>1, <3>2
  <2>2. QED
    BY <2>1, Zenon DEF Programs
<1> HIDE DEF q, W
<1>6. /\ Head(q) \in Entry
      /\ Head(q).csr = "ctrl" => Head(q).value = 7
      /\ Head(q).csr = "addr" =>
            /\ Tail(q) # <<>> /\ Head(Tail(q)).csr = "dat"
            /\ <<Head(q).value, Head(Tail(q)).value>> \in W
      /\ Head(q).csr # "addr" /\ Tail(q) # <<>> => Head(Tail(q)).csr # "dat"
      /\ \A x : Selects(q, x) =>
            Selects(Tail(q), x) \/ (Head(q).csr = "addr" /\ Head(q).value = x)
  BY <1>1, PairedHead, Zenon
<1>7. Between(m)' <=> Tail(q) # <<>> /\ Head(Tail(q)).csr = "dat"
  BY <1>3, Zenon DEF Between
<1>8. QED
  BY <1>3, <1>4, <1>5, <1>6, <1>7, Zenon DEF q, W

\* An access to ctrl.
LEMMA CtrlKeeps ==
    ASSUME IInv, NEW m \in Masters, Access(m), Head(todo[m]).csr = "ctrl"
    PROVE  IInv'
<1>1. /\ ctrl' = Head(todo[m]).value
      /\ UNCHANGED <<raw, addr, ledd, asked, split, strays>>
      /\ quiet' = (quiet /\ m = "cpu")
  BY DEF Access
<1>2. ctrl' = 7
  BY <1>1, AccessTodo
<1>3. Types'
  <2>1. todo' \in [Masters -> Seq(Entry)]
    BY AccessTodo
  <2>2. ctrl' \in 0..63
    BY <1>2
  <2>3. QED
    BY <1>1, <2>1, <2>2 DEF IInv, Types
<1>4. Programs'
  BY AccessTodo
<1>5. Selected'
  <2> SUFFICES ASSUME NEW n \in Masters, Between(n)'
               PROVE  /\ addr' \in Registers
                      /\ n \notin split' => <<addr', Head(todo'[n]).value>> \in WritesOf(asked', n)
    BY Zenon DEF Selected
  <2>1. n # m
    BY AccessTodo
  <2>2. Between(n) /\ todo'[n] = todo[n]
    BY <2>1, AccessTodo
  <2>3. QED
    BY <1>1, <2>2, Zenon DEF IInv, Selected
<1>6. WritesLand'
  BY <1>1, Zenon DEF IInv, WritesLand
<1>7. Undisturbed'
  <2> SUFFICES ASSUME quiet'
               PROVE  /\ "cpu" \notin split'
                      /\ ctrl' = 7
                      /\ \A x \in Registers : x \notin Powers \/ asked' # NoColour => Arrives(x)'
    BY Zenon DEF Undisturbed
  <2>1. quiet /\ m = "cpu"
    BY <1>1
  <2>2. ASSUME NEW x \in Registers, x \notin Powers \/ asked' # NoColour PROVE Arrives(x)'
    <3>1. Arrives(x)
      BY <1>1, <2>1, <2>2, Zenon DEF IInv, Undisturbed
    <3>2. ~Between("cpu")
      BY <2>1 DEF Between
    <3>3. CASE ledd[x] = Right(asked, x)
      BY <1>1, <3>3, Zenon DEF Arrives
    <3>4. CASE Ahead(x)
      <4>1. Selects(todo'[m], x)
        BY <2>1, <3>4, AccessTodo, Zenon DEF Ahead
      <4>2. Ahead(x)'
        BY <2>1, <4>1, Zenon DEF Ahead
      <4>3. QED
        BY <4>2, Zenon DEF Arrives
    <3>5. QED
      BY <3>1, <3>2, <3>3, <3>4, Zenon DEF Arrives
  <2>3. QED
    BY <1>1, <1>2, <2>1, <2>2, Zenon DEF IInv, Undisturbed
<1>8. QED
  BY <1>3, <1>4, <1>5, <1>6, <1>7, Zenon DEF IInv

\* An access to addr: the master selects a register of its own, and the other
\* loses its one.
LEMMA AddrKeeps ==
    ASSUME IInv, NEW m \in Masters, Access(m), Head(todo[m]).csr = "addr"
    PROVE  IInv'
<1> DEFINE o == Other(m)
           x == Head(todo[m]).value
           v == Head(todo'[m]).value
<1>1. /\ addr' = x
      /\ UNCHANGED <<ctrl, raw, ledd, asked, strays>>
      /\ quiet' = (quiet /\ m = "cpu")
      /\ split' = (split \ {m}) \cup {n \in {o} : Between(n)}
  BY DEF Access
<1>2. Between(m)' /\ <<x, v>> \in WritesOf(asked, m)
  BY AccessTodo
<1>3. o \in Masters /\ o # m /\ \A n \in Masters : n = m \/ n = o
  BY TwoMasters
<1> HIDE DEF o, x, v
<1>4. asked \in Colours \cup {NoColour} /\ split \subseteq Masters
  BY DEF IInv, Types
<1>5. x \in Registers /\ x \in 0..15
  BY <1>2, <1>4, PairType, Zenon
<1>6. Types'
  <2>1. todo' \in [Masters -> Seq(Entry)]
    BY AccessTodo
  <2>2. quiet' \in BOOLEAN /\ split' \subseteq Masters
    BY <1>1, <1>3, <1>4
  <2>3. QED
    BY <1>1, <1>5, <2>1, <2>2 DEF IInv, Types
<1>7. Programs'
  BY AccessTodo
<1>8. Selected'
  <2> SUFFICES ASSUME NEW n \in Masters, Between(n)'
               PROVE  /\ addr' \in Registers
                      /\ n \notin split' => <<addr', Head(todo'[n]).value>> \in WritesOf(asked', n)
    BY Zenon DEF Selected
  <2>1. CASE n = m
    BY <1>1, <1>2, <1>5, <2>1, Zenon DEF v
  <2>2. CASE n = o
    <3>1. Between(n)
      BY <1>3, <2>2, AccessTodo
    <3>2. n \in split'
      BY <1>1, <2>2, <3>1
    <3>3. QED
      BY <1>1, <1>5, <3>2, Zenon
  <2>3. QED
    BY <1>3, <2>1, <2>2, Zenon
<1>9. WritesLand'
  BY <1>1, Zenon DEF IInv, WritesLand
<1>10. Undisturbed'
  <2> SUFFICES ASSUME quiet'
               PROVE  /\ "cpu" \notin split'
                      /\ ctrl' = 7
                      /\ \A y \in Registers : y \notin Powers \/ asked' # NoColour => Arrives(y)'
    BY Zenon DEF Undisturbed
  <2>1. quiet /\ m = "cpu"
    BY <1>1
  <2>2. "cpu" \notin split'
    BY <1>1, <1>3, <2>1
  <2>3. ctrl' = 7
    <3>1. ctrl = 7 \/ Head(todo["cpu"]).csr = "ctrl"
      BY <2>1, Zenon DEF IInv, Undisturbed
    <3>2. Head(todo["cpu"]).csr = "addr"
      BY <2>1
    <3>3. QED
      BY <1>1, <3>1, <3>2
  <2>4. ASSUME NEW y \in Registers, y \notin Powers \/ asked' # NoColour PROVE Arrives(y)'
    <3>1. Arrives(y)
      BY <1>1, <2>1, <2>4, Zenon DEF IInv, Undisturbed
    <3>2. ~Between("cpu")
      BY <2>1 DEF Between
    <3>3. CASE ledd[y] = Right(asked, y)
      BY <1>1, <3>3, Zenon DEF Arrives
    <3>4. CASE Ahead(y)
      <4>1. Selects(todo'[m], y) \/ x = y
        BY <2>1, <3>4, AccessTodo, Zenon DEF Ahead, x
      <4>2. CASE Selects(todo'[m], y)
        <5>1. Ahead(y)'
          BY <2>1, <4>2, Zenon DEF Ahead
        <5>2. QED
          BY <5>1, Zenon DEF Arrives
      <4>3. CASE x = y
        <5>1. Between("cpu")' /\ addr' = y
          BY <1>1, <1>2, <2>1, <4>3, Zenon
        <5>2. QED
          BY <5>1, Zenon DEF Arrives
      <4>4. QED
        BY <4>1, <4>2, <4>3
    <3>5. QED
      BY <3>1, <3>2, <3>3, <3>4, Zenon DEF Arrives
  <2>5. QED
    BY <2>2, <2>3, <2>4, Zenon
<1>11. QED
  BY <1>6, <1>7, <1>8, <1>9, <1>10, Zenon DEF IInv

\* An access to dat: the register selected takes the value, its own one unless
\* the other master came between.
LEMMA DatKeeps ==
    ASSUME IInv, NEW m \in Masters, Access(m), Head(todo[m]).csr = "dat"
    PROVE  IInv'
<1> DEFINE v == Head(todo[m]).value
<1>1. /\ ledd' = [ledd EXCEPT ![addr] = v]
      /\ UNCHANGED <<ctrl, raw, addr, asked, split>>
      /\ quiet' = (quiet /\ m = "cpu")
      /\ strays' = IF m \in split THEN strays \cup {addr} ELSE strays \ {addr}
      /\ todo[m] # <<>>
  BY DEF Access
<1>2. Between(m)
  BY <1>1, Zenon DEF Between
<1>3. /\ addr \in Registers
      /\ m \notin split => <<addr, v>> \in WritesOf(asked, m)
  BY <1>2, Zenon DEF IInv, Selected
<1>4. v \in 0..255
  <2>1. Head(todo[m]) \in Entry
    BY AccessTodo
  <2>2. QED
    BY <2>1 DEF Entry
<1> HIDE DEF v
<1>5. /\ asked \in Colours \cup {NoColour} /\ ledd \in [Registers -> 0..255]
      /\ strays \subseteq Registers /\ quiet \in BOOLEAN
  BY DEF IInv, Types
<1>6. /\ ledd' \in [Registers -> 0..255] /\ ledd'[addr] = v
      /\ \A y \in Registers \ {addr} : ledd'[y] = ledd[y]
  BY <1>1, <1>3, <1>4, <1>5
<1>7. m \notin split => v \in Meant(addr) /\ (m = "cpu" => v = Right(asked, addr))
  <2> SUFFICES ASSUME m \notin split
               PROVE  v \in Meant(addr) /\ (m = "cpu" => v = Right(asked, addr))
    OBVIOUS
  <2>1. <<addr, v>> \in WritesOf(asked, m)
    BY <1>3
  <2>2. asked \in Colours \cup {NoColour}
    BY <1>5
  <2>3. QED
    BY ONLY <2>1, <2>2, m \in Masters, PairType, Zenon
<1>8. Types'
  <2>1. todo' \in [Masters -> Seq(Entry)]
    BY AccessTodo
  <2>2. quiet' \in BOOLEAN /\ strays' \subseteq Registers
    BY <1>1, <1>3, <1>5
  <2>3. QED
    BY <1>1, <1>6, <2>1, <2>2 DEF IInv, Types
<1>9. Programs'
  BY AccessTodo
<1>10. Selected'
  <2> SUFFICES ASSUME NEW n \in Masters, Between(n)'
               PROVE  /\ addr' \in Registers
                      /\ n \notin split' => <<addr', Head(todo'[n]).value>> \in WritesOf(asked', n)
    BY Zenon DEF Selected
  <2>1. n # m
    BY AccessTodo
  <2>2. Between(n) /\ todo'[n] = todo[n]
    BY <2>1, AccessTodo
  <2>3. QED
    BY <1>1, <2>2, Zenon DEF IInv, Selected
<1>11. WritesLand'
  <2> SUFFICES ASSUME NEW y \in Registers, y \notin strays' PROVE ledd'[y] \in Meant(y)
    BY DEF WritesLand
  <2>1. CASE y = addr
    <3>1. m \notin split
      BY <1>1, <2>1
    <3>2. QED
      BY <1>6, <1>7, <2>1, <3>1, Zenon
  <2>2. CASE y # addr
    <3>1. y \notin strays
      BY <1>1, <2>2
    <3>2. ledd[y] \in Meant(y)
      BY <3>1, Zenon DEF IInv, WritesLand
    <3>3. QED
      BY <1>6, <2>2, <3>2
  <2>3. QED
    BY <2>1, <2>2
<1>12. Undisturbed'
  <2> SUFFICES ASSUME quiet'
               PROVE  /\ "cpu" \notin split'
                      /\ ctrl' = 7
                      /\ \A y \in Registers : y \notin Powers \/ asked' # NoColour => Arrives(y)'
    BY Zenon DEF Undisturbed
  <2>1. quiet /\ m = "cpu" /\ "cpu" \notin split
    BY <1>1 DEF IInv, Undisturbed
  <2>2. ctrl' = 7
    <3>1. ctrl = 7 \/ Head(todo["cpu"]).csr = "ctrl"
      BY <2>1, Zenon DEF IInv, Undisturbed
    <3>2. Head(todo["cpu"]).csr = "dat"
      BY <2>1
    <3>3. QED
      BY <1>1, <3>1, <3>2
  <2>3. ASSUME NEW y \in Registers, y \notin Powers \/ asked' # NoColour PROVE Arrives(y)'
    <3>1. Arrives(y)
      BY <1>1, <2>1, <2>3, Zenon DEF IInv, Undisturbed
    <3>2. CASE y = addr
      <4>1. ledd'[y] = Right(asked', y)
        BY <1>1, <1>6, <1>7, <2>1, <3>2, Zenon
      <4>2. QED
        BY <4>1, Zenon DEF Arrives
    <3>3. CASE y # addr /\ ledd[y] = Right(asked, y)
      <4>1. ledd'[y] = Right(asked', y)
        BY <1>1, <1>6, <3>3
      <4>2. QED
        BY <4>1, Zenon DEF Arrives
    <3>4. CASE Ahead(y)
      <4>1. Selects(todo'[m], y)
        BY <2>1, <3>4, AccessTodo, Zenon DEF Ahead
      <4>2. Ahead(y)'
        BY <2>1, <4>1, Zenon DEF Ahead
      <4>3. QED
        BY <4>2, Zenon DEF Arrives
    <3>5. QED
      BY <3>1, <3>2, <3>3, <3>4, Zenon DEF Arrives
  <2>4. QED
    BY <1>1, <2>1, <2>2, <2>3, Zenon
<1>13. QED
  BY <1>8, <1>9, <1>10, <1>11, <1>12, Zenon DEF IInv

-----------------------------------------------------------------------------
(* The other steps.                                                        *)

\* The CPU starts with its registers ahead of it.
LEMMA FreshStart ==
    /\ rgb_init \in Seq(Entry) /\ rgb_init # <<>>
    /\ Head(rgb_init).csr = "ctrl" /\ Head(rgb_init).csr # "dat"
    /\ Paired(rgb_init, WritesOf(NoColour, "cpu"))
    /\ \A x \in Registers \ Powers : Selects(rgb_init, x)
<1>1. \A x \in Registers \ Powers : <<x, Setting[x]>> \in WritesOf(NoColour, "cpu")
  BY RightIsMeant, Zenon DEF WritesOf
<1>2. QED
  BY <1>1, InitPaired

\* The initial state.
LEMMA InitKeeps ==
    ASSUME Init
    PROVE  IInv
<1>1. /\ ctrl = 0 /\ raw = 0 /\ addr = 0 /\ asked = NoColour
      /\ quiet = TRUE /\ split = {} /\ strays = {}
      /\ ledd = [x \in Registers |-> 0]
      /\ todo = [m \in Masters |-> IF m = "cpu" THEN rgb_init ELSE <<>>]
  BY DEF Init
<1>2. todo["cpu"] = rgb_init /\ todo["host"] = <<>>
  BY <1>1 DEF Masters
<1>3. <<>> \in Seq(Entry)
  BY EmptySeq
<1>4. Types
  <2>1. todo \in [Masters -> Seq(Entry)]
    BY <1>1, <1>3, FreshStart
  <2>2. QED
    BY <1>1, <2>1 DEF Types
<1>5. Programs
  <2>1. Paired(todo["cpu"], WritesOf(asked, "cpu"))
    BY <1>1, <1>2, FreshStart, Zenon
  <2>2. Paired(todo["host"], WritesOf(asked, "host"))
    BY <1>2 DEF Paired
  <2>3. QED
    BY <2>1, <2>2, Zenon DEF Programs, Masters
<1>6. Selected
  BY <1>2, FreshStart, Zenon DEF Selected, Between, Masters
<1>7. WritesLand
  BY <1>1 DEF WritesLand, Meant
<1>8. Undisturbed
  <2>1. \A x \in Registers \ Powers : Ahead(x)
    BY <1>2, FreshStart, Zenon DEF Ahead
  <2>2. \A x \in Registers \ Powers : Arrives(x)
    BY <2>1, Zenon DEF Arrives
  <2>3. "cpu" \notin split
    BY <1>1
  <2>4. todo["cpu"] # <<>> /\ Head(todo["cpu"]).csr = "ctrl"
    BY <1>2, FreshStart, Zenon
  <2>5. QED
    BY <1>1, <2>2, <2>3, <2>4, Zenon DEF Undisturbed
<1>9. QED
  BY <1>4, <1>5, <1>6, <1>7, <1>8 DEF IInv

\* A reset of the CPU.
LEMMA HotReloadKeeps ==
    ASSUME IInv, HotReload
    PROVE  IInv'
<1>1. /\ todo' = [todo EXCEPT !["cpu"] = rgb_init]
      /\ asked' = NoColour /\ quiet' = TRUE /\ split' = split \ {"cpu"}
      /\ UNCHANGED <<ctrl, raw, addr, ledd, strays>>
      /\ todo \in [Masters -> Seq(Entry)]
      /\ "cpu" \in Masters
  BY DEF HotReload, csrs, IInv, Types, Masters
<1>2. /\ todo' \in [Masters -> Seq(Entry)] /\ todo'["cpu"] = rgb_init
      /\ \A n \in Masters : n # "cpu" => todo'[n] = todo[n]
  BY <1>1, FreshStart
<1>3. Types'
  BY <1>1, <1>2 DEF IInv, Types
<1>4. Programs'
  <2>1. ASSUME NEW n \in Masters PROVE Paired(todo'[n], WritesOf(asked', n))
    <3>1. CASE n = "cpu"
      BY <1>1, <1>2, <3>1, FreshStart, Zenon
    <3>2. CASE n # "cpu"
      <4>1. Paired(todo[n], WritesOf(asked, n))
        BY Zenon DEF IInv, Programs
      <4>2. WritesOf(asked', n) = WritesOf(asked, n)
        BY <3>2, Zenon DEF WritesOf
      <4>3. QED
        BY <1>2, <3>2, <4>1, <4>2, Zenon
    <3>3. QED
      BY <3>1, <3>2
  <2>2. QED
    BY <2>1, Zenon DEF Programs
<1>5. Selected'
  <2> SUFFICES ASSUME NEW n \in Masters, Between(n)'
               PROVE  /\ addr' \in Registers
                      /\ n \notin split' => <<addr', Head(todo'[n]).value>> \in WritesOf(asked', n)
    BY Zenon DEF Selected
  <2>1. n # "cpu"
    BY <1>2, FreshStart, Zenon DEF Between
  <2>2. Between(n) /\ todo'[n] = todo[n]
    BY <1>2, <2>1, Zenon DEF Between
  <2>3. WritesOf(asked', n) = WritesOf(asked, n)
    BY <2>1, Zenon DEF WritesOf
  <2>4. n \notin split' => n \notin split
    BY <1>1, <2>1
  <2>5. QED
    BY <1>1, <2>2, <2>3, <2>4, Zenon DEF IInv, Selected
<1>6. WritesLand'
  BY <1>1, Zenon DEF IInv, WritesLand
<1>7. Undisturbed'
  <2>1. \A x \in Registers \ Powers : Ahead(x)'
    BY <1>2, FreshStart, Zenon DEF Ahead
  <2>2. \A x \in Registers \ Powers : Arrives(x)'
    BY <2>1, Zenon DEF Arrives
  <2>3. "cpu" \notin split'
    BY <1>1
  <2>4. todo'["cpu"] # <<>> /\ Head(todo'["cpu"]).csr = "ctrl"
    BY <1>2, FreshStart, Zenon
  <2>5. QED
    BY <1>1, <2>2, <2>3, <2>4, Zenon DEF Undisturbed
<1>8. QED
  BY <1>3, <1>4, <1>5, <1>6, <1>7 DEF IInv

\* A colour of the BIOS.
LEMMA SetKeeps ==
    ASSUME IInv, NEW c \in Colours, Set(c)
    PROVE  IInv'
<1>1. /\ todo["cpu"] = <<>>
      /\ todo' = [todo EXCEPT !["cpu"] = rgb_set(c)]
      /\ asked' = c
      /\ UNCHANGED <<ctrl, raw, addr, ledd, quiet, split, strays>>
      /\ todo \in [Masters -> Seq(Entry)]
      /\ "cpu" \in Masters
  BY DEF Set, csrs, history, IInv, Types, Masters
<1>2. c \in Colour /\ c \in Colours \cup {NoColour}
  BY ColourAssumption
<1>3. /\ <<LEDDPWRR, c.r>> \in WritesOf(c, "cpu")
      /\ <<LEDDPWRG, c.b>> \in WritesOf(c, "cpu")
      /\ <<LEDDPWRB, c.g>> \in WritesOf(c, "cpu")
  <2>1. c.r \in 0..255 /\ c.g \in 0..255 /\ c.b \in 0..255
    BY <1>2 DEF Colour
  <2>2. LEDDPWRR \in Registers /\ LEDDPWRG \in Registers /\ LEDDPWRB \in Registers
    BY DEF Registers, Powers
  <2>3. LEDDPWRR # LEDDPWRG /\ LEDDPWRR # LEDDPWRB /\ LEDDPWRG # LEDDPWRB
    BY DEF LEDDPWRR, LEDDPWRG, LEDDPWRB
  <2>4. Right(c, LEDDPWRR) = c.r /\ Right(c, LEDDPWRG) = c.b /\ Right(c, LEDDPWRB) = c.g
    BY <2>3, Zenon DEF Right
  <2>5. QED
    BY <2>1, <2>2, <2>4 DEF WritesOf, RightWrites
<1>4. /\ rgb_set(c) \in Seq(Entry) /\ Follows(rgb_set(c), WritesOf(c, "cpu"))
      /\ \A x \in Powers : Selects(rgb_set(c), x)
  BY <1>2, <1>3, SetFollows, Zenon
<1>5. /\ todo' \in [Masters -> Seq(Entry)] /\ todo'["cpu"] = rgb_set(c)
      /\ \A n \in Masters : n # "cpu" => todo'[n] = todo[n]
  BY <1>1, <1>4
<1>6. Types'
  BY <1>1, <1>2, <1>5 DEF IInv, Types
<1>7. Programs'
  <2>1. ASSUME NEW n \in Masters PROVE Paired(todo'[n], WritesOf(asked', n))
    <3>1. CASE n = "cpu"
      BY <1>1, <1>4, <1>5, <3>1, Zenon DEF Follows
    <3>2. CASE n # "cpu"
      <4>1. Paired(todo[n], WritesOf(asked, n))
        BY Zenon DEF IInv, Programs
      <4>2. WritesOf(asked', n) = WritesOf(asked, n)
        BY <3>2, Zenon DEF WritesOf
      <4>3. QED
        BY <1>5, <3>2, <4>1, <4>2, Zenon
    <3>3. QED
      BY <3>1, <3>2
  <2>2. QED
    BY <2>1, Zenon DEF Programs
<1>8. Selected'
  <2> SUFFICES ASSUME NEW n \in Masters, Between(n)'
               PROVE  /\ addr' \in Registers
                      /\ n \notin split' => <<addr', Head(todo'[n]).value>> \in WritesOf(asked', n)
    BY Zenon DEF Selected
  <2>1. n # "cpu"
    <3>1. ASSUME rgb_set(c) # <<>> PROVE Head(rgb_set(c)).csr # "dat"
      <4>1. Head(rgb_set(c)) = rgb_set(c)[1]
        BY <1>4, <3>1, HeadTail, Zenon
      <4>2. rgb_set(c)[1].csr = "addr"
        BY <1>4, <3>1, Zenon DEF Follows
      <4>3. QED
        BY <4>1, <4>2
    <3>2. QED
      BY <1>5, <3>1, Zenon DEF Between
  <2>2. Between(n) /\ todo'[n] = todo[n]
    BY <1>5, <2>1, Zenon DEF Between
  <2>3. WritesOf(asked', n) = WritesOf(asked, n)
    BY <2>1, Zenon DEF WritesOf
  <2>4. QED
    BY <1>1, <2>2, <2>3, Zenon DEF IInv, Selected
<1>9. WritesLand'
  BY <1>1, Zenon DEF IInv, WritesLand
<1>10. Undisturbed'
  <2> SUFFICES ASSUME quiet'
               PROVE  /\ "cpu" \notin split'
                      /\ ctrl' = 7
                      /\ \A x \in Registers : Arrives(x)'
    BY Zenon DEF Undisturbed
  <2>1. quiet /\ "cpu" \notin split /\ ctrl = 7
    BY <1>1, Zenon DEF IInv, Undisturbed
  <2>2. ASSUME NEW x \in Powers PROVE Arrives(x)'
    BY <1>4, <1>5, Zenon DEF Arrives, Ahead
  <2>3. ASSUME NEW x \in Registers, x \notin Powers PROVE Arrives(x)'
    <3>1. Arrives(x)
      BY <2>1, <2>3, Zenon DEF IInv, Undisturbed
    <3>2. ~Ahead(x) /\ ~Between("cpu")
      <4>1. 1..Len(todo["cpu"]) = {}
        BY <1>1
      <4>2. QED
        BY <1>1, <4>1, Zenon DEF Ahead, Selects, Between
    <3>3. ledd[x] = Right(asked, x)
      BY <3>1, <3>2, Zenon DEF Arrives
    <3>4. Right(asked, x) = Setting[x] /\ Right(asked', x) = Setting[x]
      <4>1. asked \in Colours \cup {NoColour} /\ asked' \in Colours \cup {NoColour}
        BY <1>1, <1>2 DEF IInv, Types
      <4>2. x \in Registers \ Powers
        BY <2>3
      <4>3. QED
        BY <4>1, <4>2, RightIsMeant, Zenon
    <3>5. ledd'[x] = Right(asked', x)
      BY <1>1, <3>3, <3>4, Zenon
    <3>6. QED
      BY <3>5, Zenon DEF Arrives
  <2>4. QED
    BY <1>1, <2>1, <2>2, <2>3, Zenon
<1>11. QED
  BY <1>6, <1>7, <1>8, <1>9, <1>10 DEF IInv

\* The script of the host is started.
LEMMA HostScriptKeeps ==
    ASSUME IInv, HostScript
    PROVE  IInv'
<1>1. /\ todo' = [todo EXCEPT !["host"] = led_test]
      /\ split' = split \ {"host"}
      /\ UNCHANGED <<ctrl, raw, addr, ledd, asked, quiet, strays>>
      /\ todo \in [Masters -> Seq(Entry)]
      /\ "host" \in Masters /\ "cpu" \in Masters
  BY DEF HostScript, csrs, IInv, Types, Masters
<1>2. /\ todo' \in [Masters -> Seq(Entry)] /\ todo'["host"] = led_test
      /\ \A n \in Masters : n # "host" => todo'[n] = todo[n]
  BY <1>1, ScriptPaired
<1>3. todo'["cpu"] = todo["cpu"]
  BY <1>1, <1>2
<1>4. Types'
  BY <1>1, <1>2 DEF IInv, Types
<1>5. Programs'
  <2>1. ASSUME NEW n \in Masters PROVE Paired(todo'[n], WritesOf(asked', n))
    <3>1. CASE n = "host"
      <4>1. WritesOf(asked', n) = MeantWrites
        BY <3>1 DEF WritesOf
      <4>2. QED
        BY <1>2, <3>1, <4>1, ScriptPaired, Zenon
    <3>2. CASE n # "host"
      <4>1. Paired(todo[n], WritesOf(asked, n))
        BY Zenon DEF IInv, Programs
      <4>2. QED
        BY <1>1, <1>2, <3>2, <4>1, Zenon
    <3>3. QED
      BY <3>1, <3>2
  <2>2. QED
    BY <2>1, Zenon DEF Programs
<1>6. ~Between("host")'
  <2>1. Head(led_test).csr # "dat"
    BY ScriptPaired
  <2>2. QED
    BY <1>2, <2>1, Zenon DEF Between
<1>7. Selected'
  <2> SUFFICES ASSUME NEW n \in Masters, Between(n)'
               PROVE  /\ addr' \in Registers
                      /\ n \notin split' => <<addr', Head(todo'[n]).value>> \in WritesOf(asked', n)
    BY Zenon DEF Selected
  <2>1. n # "host"
    BY <1>6
  <2>2. Between(n) /\ todo'[n] = todo[n]
    BY <1>2, <2>1, Zenon DEF Between
  <2>3. n \notin split' => n \notin split
    BY <1>1, <2>1
  <2>4. QED
    BY <1>1, <2>2, <2>3, Zenon DEF IInv, Selected
<1>8. WritesLand'
  BY <1>1, Zenon DEF IInv, WritesLand
<1>9. Undisturbed'
  <2>1. "cpu" \notin split => "cpu" \notin split'
    BY <1>1
  <2>2. \A x : Arrives(x)' <=> Arrives(x)
    BY <1>1, <1>3, Zenon DEF Arrives, Ahead, Between
  <2>3. QED
    BY <1>1, <1>3, <2>1, <2>2, Zenon DEF IInv, Undisturbed
<1>10. QED
  BY <1>4, <1>5, <1>7, <1>8, <1>9 DEF IInv

\* One access of the host to ctrl or raw.
LEMMA HostPokeKeeps ==
    ASSUME IInv, HostPoke
    PROVE  IInv'
<1>1. quiet' = FALSE /\ UNCHANGED <<addr, ledd, todo, asked, split, strays>>
  BY DEF HostPoke
<1>2. ctrl' \in 0..63 /\ raw' \in 0..7
  BY ColourAssumption DEF HostPoke, IInv, Types
<1>3. Types'
  BY <1>1, <1>2 DEF IInv, Types
<1>4. Programs' /\ Selected' /\ WritesLand'
  BY <1>1, Zenon DEF IInv, Programs, Selected, Between, WritesLand
<1>5. Undisturbed'
  BY <1>1, Zenon DEF Undisturbed
<1>6. QED
  BY <1>3, <1>4, <1>5 DEF IInv

-----------------------------------------------------------------------------
(* Theorems.                                                               *)

\* Every step keeps the invariant.
LEMMA NextKeeps ==
    ASSUME IInv, [Next]_vars
    PROVE  IInv'
<1>1. CASE \E m \in Masters : Access(m)
  <2>1. PICK m \in Masters : Access(m)
    BY <1>1
  <2>2. \/ Head(todo[m]).csr = "ctrl"
        \/ Head(todo[m]).csr = "addr"
        \/ Head(todo[m]).csr = "dat"
    BY <2>1 DEF Access
  <2>3. QED
    BY <2>1, <2>2, CtrlKeeps, AddrKeeps, DatKeeps, Zenon
<1>2. CASE \E c \in Colours : Set(c)
  BY <1>2, SetKeeps, Zenon
<1>3. CASE HotReload
  BY <1>3, HotReloadKeeps
<1>4. CASE HostScript
  BY <1>4, HostScriptKeeps
<1>5. CASE HostPoke
  BY <1>5, HostPokeKeeps
<1>6. CASE UNCHANGED vars
  <2>1. UNCHANGED <<ctrl, raw, addr, ledd, todo, asked, quiet, split, strays>>
    BY <1>6 DEF vars, csrs, history
  <2>2. Types' /\ Programs' /\ Selected' /\ WritesLand'
    BY <2>1, Zenon DEF IInv, Types, Programs, Selected, Between, WritesLand
  <2>3. Undisturbed'
    BY <2>1, Zenon DEF IInv, Undisturbed, Arrives, Ahead, Between
  <2>4. QED
    BY <2>2, <2>3 DEF IInv
<1>7. QED
  BY <1>1, <1>2, <1>3, <1>4, <1>5, <1>6, Zenon DEF Next

\* The invariant is one of the specification: whatever order the accesses of
\* the BIOS and of the host come in, each master is within its program, selects
\* what it writes and has done or is still to do all of it.
THEOREM LedInvariance == Spec => []IInv
<1>1. Init => IInv
  BY InitKeeps
<1>2. IInv /\ [Next]_vars => IInv'
  BY NextKeeps
<1>3. QED
  BY <1>1, <1>2, PTL DEF Spec

\* Every variable keeps its type: no access selects a register that the block
\* has not, nor writes a value wider than a CSR (rgb.c:40-68, sbled.py:23-50).
THEOREM RgbLedTypes == Spec => []TypeOK
<1>1. IInv => TypeOK
  <2> SUFFICES ASSUME IInv PROVE TypeOK
    OBVIOUS
  <2>1. \A m \in Masters : \A i \in 1..Len(todo[m]) : todo[m][i] \in Entry
    <3>1. ASSUME NEW m \in Masters, NEW i \in 1..Len(todo[m]) PROVE todo[m][i] \in Entry
      <4>1. todo[m] \in Seq(Entry)
        BY DEF IInv, Types
      <4>2. QED
        BY <4>1, ElementOfSeq
    <3>2. QED
      BY <3>1
  <2>2. asked \in Colour \cup {NoColour}
    BY ColourAssumption DEF IInv, Types
  <2>3. QED
    BY <2>1, <2>2, Zenon DEF IInv, Types, TypeOK, Entry
<1>2. QED
  BY <1>1, LedInvariance, PTL

\* A register of the LED has a value that a program meant for it, unless the
\* other master came between an address and its datum; resets of the CPU and
\* stops of the script, between any two accesses, do no harm (rgb.c:40-43).
THEOREM WritesLandWhereMeant == Spec => []WritesLand
<1>1. IInv => WritesLand
  BY DEF IInv
<1>2. QED
  BY <1>1, LedInvariance, PTL

\* With ctrl as rgb_init leaves it, on an EVT board, the LEDs show the powers in
\* the order of its wires.
LEMMA ShownOfPowers ==
    ASSUME Revision \in {"evt", "rockling_evt"}, ctrl = 7
    PROVE  Shown = [r |-> ledd[LEDDPWRR], g |-> ledd[LEDDPWRB], b |-> ledd[LEDDPWRG]]
<1>1. ~CtrlBit(3) /\ ~CtrlBit(4) /\ ~CtrlBit(5)
  <2>1. 2^3 = 8 /\ 2^4 = 16 /\ 2^5 = 32
    OBVIOUS
  <2>2. 7 \div 8 = 0 /\ 7 \div 16 = 0 /\ 7 \div 32 = 0 /\ 0 % 2 = 0
    OBVIOUS
  <2>3. QED
    BY <2>1, <2>2 DEF CtrlBit
<1>2. pwm_index(0) = 1 /\ pwm_index(1) = 2 /\ pwm_index(2) = 0
  BY DEF pwm_index
<1>3. ASSUME NEW i \in 0..2, NEW k \in 0..2, pwm_index(k) = i PROVE rgba_pwm[i] = ledd[k + 1]
  <2> DEFINE j == CHOOSE j \in 0..2 : pwm_index(j) = i
  <2>1. j \in 0..2 /\ pwm_index(j) = i
    BY <1>3, Zenon
  <2>2. rgba_pwm[i] = IF CtrlBit(3 + j) THEN RawLevel(j) ELSE ledd_value[j]
    BY Zenon DEF rgba_pwm
  <2> HIDE DEF j
  <2>3. j = k
    <3>1. \A a \in 0..2 : a = 0 \/ a = 1 \/ a = 2
      OBVIOUS
    <3>2. 0 # 1 /\ 1 # 2 /\ 0 # 2
      OBVIOUS
    <3>3. QED
      BY <1>2, <1>3, <2>1, <3>1, <3>2, Zenon
  <2>4. ~CtrlBit(3 + j)
    <3>1. 3 + j = 3 \/ 3 + j = 4 \/ 3 + j = 5
      BY <2>1
    <3>2. QED
      BY <1>1, <3>1, Zenon
  <2>5. ledd_value[j] = ledd[j + 1]
    BY <2>1, Zenon DEF ledd_value
  <2>6. QED
    BY <2>2, <2>3, <2>4, <2>5, Zenon
<1>4. /\ 0 \in 0..2 /\ 1 \in 0..2 /\ 2 \in 0..2
      /\ 0 + 1 = LEDDPWRR /\ 1 + 1 = LEDDPWRG /\ 2 + 1 = LEDDPWRB
  BY DEF LEDDPWRR, LEDDPWRG, LEDDPWRB
<1>5. rgba_pwm[1] = ledd[LEDDPWRR] /\ rgba_pwm[2] = ledd[LEDDPWRG] /\ rgba_pwm[0] = ledd[LEDDPWRB]
  BY <1>2, <1>3, <1>4, Zenon
<1>6. QED
  BY <1>5, Zenon DEF Shown

\* On an EVT board, when the BIOS has set a colour and the host did not write
\* since the CPU was reset, the LEDs show that colour, whatever was in the
\* registers before, and wherever the BIOS before was stopped (rgb.c:40-68 with
\* sbled.py:53-76).
THEOREM LedShowsTheColour ==
    ASSUME Revision \in {"evt", "rockling_evt"}
    PROVE  Spec => []LedTruthful
<1>1. IInv => LedTruthful
  <2> SUFFICES ASSUME IInv, quiet, asked # NoColour, todo["cpu"] = <<>>
               PROVE  Steady /\ Driven /\ Shown = asked
    BY DEF LedTruthful
  <2>1. ctrl = 7 /\ \A x \in Registers : Arrives(x)
    BY Zenon DEF IInv, Undisturbed
  <2>2. ASSUME NEW x \in Registers PROVE ledd[x] = Right(asked, x)
    <3>1. 1..Len(todo["cpu"]) = {}
      OBVIOUS
    <3>2. ~Ahead(x) /\ ~Between("cpu")
      BY <3>1, Zenon DEF Ahead, Selects, Between
    <3>3. QED
      BY <2>1, <3>2, Zenon DEF Arrives
  <2>3. asked \in Colours /\ asked \in Colours \cup {NoColour} /\ asked \in Colour
    BY ColourAssumption DEF IInv, Types
  <2>4. Steady
    <3>1. 7 \div 2^0 = 7 /\ 7 % 2 = 1
      OBVIOUS
    <3>2. exe
      BY <2>1, <3>1 DEF exe, CtrlBit
    <3>3. ASSUME NEW x \in DOMAIN Setting PROVE ledd[x] = Setting[x]
      <4>1. x \in Registers \ Powers
        BY RegistersType, Zenon
      <4>2. Right(asked, x) = Setting[x]
        BY <2>3, <4>1, RightIsMeant, Zenon
      <4>3. QED
        BY <2>2, <4>1, <4>2
    <3>4. QED
      BY <3>2, <3>3 DEF Steady
  <2>5. Driven
    <3>1. 2^1 = 2 /\ 2^2 = 4
      OBVIOUS
    <3>2. (7 \div 2) % 2 = 1 /\ (7 \div 4) % 2 = 1
      OBVIOUS
    <3>3. QED
      BY <2>1, <3>1, <3>2 DEF Driven, CtrlBit
  <2>6. ledd[LEDDPWRR] = asked.r /\ ledd[LEDDPWRB] = asked.g /\ ledd[LEDDPWRG] = asked.b
    <3>1. LEDDPWRR \in Registers /\ LEDDPWRG \in Registers /\ LEDDPWRB \in Registers
      BY DEF Registers, Powers
    <3>2. LEDDPWRR # LEDDPWRG /\ LEDDPWRR # LEDDPWRB /\ LEDDPWRG # LEDDPWRB
      BY DEF LEDDPWRR, LEDDPWRG, LEDDPWRB
    <3>3. QED
      BY <2>2, <3>1, <3>2, Zenon DEF Right
  <2>7. Shown = [r |-> asked.r, g |-> asked.g, b |-> asked.b]
    BY <2>1, <2>6, ShownOfPowers, Zenon
  <2>8. asked = [r |-> asked.r, g |-> asked.g, b |-> asked.b]
    BY <2>3 DEF Colour
  <2>9. QED
    BY <2>4, <2>5, <2>7, <2>8, Zenon
<1>2. QED
  BY <1>1, LedInvariance, PTL

=============================================================================
