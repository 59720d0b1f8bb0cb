--------------------------- MODULE MessibleProofs ----------------------------
(***************************************************************************)
(* Proofs about Messible, for every depth, every set of bytes and every    *)
(* time between two accesses of the CPU: the flags hold when they are      *)
(* used, and the FIFO with its registers is a queue that drops bytes only  *)
(* when it is full.                                                        *)
(***************************************************************************)
EXTENDS Messible, SequenceTheorems, TLAPS

\* A byte under way is a byte, and so is one that HAVE announces.
BytesAreBytes ==
    /\ in_re => storage \in Bytes
    /\ readable => dout \in Bytes

\* The byte that the CPU has just written arrives before its next access, and
\* a CPU that saw FULL = 0 has had no byte of its own under way since.
RoomIsKept ==
    /\ in_re => gap = AccessTime - 1
    /\ cpu = "room" => ~in_re /\ writable

IInv == TypeOK /\ BytesAreBytes /\ HaveTruthful

\* FullTruthful needs that the CPU cannot make two accesses in successive
\* clocks.
IInvSlow == IInv /\ RoomIsKept /\ FullTruthful

-----------------------------------------------------------------------------
(* One clock of the FIFO.                                                  *)

\* The bytes left in the memory when its head has moved to the output register.
Rest(out_re) == IF mem # <<>> /\ (~readable \/ out_re) THEN Tail(mem) ELSE mem

\* What is left of the memory is a sequence of bytes, and not longer.
LEMMA RestType ==
  ASSUME TypeOK, NEW out_re \in BOOLEAN
  PROVE  Rest(out_re) \in Seq(Bytes) /\ Len(Rest(out_re)) <= Len(mem)
<1>1. CASE mem # <<>>
  BY <1>1, HeadTailProperties DEF TypeOK, Rest
<1>2. CASE mem = <<>>
  BY <1>2 DEF TypeOK, Rest
<1>3. QED
  BY <1>1, <1>2

\* The FIFO keeps its types, and stores no more than one byte.
LEMMA FifoTickType ==
  ASSUME TypeOK, BytesAreBytes, NEW out_re \in BOOLEAN, FifoTick(out_re)
  PROVE  /\ mem' \in Seq(Bytes) /\ Len(mem') <= Depth
         /\ dout' \in Bytes \cup {None} /\ readable' \in BOOLEAN
         /\ readable' => dout' \in Bytes
         /\ ~in_re => Len(mem') <= Len(mem)
         /\ ~out_re /\ readable => readable'
<1> USE MessibleAssumption
<1>1. /\ mem' = Store(Rest(out_re))
      /\ readable' \in BOOLEAN
      /\ ~out_re /\ readable => readable'
  BY DEF FifoTick, Rest, TypeOK
<1>2. Rest(out_re) \in Seq(Bytes) /\ Len(Rest(out_re)) <= Len(mem) /\ Len(mem) \in Nat
  BY RestType DEF TypeOK
<1>3. CASE in_re /\ writable
  <2>1. mem' = Append(Rest(out_re), storage) /\ storage \in Bytes
    BY <1>1, <1>3 DEF Store, BytesAreBytes
  <2>2. Len(mem) < Depth
    BY <1>2, <1>3 DEF writable, TypeOK
  <2>3. mem' \in Seq(Bytes) /\ Len(mem') = Len(Rest(out_re)) + 1
    BY <1>2, <2>1, AppendProperties
  <2>4. Len(Rest(out_re)) \in Nat
    BY <1>2
  <2>5. QED
    BY <1>1, <1>2, <1>3, <2>2, <2>3, <2>4, HeadTailProperties
    DEF FifoTick, TypeOK, BytesAreBytes
<1>4. CASE ~(in_re /\ writable)
  <2>1. mem' = Rest(out_re)
    BY <1>1, <1>4 DEF Store
  <2>2. QED
    BY <1>1, <1>2, <2>1, HeadTailProperties DEF FifoTick, TypeOK, BytesAreBytes
<1>5. QED
  BY <1>3, <1>4

-----------------------------------------------------------------------------
(* Types, and what HAVE promises.                                          *)

\* The invariant holds at the beginning.
LEMMA InitInv == Init => IInv
<1> USE MessibleAssumption
<1>1. Init => TypeOK
  <2>1. AccessTime - 1 \in Nat /\ 0 \in 0..(AccessTime - 1) /\ 0 <= Depth
    OBVIOUS
  <2>2. <<>> \in Seq(Bytes) /\ Len(<<>>) = 0
    BY EmptySeq
  <2>3. QED
    BY <2>1, <2>2 DEF Init, TypeOK
<1>2. QED
  BY <1>1 DEF Init, IInv, BytesAreBytes, HaveTruthful

\* Every step keeps it.
LEMMA StepInv == IInv /\ [Next]_vars => IInv'
<1> SUFFICES ASSUME IInv, [Next]_vars PROVE IInv'
  OBVIOUS
<1> USE MessibleAssumption DEF IInv
<1> DEFINE FifoKept(out_re) ==
      /\ mem' \in Seq(Bytes) /\ Len(mem') <= Depth
      /\ dout' \in Bytes \cup {None} /\ readable' \in BOOLEAN
      /\ readable' => dout' \in Bytes
      /\ ~out_re /\ readable => readable'
<1>1. ASSUME NEW out_re \in BOOLEAN, FifoTick(out_re) PROVE FifoKept(out_re)
  BY <1>1, FifoTickType
<1>2. /\ gap \in 0..(AccessTime - 1) /\ AccessTime - 1 \in 0..(AccessTime - 1)
      /\ (IF gap = 0 THEN 0 ELSE gap - 1) \in 0..(AccessTime - 1)
  BY DEF TypeOK
<1>3. CASE CpuWrite
  <2>1. FifoKept(FALSE) /\ UNCHANGED host
    BY <1>1, <1>3 DEF CpuWrite
  <2>2. /\ storage' \in Bytes /\ in_re' \in BOOLEAN /\ polite' \in BOOLEAN
        /\ cpu' = "idle" /\ gap' = AccessTime - 1 /\ got' = None
    BY <1>3 DEF CpuWrite
  <2>3. QED
    BY <1>2, <2>1, <2>2 DEF TypeOK, BytesAreBytes, HaveTruthful
<1>4. CASE CpuStatus
  <2>1. FifoKept(FALSE) /\ UNCHANGED <<storage, polite, host>>
    BY <1>1, <1>4 DEF CpuStatus
  <2>2. /\ in_re' = FALSE /\ gap' = AccessTime - 1 /\ got' = None
        /\ cpu' \in {"idle", "room"}
    BY <1>4 DEF CpuStatus
  <2>3. QED
    BY <1>2, <2>1, <2>2 DEF TypeOK, BytesAreBytes, HaveTruthful
<1>5. CASE HostStatus
  <2>1. FifoKept(FALSE) /\ Quiet
    BY <1>1, <1>5 DEF HostStatus
  <2>2. got' = None /\ host' \in {"idle", "have"} /\ (host' = "have" => readable)
    BY <1>5 DEF HostStatus, have
  <2>3. QED
    BY <1>2, <2>1, <2>2 DEF Quiet, TypeOK, BytesAreBytes, HaveTruthful
<1>6. CASE HostRead
  <2>1. FifoKept(TRUE) /\ Quiet
    BY <1>1, <1>6 DEF HostRead
  <2>2. got' \in Bytes \cup {None} /\ host' = "idle"
    BY <1>6 DEF HostRead, have, TypeOK
  <2>3. QED
    BY <1>2, <2>1, <2>2 DEF Quiet, TypeOK, BytesAreBytes, HaveTruthful
<1>7. CASE NoAccess
  <2>1. FifoKept(FALSE) /\ Quiet /\ got' = None /\ UNCHANGED host
    BY <1>1, <1>7 DEF NoAccess
  <2>2. QED
    BY <1>2, <2>1 DEF Quiet, TypeOK, BytesAreBytes, HaveTruthful
<1>8. CASE UNCHANGED vars
  BY <1>8 DEF vars, fifo, TypeOK, BytesAreBytes, HaveTruthful
<1>9. QED
  BY <1>3, <1>4, <1>5, <1>6, <1>7, <1>8 DEF Next

\* The registers of the Messible and its users keep their types.
LEMMA Invariance == Spec => []IInv
<1>1. IInv /\ [Next]_vars => IInv'
  BY StepInv
<1>2. QED
  BY InitInv, <1>1, PTL DEF Spec

\* The memory never holds more than Depth bytes, and all that it holds was
\* written by the CPU (rtl/messible.py:49).
THEOREM MessibleTypeCorrect == Spec => []TypeOK
<1>1. IInv => TypeOK
  BY DEF IInv
<1>2. QED
  BY Invariance, <1>1, PTL

\* A host that saw HAVE = 1 finds a byte when it gets to it (rtl/messible.py:41).
THEOREM HaveIsTruthful == Spec => []HaveTruthful
<1>1. IInv => HaveTruthful
  BY DEF IInv
<1>2. QED
  BY Invariance, <1>1, PTL

-----------------------------------------------------------------------------
(* What FULL promises.                                                     *)

\* Every step keeps the room that the CPU saw, if its accesses are far enough
\* from each other.
LEMMA StepSlow ==
  ASSUME AccessTime > 1
  PROVE  IInvSlow /\ [Next]_vars => IInvSlow'
<1> SUFFICES ASSUME IInvSlow, [Next]_vars PROVE RoomIsKept' /\ FullTruthful'
  BY StepInv DEF IInvSlow
<1> USE MessibleAssumption DEF IInvSlow, IInv
<1>0. /\ Len(mem) \in Nat /\ Len(mem) <= Depth /\ Depth \in Nat
      /\ gap \in 0..(AccessTime - 1) /\ AccessTime \in Nat
  BY DEF TypeOK
<1>1. gap = 0 => ~in_re
  BY <1>0 DEF RoomIsKept
<1>2. ASSUME NEW out_re \in BOOLEAN, FifoTick(out_re), ~in_re
      PROVE  writable => writable'
  <2>1. mem' \in Seq(Bytes) /\ Len(mem') <= Len(mem)
    BY <1>2, FifoTickType
  <2>2. QED
    BY <1>0, <2>1 DEF writable
<1>3. CASE CpuWrite
  <2>1. FifoTick(FALSE) /\ ~in_re /\ gap' = AccessTime - 1
    BY <1>1, <1>3 DEF CpuWrite
  <2>2. in_re' /\ cpu' = "idle" /\ (polite' => cpu = "room")
    BY <1>3 DEF CpuWrite
  <2>3. QED
    BY <1>2, <2>1, <2>2 DEF RoomIsKept, FullTruthful
<1>4. CASE CpuStatus
  <2>1. FifoTick(FALSE) /\ ~in_re
    BY <1>1, <1>4 DEF CpuStatus
  <2>2. ~in_re' /\ (cpu' = "room" => writable)
    BY <1>4 DEF CpuStatus, full
  <2>3. QED
    BY <1>2, <2>1, <2>2 DEF RoomIsKept, FullTruthful
<1>5. CASE Quiet /\ (\E out_re \in BOOLEAN : FifoTick(out_re))
  BY <1>2, <1>5 DEF Quiet, RoomIsKept, FullTruthful
<1>6. CASE UNCHANGED vars
  BY <1>6 DEF vars, fifo, RoomIsKept, FullTruthful, writable
<1>7. HostStatus \/ HostRead \/ NoAccess => Quiet /\ (\E out_re \in BOOLEAN : FifoTick(out_re))
  BY DEF HostStatus, HostRead, NoAccess
<1>8. QED
  BY <1>3, <1>4, <1>5, <1>6, <1>7 DEF Next

\* A byte that the CPU writes after it saw FULL = 0 is kept, although the
\* flag is older than the byte and the byte before it may have been under way
\* when the flag was read (rtl/messible.py:36).
THEOREM FullIsTruthful == AccessTime > 1 /\ Spec => []FullTruthful
<1>1. Init => IInvSlow
  BY InitInv DEF Init, IInvSlow, RoomIsKept, FullTruthful
<1>2. AccessTime > 1 => (IInvSlow /\ [Next]_vars => IInvSlow')
  BY StepSlow
<1>3. IInvSlow => FullTruthful
  BY DEF IInvSlow
<1>4. SUFFICES ASSUME AccessTime > 1 PROVE Spec => []FullTruthful
  OBVIOUS
<1>5. IInvSlow /\ [Next]_vars => IInvSlow'
  BY <1>2, <1>4
<1>6. QED
  BY <1>1, <1>3, <1>5, PTL DEF Spec
-----------------------------------------------------------------------------
(* The Messible is a queue.                                                *)

\* A byte before a sequence.
LEMMA ConsProperties ==
  ASSUME NEW S, NEW d \in S, NEW s \in Seq(S)
  PROVE  /\ <<d>> \o s \in Seq(S) /\ <<d>> \o s # <<>>
         /\ Len(<<d>> \o s) = Len(s) + 1
         /\ Head(<<d>> \o s) = d /\ Tail(<<d>> \o s) = s
         /\ \A e \in S : Append(<<d>> \o s, e) = <<d>> \o Append(s, e)
<1>1. <<d>> \in Seq(S) /\ Len(<<d>>) = 1 /\ <<d>>[1] = d
  OBVIOUS
<1> DEFINE c == <<d>> \o s
<1>2. /\ c \in Seq(S) /\ Len(c) = 1 + Len(s) /\ Len(s) \in Nat
      /\ \A i \in 1 .. 1 + Len(s) : c[i] = IF i <= 1 THEN <<d>>[i] ELSE s[i - 1]
  BY <1>1, ConcatProperties, LenProperties
<1>3. c # <<>> /\ Head(c) = d
  BY <1>1, <1>2
<1>4. Tail(c) = s
  <2>1. Tail(c) \in Seq(S) /\ Len(Tail(c)) = Len(s)
    BY <1>2, <1>3, HeadTailProperties
  <2>2. \A i \in 1 .. Len(Tail(c)) : Tail(c)[i] = c[i + 1]
    BY <1>2, <1>3, HeadTailProperties
  <2>3. \A i \in 1 .. Len(Tail(c)) : Tail(c)[i] = s[i]
    BY <1>2, <2>1, <2>2
  <2>4. QED
    BY <2>1, <2>3, SeqEqual
<1>5. ASSUME NEW e \in S PROVE Append(c, e) = <<d>> \o Append(s, e)
  <2>1. <<e>> \in Seq(S)
    OBVIOUS
  <2>2. Append(c, e) = c \o <<e>> /\ Append(s, e) = s \o <<e>>
    BY <1>2, AppendIsConcat
  <2>3. QED
    BY <1>1, <2>1, <2>2, ConcatAssociative
<1>6. QED
  BY <1>2, <1>3, <1>4, <1>5

\* A sequence is its head before its tail.
LEMMA HeadBeforeTail ==
  ASSUME NEW S, NEW s \in Seq(S), s # <<>>
  PROVE  <<Head(s)>> \o Tail(s) = s
<1>1. Head(s) \in S /\ Tail(s) \in Seq(S) /\ Len(Tail(s)) = Len(s) - 1 /\ Head(s) = s[1]
  BY HeadTailProperties
<1>2. /\ <<Head(s)>> \in Seq(S) /\ Len(<<Head(s)>>) = 1 /\ <<Head(s)>>[1] = Head(s)
  BY <1>1
<1> DEFINE c == <<Head(s)>> \o Tail(s)
<1>3. Len(s) \in Nat \ {0}
  BY EmptySeq
<1>4. /\ c \in Seq(S) /\ Len(c) = Len(s)
      /\ \A i \in 1 .. Len(s) : c[i] = IF i <= 1 THEN <<Head(s)>>[i] ELSE Tail(s)[i - 1]
  BY <1>1, <1>2, <1>3, ConcatProperties
<1>5. \A i \in 1 .. Len(Tail(s)) : Tail(s)[i] = s[i + 1]
  BY HeadTailProperties
<1>6. \A i \in 1 .. Len(c) : c[i] = s[i]
  BY <1>1, <1>2, <1>3, <1>4, <1>5
<1>7. QED
  BY <1>4, <1>6, SeqEqual

\* The variables of the abstract queue.
inp == IF in_re THEN storage ELSE None
q == IF readable THEN <<dout>> \o mem ELSE mem

\* One clock of the FIFO is one of the queue: a read of the output register
\* takes the byte at the head, every other clock keeps what is waiting.
LEMMA FifoTickRefines ==
  ASSUME TypeOK, BytesAreBytes, NEW out_re \in BOOLEAN, FifoTick(out_re),
         got' = IF out_re /\ readable THEN dout ELSE None
  PROVE  Queue!Next
<1> USE MessibleAssumption
<1>1. mem \in Seq(Bytes) /\ Len(mem) \in Nat /\ Len(mem) <= Depth
  BY DEF TypeOK
<1>2. readable => /\ dout \in Bytes
                  /\ q \in Seq(Bytes) /\ q # <<>> /\ Len(q) = Len(mem) + 1
                  /\ Head(q) = dout /\ Tail(q) = mem
  BY <1>1, ConsProperties DEF BytesAreBytes, q
<1>3. ~readable => q = mem
  BY DEF q
<1> DEFINE kept == IF out_re /\ readable THEN Tail(q) ELSE q
           drops == ~(in_re /\ writable)
<1>4. kept \in Seq(Bytes)
  BY <1>1, <1>2, <1>3
<1>5. q' = IF drops THEN kept ELSE Append(kept, storage)
  <2> DEFINE rest == Rest(out_re)
  <2>1. /\ mem' = IF drops THEN rest ELSE Append(rest, storage)
        /\ rest \in Seq(Bytes)
        /\ ~drops => storage \in Bytes
    BY RestType DEF FifoTick, Rest, Store, BytesAreBytes
  <2>2. CASE readable' /\ mem # <<>> /\ (~readable \/ out_re)
    <3>1. dout' = Head(mem) /\ rest = Tail(mem) /\ kept = mem
      BY <1>2, <1>3, <2>2 DEF FifoTick, Rest
    <3>2. <<dout'>> \o rest = kept /\ dout' \in Bytes
      BY <1>1, <2>2, <3>1, HeadBeforeTail, HeadTailProperties
    <3>3. Append(kept, storage) = <<dout'>> \o Append(rest, storage) \/ drops
      BY <2>1, <3>2, ConsProperties
    <3>4. q' = <<dout'>> \o mem'
      BY <2>2 DEF q
    <3>5. QED
      BY <2>1, <3>2, <3>3, <3>4
  <2>3. CASE readable /\ ~out_re
    <3>1. dout' = dout /\ readable' /\ rest = mem /\ kept = <<dout>> \o mem
      BY <2>3 DEF FifoTick, Rest, q
    <3>2. Append(kept, storage) = <<dout>> \o Append(rest, storage) \/ drops
      BY <1>2, <2>1, <2>3, <3>1, ConsProperties
    <3>3. q' = <<dout'>> \o mem'
      BY <3>1 DEF q
    <3>4. QED
      BY <2>1, <3>1, <3>2, <3>3
  <2>4. CASE mem = <<>> /\ (~readable \/ out_re)
    <3>1. ~readable' /\ rest = mem /\ kept = mem
      BY <1>2, <1>3, <2>4 DEF FifoTick, Rest
    <3>2. q' = mem'
      BY <3>1 DEF q
    <3>3. QED
      BY <2>1, <3>1, <3>2
  <2>5. mem # <<>> /\ (~readable \/ out_re) => readable'
    BY DEF FifoTick
  <2>6. QED
    BY <2>2, <2>3, <2>4, <2>5
<1>6. Queue!Store(kept)
  <2>1. Len(q) \in Nat /\ (writable => Len(q) <= Depth) /\ (~writable => Len(q) >= Depth)
    BY <1>1, <1>2, <1>3 DEF writable
  <2>2. drops => inp = None \/ Len(q) >= Depth
    BY <2>1 DEF inp
  <2>3. ~drops => inp = storage /\ inp # None /\ Len(q) <= Depth
    BY <2>1 DEF inp, BytesAreBytes
  <2> HIDE DEF kept
  <2>4. Queue!Store(kept) <=>
          \/ (inp = None \/ Len(q) >= Depth) /\ q' = kept
          \/ inp # None /\ Len(q) <= Depth /\ q' = Append(kept, inp)
    BY DEF Queue!Store, inp, q
  <2>5. QED
    BY <1>5, <2>2, <2>3, <2>4
<1>7. CASE out_re /\ readable
  BY <1>2, <1>6, <1>7 DEF Queue!Next, Queue!Take, q
<1>8. CASE ~(out_re /\ readable)
  BY <1>6, <1>8 DEF Queue!Next, Queue!Keep, q
<1>9. QED
  BY <1>7, <1>8

\* Every clock of the Messible is a clock of the queue.
LEMMA StepRefines == IInv /\ [Next]_vars => [Queue!Next]_Queue!vars
<1> SUFFICES ASSUME IInv, Next PROVE Queue!Next
  BY DEF vars, fifo, Queue!vars
<1>1. \E out_re \in BOOLEAN :
        FifoTick(out_re) /\ got' = IF out_re /\ readable THEN dout ELSE None
  BY DEF Next, CpuWrite, CpuStatus, HostStatus, HostRead, NoAccess, have
<1>2. QED
  BY <1>1, FifoTickRefines DEF IInv

\* Bytes leave the Messible in the order in which they came, none twice, and
\* only a full queue drops one (rtl/messible.py:26).
THEOREM IsALossyQueue == Spec => ImplementsLossyQueue
<1>1. Init => Queue!Init
  BY DEF Init, Queue!Init
<1>2. IInv /\ [Next]_vars => [Queue!Next]_Queue!vars
  BY StepRefines
<1>3. QED
  BY Invariance, <1>1, <1>2, PTL DEF Spec, Queue!Spec, ImplementsLossyQueue
=============================================================================
