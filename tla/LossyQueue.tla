----------------------------- MODULE LossyQueue ------------------------------
(***************************************************************************)
(* What the Messible promises to its two users: bytes come out in the      *)
(* order in which they went in, none twice; a byte written while fewer     *)
(* than Depth are waiting goes in, one written while more than Depth are   *)
(* waiting is dropped.                                                     *)
(***************************************************************************)
EXTENDS Sequences, Naturals

CONSTANTS Depth, None

VARIABLES inp,   \* input: the byte written with this clock, or None
          q,     \* bytes that went in and did not come out yet
          got    \* the byte taken with the last clock, or None

vars == <<inp, q, got>>

Init == q = <<>> /\ got = None

\* What becomes of the byte on inp when rest is left of q.
Store(rest) ==
    \/ (inp = None \/ Len(q) >= Depth) /\ q' = rest
    \/ inp # None /\ Len(q) <= Depth /\ q' = Append(rest, inp)

Keep == got' = None /\ Store(q)

Take ==
    /\ q # <<>>
    /\ got' = Head(q)
    /\ Store(Tail(q))

Next == Keep \/ Take

Spec == Init /\ [][Next]_vars
=============================================================================
