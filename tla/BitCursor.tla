----------------------------- MODULE BitCursor -----------------------------
(***************************************************************************)
(* What the Avocent decoder needs of its bit reader: a cursor over the     *)
(* packet's bits, extended with zeros, and a window on the next W of them. *)
(* AvoBits implements it with the two registers of avocent.go.             *)
(***************************************************************************)
EXTENDS Naturals

CONSTANT W  \* bits in the window, 32 in the code

VARIABLES bits,    \* the bits of the body, in reading order
          length,  \* how many there are
          cursor,  \* bits consumed so far
          window   \* the next W bits

vars == <<bits, length, cursor, window>>

\* Bit k of stream s of l bits; beyond its end the stream reads as zeros.
BitAt(s, l, k) == IF k < l THEN s[k] ELSE 0

Window(s, l, k) == [i \in 0..(W - 1) |-> BitAt(s, l, k + i)]

Init ==
    /\ length \in Nat
    /\ bits \in [0..(length - 1) -> {0, 1}]
    /\ cursor = 0
    /\ window = Window(bits, length, 0)

\* consume(n) moves the cursor n bits on, over the end too.
Consume(n) ==
    /\ cursor' = cursor + n
    /\ window' = Window(bits, length, cursor + n)
    /\ UNCHANGED <<bits, length>>

Next == \E n \in 1..W : Consume(n)

Spec == Init /\ [][Next]_vars
===========================================================================
