------------------------------ MODULE AvoBits ------------------------------
(***************************************************************************)
(* The bit reader of internal/video/avocent.go: fill, readWord and consume *)
(* over the registers nb and mb.  A register is a function from bit number *)
(* (0 is the most significant) to {0, 1}; <<, >> and | are Go's on such    *)
(* words, so a bit that lands on another one corrupts it.                  *)
(***************************************************************************)
EXTENDS Naturals

CONSTANTS W,         \* width of a register, 32 in the code
          Order,     \* byte order: bit i of a word is raw bit Order[i] of its four bytes
          MaxWords,  \* bound: words in a body
          Slack      \* bound: bits consumed past the end of the body

ASSUME WidthAssumption == W \in Nat \ {0}
ASSUME OrderAssumption == Order \in [0..(W - 1) -> 0..(W - 1)]
ASSUME BoundsAssumption == MaxWords \in Nat /\ Slack \in Nat

VARIABLES src,        \* the raw bits of d.src, in the order they arrive
          words,      \* len(d.src)/4; DecodePacket cuts the body to whole words
          nb, mb,     \* d.nb and d.mb
          ob,         \* d.ob: valid bits at the top of mb
          pos,        \* words read so far, d.pos/4
          consumedB   \* bits consumed so far

vars == <<src, words, nb, mb, ob, pos, consumedB>>

Word == [0..(W - 1) -> {0, 1}]
Zero == [i \in 0..(W - 1) |-> 0]

shl(x, n) == [i \in 0..(W - 1) |-> IF i + n < W THEN x[i + n] ELSE 0]
shr(x, n) == [i \in 0..(W - 1) |-> IF n <= i THEN x[i - n] ELSE 0]
or(x, y) == [i \in 0..(W - 1) |-> IF x[i] = 1 \/ y[i] = 1 THEN 1 ELSE 0]

\* readWord's packing with bytes of b bits when BitOrderLE is set: the word's
\* most significant byte is the last one that arrived.
LittleEndian(b) == [i \in 0..(W - 1) |-> (W - b) - b * (i \div b) + (i % b)]

readWord(k) == [i \in 0..(W - 1) |-> src[W * k + Order[i]]]

\* The word consume shifts in: the next one, or zeros when there is none left.
refillShort == IF pos + 1 < words THEN readWord(pos) ELSE Zero  \* mutant: d.pos+4 < len(d.src)
refill == IF pos < words THEN readWord(pos) ELSE Zero

TypeOK ==
    /\ words \in 0..MaxWords
    /\ src \in [0..(W * words - 1) -> {0, 1}]
    /\ nb \in Word /\ mb \in Word
    /\ ob \in 0..W
    /\ pos \in 0..words
    /\ consumedB \in Nat

\* decodeBody resets the registers and fill primes nb and, when there is a
\* second word, mb.
Init ==
    /\ words \in 0..MaxWords
    /\ src \in [0..(W * words - 1) -> {0, 1}]
    /\ nb = IF words >= 1 THEN readWord(0) ELSE Zero
    /\ mb = IF words >= 2 THEN readWord(1) ELSE Zero
    /\ ob = IF words >= 2 THEN W ELSE 0
    /\ pos = IF words >= 2 THEN 2 ELSE words
    /\ consumedB = 0

\* Path A: more than n bits are left in mb.
ShiftOnly(n) ==
    /\ n < ob
    /\ nb' = or(shl(nb, n), shr(mb, W - n))
    /\ mb' = shl(mb, n)
    /\ ob' = ob - n
    /\ pos' = pos

\* Path B: n or fewer; the next word fills up both registers.
RefillNoOffset(n) ==  \* mutant: the new word is not moved past the bits nb took
    /\ ob <= n
    /\ nb' = or(shl(nb, n), shr(or(mb, shr(refill, ob)), W - n))
    /\ mb' = shl(refill, n)
    /\ ob' = W + ob - n
    /\ pos' = IF pos < words THEN pos + 1 ELSE pos

RefillCountsOn(n) ==  \* mutant: a read past the end still advances pos
    /\ ob <= n
    /\ nb' = or(shl(nb, n), shr(or(mb, shr(refill, ob)), W - n))
    /\ mb' = shl(refill, n - ob)
    /\ ob' = W + ob - n
    /\ pos' = pos + 1

Refill(n) ==
    /\ ob <= n
    /\ nb' = or(shl(nb, n), shr(or(mb, shr(refill, ob)), W - n))
    /\ mb' = shl(refill, n - ob)
    /\ ob' = W + ob - n
    /\ pos' = IF pos < words THEN pos + 1 ELSE pos

\* consume(n).  For n = W the code tells shifts by W apart; Go's << and >>, and
\* shl and shr here, give zeros for them, so the general path covers it.
Consume(n) ==
    /\ consumedB' = consumedB + n
    /\ ShiftOnly(n) \/ Refill(n)
    /\ UNCHANGED <<src, words>>

\* decodeBody goes on while the body is not consumed; inside a block it may
\* run past the end.
Next ==
    \E n \in 1..W :
        /\ consumedB + n <= W * words + Slack
        /\ Consume(n)

Spec == Init /\ [][Next]_vars

---------------------------------------------------------------------------
(* Properties *)

\* The body's bits in reading order, as readWord delivers them.
length == W * words
bits == [k \in 0..(length - 1) |-> readWord(k \div W)[k % W]]

Cursor == INSTANCE BitCursor WITH cursor <- consumedB, window <- nb

\* The reader is a plain cursor over the zero-extended body: the split of the
\* look-ahead over nb and mb, the refills and the end of the body never show.
CursorSpec == Cursor!Spec

\* consume's stated invariant (avocent.go:499-501): nb holds the next W bits of
\* the stream and mb the ob bits after them, the rest zero.
WindowInv ==
    /\ nb = Cursor!Window(bits, length, consumedB)
    /\ mb = [i \in 0..(W - 1) |->
                IF i < ob THEN Cursor!BitAt(bits, length, consumedB + W + i) ELSE 0]
===========================================================================
