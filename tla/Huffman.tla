------------------------------ MODULE Huffman ------------------------------
(***************************************************************************)
(* The canonical Huffman tables of internal/video/avocent_dct.go.  A table *)
(* is given as in the code: bits, how many codes there are of each length, *)
(* and vals, the symbols in the order of their codes.                      *)
(***************************************************************************)
EXTENDS Integers, SequencesExt

\* 1 << n
pow2[n \in Nat] == IF n = 0 THEN 1 ELSE 2 * pow2[n - 1]

\* The number in the first n bits of s, which reads as zeros beyond its end.
bitAt(s, i) == IF i <= Len(s) THEN s[i] ELSE 0

peekBits(s, n) ==
    LET v[i \in Nat] == IF i = 0 THEN 0 ELSE 2 * v[i - 1] + bitAt(s, i)
    IN  v[n]

\* consume
Drop(s, n) == SubSeq(s, n + 1, Len(s))

\* The first code of each length: one past the last of the length before,
\* with a bit appended.
newAvoHuffUnshifted(bits) ==  \* mutant: code is doubled only where there are codes
    LET code[l \in 1..Len(bits)] ==
            IF l = 1 THEN 0 ELSE (code[l - 1] + bits[l - 1]) * (IF bits[l - 1] = 0 THEN 1 ELSE 2)
    IN  code

newAvoHuff(bits) ==
    LET code[l \in 1..Len(bits)] == IF l = 1 THEN 0 ELSE 2 * (code[l - 1] + bits[l - 1])
    IN  code

\* How many symbols have codes of at most each length; vi of newAvoHuff.
symbolsUpTo(bits) ==
    LET vi[l \in 0..Len(bits)] == IF l = 0 THEN 0 ELSE vi[l - 1] + bits[l]
    IN  vi

\* The lengths whose range of codes the next bits fall into, shortest first.
matching(tab, s) ==
    LET code == newAvoHuff(tab.bits)
    IN  {l \in 1..Len(tab.bits) : peekBits(s, l) \in code[l]..(code[l] + tab.bits[l] - 1)}

matches(tab, s) == matching(tab, s) # {}

codeLength(tab, s) == Min(matching(tab, s))

\* Symbols of shorter codes come first in vals.
codeIndex(tab, s) ==
    LET l == codeLength(tab, s)
    IN  1 + symbolsUpTo(tab.bits)[l - 1] + peekBits(s, l) - newAvoHuff(tab.bits)[l]

decodeHuffSymbol(tab, s) == tab.vals[codeIndex(tab, s)]

---------------------------------------------------------------------------
(* Reference: the code of each symbol on its own.  Codes fill the unit      *)
(* interval from the left, a code of length l taking 2^-l of it, and a      *)
(* stream of bits starts with the code whose part it points into.           *)

LengthOf(tab, v) == Min({l \in 1..Len(tab.bits) : symbolsUpTo(tab.bits)[l] >= v})

\* Where the codes of the first v symbols end, in units of the longest code.
Taken(tab) ==
    LET end[v \in 0..Len(tab.vals)] ==
            IF v = 0 THEN 0 ELSE end[v - 1] + pow2[Len(tab.bits) - LengthOf(tab, v)]
    IN  end

\* The places in vals of the symbols whose code the bits of s start with.
Candidates(tab, s) ==
    LET end == Taken(tab)
        x == peekBits(s, Len(tab.bits))
    IN  {v \in 1..Len(tab.vals) : x \in end[v - 1]..(end[v] - 1)}

\* A table of symbols of S: as many symbols as there are codes.
Table(S) ==
    {tab \in [bits : Seq(Nat), vals : Seq(S)] : Len(tab.vals) = symbolsUpTo(tab.bits)[Len(tab.bits)]}
===========================================================================
