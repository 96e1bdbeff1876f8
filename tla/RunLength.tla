----------------------------- MODULE RunLength -----------------------------
(***************************************************************************)
(* The run-length decoders of internal/video/decoder.go (frames 129 to 137 *)
(* but the DCT ones).  A tile's data is a sequence of bytes; in is what is *)
(* left of it, an opcode first, and one action is one turn of Decode's     *)
(* loop.                                                                   *)
(***************************************************************************)
EXTENDS Framebuffer

CONSTANT Slots  \* entries of a palette, 128 in the code

ASSUME SlotsAssumption == Slots \in Nat \ {0}

VARIABLES dec,  \* the depth of the decoder at work, or "none"
          in,   \* data[pos:]
          pal   \* the palette of dec7p

raw == <<dec, in, pal>>

\* dec7g, dec7p and dec15; the bridge makes no decoder of another depth.
Depths == {"gray7", "palette7", "rgb15"}

\* The default table: which colours it holds is left open, they are distinct.
paletteC7 == [i \in 0..(Slots - 1) |-> Black + i]

RawInit == dec = "none" /\ in = <<>> /\ pal = paletteC7

---------------------------------------------------------------------------
(* Parsing *)

\* The three high bits of an opcode.
Family(b) == b \div 32
Bit(b, mask) == (b \div mask) % 2 = 1

\* How many bytes go on with the run of the first one: at most 4, of its own
\* family.
continued(s) ==
    Max({n \in 0..LessOf(4, Len(s) - 1) : \A i \in 1..n : Family(s[i + 1]) = Family(s[1])})

\* Five bits of each of them, the opcode's the lowest.
readRunLength(s) ==
    LET n == continued(s)
        run[i \in 0..n] == (s[n + 1 - i] % 32) + (IF i = 0 THEN 0 ELSE 32 * run[i - 1])
    IN  run[n]

\* A pattern goes on as long as the byte before has bit 0x10 set.
patternTail(s) == Max({n \in 0..(Len(s) - 1) : \A i \in 1..n : Bit(s[i], 16)})

\* Bit n of a pattern: 4 bits of the opcode, then 7 of each byte after it.
pickBit(s, n) ==
    IF n <= 4 THEN Bit(s[1], 2^(4 - n))
              ELSE Bit(s[2 + (n - 5) \div 7], 2^(6 - ((n - 5) % 7)))

\* A colour of depth rgb15 takes the byte after its opcode too.
colorTail == IF dec = "rgb15" THEN 1 ELSE 0

readColor(s) ==
    CASE dec = "gray7"    -> Black + (s[1] % 128)
      [] dec = "palette7" -> pal[s[1] % Slots]
      [] dec = "rgb15"    -> Black + (s[1] % 128) * 256 + s[2]

---------------------------------------------------------------------------
(* Decode *)

Opcode(families) == dec # "none" /\ in # <<>> /\ Family(in[1]) \in families

\* A run's opcode and the bytes that go on with it are read.
RunRead == in' = SubSeq(in, 2 + continued(in), Len(in)) /\ UNCHANGED <<dec, pal>>

\* NOOP moves the cursor and marks the buffer all the same.
NoopUnbounded ==  \* mutant: the cursor is not clamped
    /\ Opcode({0})
    /\ cur' = cur + readRunLength(in)
    /\ dirty' = TRUE
    /\ RunRead
    /\ UNCHANGED px

Noop ==
    /\ Opcode({0})
    /\ cur' = runEnd(readRunLength(in))
    /\ dirty' = TRUE
    /\ RunRead
    /\ UNCHANGED px

\* REPEAT the pixel before the cursor.
Repeat ==
    /\ Opcode({1})
    /\ repeatColor(getPixel(cur - 1), readRunLength(in))
    /\ RunRead

\* COPY from the row above.
Copy ==
    /\ Opcode({2})
    /\ copyFromPrev(cur - FbW, readRunLength(in))
    /\ RunRead

\* The latest pixel that differs from the last one, a row back at most.
prevDistinct ==
    LET last == getPixel(cur - 1)
        K == {k \in (cur - 1 - LessOf(cur - 1, FbW))..(cur - 1) : k >= 0 /\ px[k] # last}
    IN  IF K = {} THEN last ELSE px[Max(K)]

\* PATTERN: each bit picks one of the two latest distinct pixels.
Pattern ==
    /\ Opcode({3})
    /\ writePixels(4 + 7 * patternTail(in),
                   LAMBDA i : IF pickBit(in, i - cur + 1) THEN prevDistinct ELSE getPixel(cur - 1))
    /\ in' = SubSeq(in, 2 + patternTail(in), Len(in))
    /\ UNCHANGED <<dec, pal>>

Color ==
    /\ Opcode(4..7)
    /\ Len(in) > colorTail
    /\ putPixel(readColor(in))
    /\ in' = SubSeq(in, 2 + colorTail, Len(in))
    /\ UNCHANGED <<dec, pal>>

\* The error return of readColor ends the tile.
TruncatedColor ==
    /\ Opcode(4..7)
    /\ Len(in) <= colorTail
    /\ dec' = "none"
    /\ in' = <<>>
    /\ UNCHANGED <<fb, pal>>

DecodeReturn ==
    /\ dec # "none" /\ in = <<>>
    /\ dec' = "none"
    /\ UNCHANGED <<fb, in, pal>>

RawNext == Noop \/ Repeat \/ Copy \/ Pattern \/ Color \/ TruncatedColor \/ DecodeReturn
===========================================================================
