---------------------------- MODULE Framebuffer ----------------------------
(***************************************************************************)
(* The framebuffer of internal/video/decoder.go: pixels in rows, the write *)
(* cursor of the run-length decoders and the Dirty flag pushLoop looks at. *)
(* Both decoders of the bridge write into this one buffer, one at a time   *)
(* (b.fbMu).                                                               *)
(*                                                                         *)
(* Colours are numbers: 0 is the zero value, Black opaque black, Black + v *)
(* the opaque colour v of its depth, and Painted any colour the tile       *)
(* decoder computes.                                                       *)
(***************************************************************************)
EXTENDS Integers, SequencesExt

CONSTANTS FbW, FbH  \* width and height of the framebuffer

ASSUME SizeAssumption == FbW \in Nat \ {0} /\ FbH \in Nat \ {0}

VARIABLES px,    \* fb.Pixels
          cur,   \* fb.Cur
          dirty  \* fb.Dirty

fb == <<px, cur, dirty>>

Black == 1
Painted == -1
Colours == Nat \cup {Painted}

size == FbW * FbH

LessOf(a, b) == IF a <= b THEN a ELSE b

\* NewFramebuffer: all pixels have the zero value.
FbInit ==
    /\ px = [i \in 0..(size - 1) |-> 0]
    /\ cur = 0
    /\ dirty = FALSE

getPixel(i) == IF i \in 0..(size - 1) THEN px[i] ELSE Black

\* Where n pixels from the cursor end.
runEnd(n) == LessOf(cur + n, size)
span(n) == cur..(runEnd(n) - 1)

\* Pixels c(i) for the i of the next n, and the cursor behind them.
writePixels(n, c(_)) ==
    /\ px' = [i \in DOMAIN px |-> IF i \in span(n) THEN c(i) ELSE px[i]]
    /\ cur' = runEnd(n)
    /\ dirty' = TRUE

\* A run of length zero does nothing and does not mark the buffer.
repeatColor(c, n) ==
    IF n = 0 THEN UNCHANGED fb ELSE writePixels(n, LAMBDA i : c)

\* The pixels from src on, one after the other: a copy longer than its distance
\* reads what it has just written, so the distance is repeated.
copyFromPrev(src, n) ==
    IF n = 0 \/ src < 0
    THEN UNCHANGED fb
    ELSE writePixels(n, LAMBDA i : px[src + ((i - cur) % (cur - src))])

\* One pixel; a cursor behind the last one starts again at the first.
putPixelUnmarked(c) ==  \* mutant: Dirty is not set
    LET at == IF cur \in DOMAIN px THEN cur ELSE 0
    IN  /\ px' = [px EXCEPT ![at] = c]
        /\ cur' = at + 1
        /\ UNCHANGED dirty

putPixel(c) ==
    LET at == IF cur \in DOMAIN px THEN cur ELSE 0
    IN  /\ px' = [px EXCEPT ![at] = c]
        /\ cur' = at + 1
        /\ dirty' = TRUE
===========================================================================
