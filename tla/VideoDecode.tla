---------------------------- MODULE VideoDecode ----------------------------
(***************************************************************************)
(* handleVideoFrame of cmd/beefkvm/main.go with the decoders it hands its  *)
(* frames to: a palette update, a run-length tile or an Avocent tile, one  *)
(* at a time under b.fbMu, into one framebuffer.                           *)
(*                                                                         *)
(* A frame is a record whose kind is "palette" (with start, count and      *)
(* body), one of Depths (origin and data) or "tile" (a whole Avocent       *)
(* packet; its fragments are put together in FramePush and KvmSession).    *)
(***************************************************************************)
EXTENDS RunLength, TileDecode

CONSTANT Streams  \* sequences of frames the BMC may send

Byte == 0..255
Frame ==
    [kind : {"palette"}, start : Nat, count : Nat, body : Seq(Byte)] \cup
    [kind : Depths, origin : Nat, data : Seq(Byte)] \cup
    [kind : {"tile"}, mode : {0, 1}, lumaQ : 0..15, chromaQ : 0..15,
     x : Nat, y : Nat, w : Nat, h : Nat, body : Seq({0, 1})]

ASSUME StreamsAssumption == Streams \subseteq Seq(Frame)

VARIABLE stream  \* the frames still to come

vars == <<stream, fb, raw, avo>>

Init == FbInit /\ RawInit /\ TileInit /\ stream \in Streams

\* fbMu is free.
Idle == dec = "none" /\ at = "idle"

Comes(kinds) == Idle /\ stream # <<>> /\ Head(stream).kind \in kinds /\ stream' = Tail(stream)

\* Entries of 4 bytes if there are enough of them, else of 3; the first stands
\* for the colour.  Everything below the first slot of the update turns zero.
handlePaletteUpdate(start, count, body) ==
    LET n == IF start + count > Slots THEN Slots - start ELSE count
        entrySize == IF Len(body) >= n * 4 THEN 4 ELSE 3
        entry(i) == IF i < start THEN 0 ELSE Black + body[(i - start) * entrySize + 1]
    IN  IF n <= 0 \/ Len(body) < n * 3
        THEN pal
        ELSE [i \in DOMAIN pal |-> IF i < start + n THEN entry(i) ELSE pal[i]]

PaletteUpdate ==
    /\ Comes({"palette"})
    /\ LET f == Head(stream) IN pal' = handlePaletteUpdate(f.start, f.count, f.body)
    /\ UNCHANGED <<fb, dec, in, avo>>

\* A tile whose origin is outside the framebuffer starts where the last ended.
RawTile ==
    /\ Comes(Depths)
    /\ LET f == Head(stream)
       IN  /\ cur' = IF f.origin < size THEN f.origin ELSE cur
           /\ dec' = f.kind
           /\ in' = f.data
    /\ UNCHANGED <<px, dirty, pal, avo>>

AvoTile ==
    /\ Comes({"tile"})
    /\ DecodePacket(Head(stream))
    /\ UNCHANGED raw

\* pushLoop takes the screen between two frames.
Push ==
    /\ Idle /\ dirty
    /\ dirty' = FALSE
    /\ UNCHANGED <<stream, px, cur, raw, avo>>

Decoding == \/ RawNext /\ UNCHANGED <<stream, avo>>
            \/ TileNext /\ UNCHANGED <<stream, raw>>

Next == PaletteUpdate \/ RawTile \/ AvoTile \/ Push \/ Decoding

\* The goroutine that holds fbMu runs.
Fairness == WF_vars(Decoding)

Spec == Init /\ [][Next]_vars /\ Fairness

---------------------------------------------------------------------------
(* Properties *)

TypeOK ==
    /\ px \in [0..(size - 1) -> Colours]
    /\ cur \in 0..size
    /\ dirty \in BOOLEAN
    /\ stream \in Seq(Frame)
    /\ dec \in Depths \cup {"none"} /\ in \in Seq(Byte)
    /\ pal \in [0..(Slots - 1) -> Nat]
    /\ at \in {"idle", "op", "dc", "ac"} /\ rest \in Seq({0, 1})
    /\ mode \in {0, 1}
    /\ quant \in [Channels -> 0..7]
    /\ tile \in [x : Nat, y : Nat, w : Nat, h : Nat]
    /\ jb \in Nat /\ kb \in Nat /\ moved \in BOOLEAN
    /\ blk \in 1..6 /\ k \in 1..(B * B + MaxRun)
    /\ entropy \in 0..2

\* The run-length decoders write nothing but the pixels their cursor passes
\* (and the first one, when a colour finds the cursor at the end), decoders
\* change the screen only while they hold a frame, and no change is left
\* unmarked: what pushLoop and FramePush rely on.
Change ==
    px' # px =>
        /\ dirty'
        /\ ~Idle
        /\ dec # "none" =>
            \A i \in DOMAIN px :
                px'[i] # px[i] => i \in cur..(cur' - 1) \/ (cur \notin DOMAIN px /\ i = 0 /\ cur' = 1)
WritesForward == [][Change]_vars

\* Wherever a block is decoded, at most one symbol's code is a prefix of the
\* bits to come, the table search finds it if there is one, and finds no other:
\* the canonical tables and their ranges per length agree with the codes.
HuffmanSound ==
    at \in {"dc", "ac"} =>
        LET tab == IF at = "dc" THEN DcTab[channel] ELSE AcTab[channel]
            C == Candidates(tab, rest)
        IN  IF matches(tab, rest)
            THEN /\ C = {codeIndex(tab, rest)}
                 /\ codeLength(tab, rest) = LengthOf(tab, codeIndex(tab, rest))
            ELSE C = {}

\* An MCU covers all the pixels of its square that are on the screen; a luma
\* sample shows at its place in its block and the block at its place in the
\* grid, a chroma sample or selector over its whole share of the square.
PaintExact ==
    mcu.kind # "none" =>
        LET e == q \div B
        IN  /\ {<<mcu.x + p[1], mcu.y + p[2]>> : p \in DOMAIN mcu.dots} =
                   (mcu.x..(mcu.x + q - 1) \cap 0..(FbW - 1)) \X (mcu.y..(mcu.y + q - 1) \cap 0..(FbH - 1))
            /\ \A p \in DOMAIN mcu.dots :
                LET d == mcu.dots[p]
                IN  /\ p[1] - e * (d[3] % B) \in 0..(e - 1)
                    /\ p[2] - e * (d[3] \div B) \in 0..(e - 1)
                    /\ mcu.kind = "dct" =>
                        p = <<B * (d[1] % 2) + (d[2] % B), B * (d[1] \div 2) + d[2] \div B>>

\* MCUs that no positioned opcode has put elsewhere stay in their tile, which
\* advancePos wraps at ("not the framebuffer": that would smear the tile).
RasterInTile ==
    (mcu.kind # "none" /\ tile.w >= q /\ tile.h >= q) =>
        mcu.moved \/ (mcu.x + q <= tile.x + tile.w /\ mcu.y + q <= tile.y + tile.h)

\* Decoding ends for every input, truncated or not: reads beyond the end and
\* codes that match nothing must not keep fbMu for ever.
DecodeEnds == ~Idle ~> Idle
===========================================================================
