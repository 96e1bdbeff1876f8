---------------------------- MODULE TileDecode ----------------------------
(***************************************************************************)
(* The Avocent tile decoder: the opcode loop, the palette cache and the    *)
(* MCU raster of internal/video/avocent.go and the block decoder of        *)
(* avocent_dct.go.  The bit reader is the cursor AvoBits implements, so    *)
(* rest is what is left of the body and reads as zeros beyond its end.     *)
(* Coefficients, predictors and colours are left out: which bits are       *)
(* consumed, where MCUs go and which sample each pixel takes are not.      *)
(***************************************************************************)
EXTENDS Framebuffer, Huffman

CONSTANTS B,          \* edge of a block, 8 in the code
          WordBits,   \* bits of a word of the body, 32
          PosBits,    \* bits of an MCU coordinate in a positioned opcode, 8
          ColorBits,  \* bits of a colour in a palette refresh, 24
          MaxRun,     \* run of the ZRL symbol, 15
          DcTab,      \* tables avoDcLuma and avoDcChroma; a symbol is a bit count
          AcTab       \* tables avoAcLuma and avoAcChroma; a symbol is a run and a bit count

Channels == {"luma", "chroma"}

Zeros == <<>>

ASSUME BlockAssumption == B \in Nat \ {0} /\ MaxRun \in Nat
ASSUME BitsAssumption == WordBits \in Nat \ {0} /\ PosBits \in Nat /\ ColorBits \in Nat

\* The run and the bit count of a symbol are a nibble each in the code.
ASSUME TableAssumption ==
    \A ch \in Channels :
        DcTab[ch] \in Table(Nat) /\ AcTab[ch] \in Table([r : 0..MaxRun, s : Nat])

\* As in the tables of the code, zeros alone never read as a run without a
\* coefficient that is neither EOB nor ZRL: decodeDCTBlock would not leave it.
ASSUME AcAssumption ==
    \A ch \in Channels :
        matches(AcTab[ch], Zeros) =>
            \/ decodeHuffSymbol(AcTab[ch], Zeros).s > 0
            \/ decodeHuffSymbol(AcTab[ch], Zeros).r \in {0, MaxRun}

VARIABLES
    at,       \* where decodeBody stands: "idle", "op", "dc" or "ac"
    rest,     \* the bits of the body that are not consumed
    mode,     \* d.mode
    quant,    \* which tables d.qY and d.qC are
    tile,     \* d.tileX, d.tileY, d.tileW, d.tileH
    jb, kb,   \* column and row of the next MCU
    blk, k,   \* block of the MCU and zigzag position in it
    entropy,  \* d.vb.entropy: bits per palette selector
    mcu,      \* the last MCU of the packet: its corner, and the samples its pixels show
    moved     \* a positioned opcode has set kb since it was last reset

pos == <<jb, kb, moved>>
dct == <<blk, k>>
params == <<mode, quant, tile>>
avo == <<at, rest, params, pos, dct, entropy, mcu>>

NoMcu == [kind |-> "none"]

\* NewAvocentDecoder
TileInit ==
    /\ at = "idle" /\ rest = <<>>
    /\ mode = 0
    /\ quant = [luma |-> 7, chroma |-> 7]
    /\ tile = [x |-> 0, y |-> 0, w |-> 0, h |-> 0]
    /\ jb = 0 /\ kb = 0 /\ moved = FALSE
    /\ blk = 1 /\ k = 1
    /\ entropy = 0
    /\ mcu = NoMcu

\* Pixels per MCU and direction, d.q.
q == IF mode = 1 THEN 2 * B ELSE B

\* SetMode's choice of a table for a nibble of the header.
tableOf(v) == IF 7 - v < 0 THEN 7 ELSE 7 - v

---------------------------------------------------------------------------
(* The MCU raster *)

\* MCUs per row and rows of the tile, or of the framebuffer when the tile has
\* not a whole one.
cols == IF tile.w \div q > 0 THEN tile.w \div q ELSE FbW \div q
rows == IF tile.h \div q > 0 THEN tile.h \div q ELSE FbH \div q

\* From MCU <<j, r>> to the next: right, then down, then from the top again.
advancePosFb(j, r, m) ==  \* mutant: wraps at the width of the framebuffer
    /\ moved' = (m /\ (j + 1 < cols \/ r + 1 < rows))
    /\ jb' = IF j + 1 >= FbW \div q THEN 0 ELSE j + 1
    /\ kb' = IF j + 1 < FbW \div q THEN r ELSE IF r + 1 >= rows THEN 0 ELSE r + 1

advancePos(j, r, m) ==
    /\ moved' = (m /\ (j + 1 < cols \/ r + 1 < rows))
    /\ jb' = IF j + 1 >= cols THEN 0 ELSE j + 1
    /\ kb' = IF j + 1 < cols THEN r ELSE IF r + 1 >= rows THEN 0 ELSE r + 1

\* The pixels of the framebuffer an MCU covers, by their place in the MCU.
inside(x0, y0) ==
    {p \in (0..(q - 1)) \X (0..(q - 1)) : x0 + p[1] \in 0..(FbW - 1) /\ y0 + p[2] \in 0..(FbH - 1)}

\* Paint the MCU at <<j, r>>; its pixel <<dx, dy>> shows the luma sample
\* sample(dx, dy)[2] of block sample(dx, dy)[1] and chroma sample sample(dx, dy)[3].
paint(kind, j, r, m, sample(_, _)) ==
    LET x0 == tile.x + j * q
        y0 == tile.y + r * q
        P == inside(x0, y0)
    IN  /\ mcu' = [kind |-> kind, x |-> x0, y |-> y0, moved |-> m,
                   dots |-> [p \in P |-> sample(p[1], p[2])]]
        /\ px' = [i \in DOMAIN px |->
                    IF <<(i % FbW) - x0, (i \div FbW) - y0>> \in P THEN Painted ELSE px[i]]
        /\ dirty' = TRUE
        /\ UNCHANGED cur

---------------------------------------------------------------------------
(* decodeBody *)

\* DecodePacket: the header is applied, the body cut to whole words.
DecodePacket(p) ==
    LET body == SubSeq(p.body, 1, (Len(p.body) \div WordBits) * WordBits)
    IN  /\ at = "idle"
        /\ mode' = p.mode
        /\ quant' = [luma |-> tableOf(p.lumaQ), chroma |-> tableOf(p.chromaQ)]
        /\ IF body = <<>>
           THEN UNCHANGED <<at, rest, tile, pos>>
           ELSE /\ at' = "op"
                /\ rest' = body
                /\ tile' = [x |-> p.x, y |-> p.y, w |-> p.w, h |-> p.h]
                /\ jb' = 0 /\ kb' = 0 /\ moved' = FALSE
        /\ mcu' = NoMcu
        /\ UNCHANGED <<fb, dct, entropy>>

opcode == peekBits(rest, 4)

Reading(opcodes) == at = "op" /\ rest # <<>> /\ opcode \in opcodes

\* The body is consumed, or an END or unknown opcode halts it.
DecodeEnd ==
    /\ at = "op"
    /\ rest = <<>> \/ opcode \in {1, 2, 3, 9, 10, 11}
    /\ at' = "idle"
    /\ rest' = <<>>
    /\ UNCHANGED <<fb, params, pos, dct, entropy, mcu>>

\* An opcode from 8 on carries the MCU's column and row.
positioned == opcode >= 8
column == IF positioned THEN peekBits(Drop(rest, 4), PosBits) ELSE jb
row == IF positioned THEN peekBits(Drop(rest, 4 + PosBits), PosBits) ELSE kb
afterOpcode == Drop(rest, IF positioned THEN 4 + 2 * PosBits ELSE 4)

StartDCT ==
    /\ Reading({0, 8})
    /\ at' = "dc" /\ blk' = 1
    /\ jb' = column /\ kb' = row /\ moved' = (moved \/ positioned)
    /\ rest' = afterOpcode
    /\ UNCHANGED <<fb, params, k, entropy, mcu>>

\* A palette tile: B * B selectors of bpp bits; in mode 1 each of them shows in
\* 2 x 2 pixels.
selector(dx, dy) ==
    LET e == q \div B
    IN  CHOOSE i \in 0..(B * B - 1) : dx - e * (i % B) \in 0..(e - 1) /\ dy - e * (i \div B) \in 0..(e - 1)

paintPaletteBlock(s, bpp) ==
    /\ rest' = Drop(s, B * B * bpp)
    /\ paint("palette", column, row, moved \/ positioned,
             LAMBDA dx, dy : <<0, selector(dx, dy), selector(dx, dy)>>)
    /\ advancePos(column, row, moved \/ positioned)

\* Paint from the palette as it is cached.
PaintCached ==
    /\ Reading({4, 12})
    /\ paintPaletteBlock(afterOpcode, entropy)
    /\ UNCHANGED <<at, params, dct, entropy>>

\* One slot of a refresh: its index, and the colour when the first bit is set.
loadSlot(s) == Drop(s, IF peekBits(s, 1) = 1 THEN 3 + ColorBits ELSE 3)

loadSlots(s, n) ==
    LET after[i \in 0..n] == IF i = 0 THEN s ELSE loadSlot(after[i - 1])
    IN  after[n]

\* Opcodes 5, 6 and 7 refresh 1, 2 and 4 slots for selectors of 0, 1 and 2 bits.
PaletteRefresh ==
    /\ Reading({5, 6, 7, 13, 14, 15})
    /\ LET e == (opcode % 8) - 5
       IN  /\ entropy' = e
           /\ paintPaletteBlock(loadSlots(afterOpcode, pow2[e]), e)
    /\ UNCHANGED <<at, params, dct>>

---------------------------------------------------------------------------
(* decodeDCTBlock and dispatchDCT *)

\* One Y block or a 2 x 2 grid of them, then Cb and Cr.
blocks == IF mode = 0 THEN 3 ELSE 6
channel == IF blk <= blocks - 2 THEN "luma" ELSE "chroma"

\* The DC symbol and its value; without a match nothing is consumed.
DecodeDC ==
    LET tab == DcTab[channel]
    IN  /\ at = "dc"
        /\ at' = "ac" /\ k' = 1
        /\ rest' = IF matches(tab, rest)
                   THEN Drop(rest, codeLength(tab, rest) + decodeHuffSymbol(tab, rest))
                   ELSE rest
        /\ UNCHANGED <<fb, params, pos, blk, entropy, mcu>>

\* No code matches: one coefficient is skipped and nothing consumed.
SkipStays ==  \* mutant: the position stays as well
    /\ at = "ac" /\ k < B * B
    /\ ~matches(AcTab[channel], rest)
    /\ UNCHANGED <<fb, avo>>

Skip ==
    /\ at = "ac" /\ k < B * B
    /\ ~matches(AcTab[channel], rest)
    /\ k' = k + 1
    /\ UNCHANGED <<fb, at, rest, params, pos, blk, entropy, mcu>>

\* EOB ends the block, ZRL skips MaxRun + 1 coefficients, another run without a
\* value is dropped, and a coefficient beyond the block's end is not read.
DecodeAC ==
    LET tab == AcTab[channel]
        sym == decodeHuffSymbol(tab, rest)
        s == Drop(rest, codeLength(tab, rest))
    IN  /\ at = "ac" /\ k < B * B
        /\ matches(tab, rest)
        /\ \/ sym.s = 0 /\ sym.r = 0 /\ k' = B * B /\ rest' = s
           \/ sym.s = 0 /\ sym.r # 0 /\ sym.r = MaxRun /\ k' = k + MaxRun + 1 /\ rest' = s
           \/ sym.s = 0 /\ sym.r # 0 /\ sym.r # MaxRun /\ k' = k /\ rest' = s
           \/ sym.s > 0 /\ k + sym.r >= B * B /\ k' = k + sym.r /\ rest' = s
           \/ sym.s > 0 /\ k + sym.r < B * B /\ k' = k + sym.r + 1 /\ rest' = Drop(s, sym.s)
        /\ UNCHANGED <<fb, at, params, pos, blk, entropy, mcu>>

NextBlock ==
    /\ at = "ac" /\ k >= B * B
    /\ blk < blocks
    /\ blk' = blk + 1
    /\ at' = "dc"
    /\ UNCHANGED <<fb, rest, params, pos, k, entropy, mcu>>

\* The samples a pixel of a DCT tile shows.
dctSampleByColumn(dx, dy) ==  \* mutant: the Y blocks are taken column by column
    <<(dx \div B) * 2 + dy \div B, (dy % B) * B + (dx % B),
      (dy \div (q \div B)) * B + dx \div (q \div B)>>

dctSample(dx, dy) ==
    <<(dy \div B) * 2 + dx \div B, (dy % B) * B + (dx % B),
      (dy \div (q \div B)) * B + dx \div (q \div B)>>

PaintDCT ==
    /\ at = "ac" /\ k >= B * B
    /\ blk = blocks
    /\ paint("dct", jb, kb, moved, dctSample)
    /\ advancePos(jb, kb, moved)
    /\ at' = "op"
    /\ UNCHANGED <<rest, params, dct, entropy>>

TileNext ==
    \/ DecodeEnd \/ StartDCT \/ PaintCached \/ PaletteRefresh
    \/ DecodeDC \/ Skip \/ DecodeAC \/ NextBlock \/ PaintDCT
===========================================================================
