--------------------------- MODULE MCVideoDecode ---------------------------
(***************************************************************************)
(* A framebuffer of 5 x 4 pixels, blocks of 2 x 2 and short Huffman tables *)
(* that have every kind of symbol (a coefficient, a longer run, EOB, ZRL,  *)
(* a run without a value) and a length without codes; luma leaves codes    *)
(* over, chroma's bits of zero are EOB.                                    *)
(***************************************************************************)
EXTENDS VideoDecode

Rs(r, s) == [r |-> r, s |-> s]

MCDcTab == [luma   |-> [bits |-> <<1, 0, 2>>, vals |-> <<0, 2, 1>>],
            chroma |-> [bits |-> <<1, 1>>, vals |-> <<1, 0>>]]

MCAcTab == [luma   |-> [bits |-> <<0, 2, 0, 6>>,
                        vals |-> <<Rs(0, 1), Rs(0, 0), Rs(2, 0), Rs(1, 0), Rs(1, 1), Rs(0, 2), Rs(2, 1), Rs(0, 3)>>],
            chroma |-> [bits |-> <<1, 0, 3>>, vals |-> <<Rs(0, 0), Rs(2, 0), Rs(1, 1), Rs(1, 0)>>]]

---------------------------------------------------------------------------
(* Avocent packets: every body of a word, in both modes in a tile of whole  *)
(* MCUs, and in one that leaves the screen and one smaller than an MCU; and *)
(* some longer ones and ones that are no whole number of words.             *)

Tile(m, x, y, w, h, luma, body) ==
    [kind |-> "tile", mode |-> m, lumaQ |-> luma, chromaQ |-> 3, x |-> x, y |-> y, w |-> w, h |-> h, body |-> body]

Bodies(n) == [1..n -> {0, 1}]

TileStreams ==
    {<<Tile(t[1], t[2], t[3], t[4], t[5], t[6], b)>> :
        t \in {<<0, 0, 0, 4, 4, 0>>, <<1, 0, 0, 4, 4, 7>>, <<0, 3, 1, 4, 2, 7>>, <<1, 1, 2, 1, 1, 15>>},
        b \in Bodies(9)} \cup
    {<<Tile(0, 0, 0, 2, 4, 0, <<0, 1, 0, 1, 0, 1, 0, 0, 0>> \o b \o a), Tile(1, 4, 4, 4, 4, 9, <<1, 1>>)>> :
        a \in Bodies(6), b \in Bodies(3)}

---------------------------------------------------------------------------
(* Run-length tiles, and palettes before them *)

Bytes == {2, 32, 35, 69, 106, 122, 85, 129, 130}

Raw(d, o, data) == [kind |-> d, origin |-> o, data |-> data]

Pal(start, count, body) == [kind |-> "palette", start |-> start, count |-> count, body |-> body]

Palettes == {Pal(0, 2, <<5, 0, 0, 6, 0, 0>>), Pal(1, 1, <<7, 0, 0, 0>>), Pal(1, 9, <<8, 0, 0>>),
             Pal(3, 1, <<9, 0, 0>>), Pal(0, 2, <<9, 0, 0>>)}

RawStreams ==
    {<<Raw("gray7", 0, <<129, 130, 131, 132, 133, 134>>), Raw(d, 6, b)>> :
        d \in Depths, b \in SeqOf(Bytes, 2)} \cup
    {<<Raw("gray7", 9, <<129, 35, 130>>), Raw("gray7", o, b)>> : o \in {12, 20}, b \in SeqOf(Bytes, 3)} \cup
    {<<Raw("gray7", 18, <<129, 130, 131>>), p, Raw("palette7", 40, <<129, 128, b>>)>> :
        p \in Palettes, b \in Bytes}

MCStreams == TileStreams \cup RawStreams
===========================================================================
