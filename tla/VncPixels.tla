------------------------------- MODULE VncPixels -------------------------------
(***************************************************************************)
(* The pixel codings of VNC: Hextile and ZRLE, tile by tile                *)
(* (plugins/vnc/src/decode.rs), and the filters of Tight                   *)
(* (plugins/vnc/src/performance.rs).  The server encodes the next tile of  *)
(* a picture in any way the protocol gives it, and the client decodes it   *)
(* into the rectangle it fills.                                            *)
(*                                                                         *)
(* Bytes have ByteBits bits, so that a small tile already has packed rows  *)
(* that end inside a byte, run lengths that need a second byte and         *)
(* predictions that are clamped and wrap.  A colour is its three channels, *)
(* as the client keeps them.                                               *)
(***************************************************************************)
EXTENDS Integers, Sequences
LOCAL INSTANCE SequencesExt

CONSTANTS Colours, Width, Height,   \* of the rectangle
          Pictures,                 \* bound: those the server draws
          Tile,                     \* VNC_HEXTILE_TILE_SIZE, VNC_ZRLE_TILE_SIZE
          ByteBits

VARIABLES
    coding,           \* of the rectangle being read
    picture, target,  \* what the server draws, what the client has decoded
    next,             \* the next tile
    state,            \* HextileState: the colours that carry over to the next tile
    encoder,          \* the server's
    failed            \* the rectangle is refused

vars == <<coding, picture, target, next, state, encoder, failed>>

None     == <<>>
Channels == 1 .. 3
ByteMax  == 2 ^ ByteBits - 1
Half     == 2 ^ (ByteBits \div 2)    \* a nibble's worth
High     == 2 ^ (ByteBits - 1)       \* the byte's highest bit
Points   == (0 .. Width - 1) \X (0 .. Height - 1)
Carried  == [background : Colours \cup {None}, foreground : Colours \cup {None}]
Fresh    == [background |-> None, foreground |-> None]

CeilDiv(a, b)  == (a + b - 1) \div b
Smaller(a, b)  == IF a < b THEN a ELSE b
Columns        == CeilDiv(Width, Tile)
Tiles          == Columns * CeilDiv(Height, Tile)

\* The k-th tile, in the order both sides go through them.
TileAt(k) ==
    LET x == (k % Columns) * Tile
        y == (k \div Columns) * Tile
    IN [x |-> x, y |-> y, width |-> Smaller(Width - x, Tile), height |-> Smaller(Height - y, Tile)]

Whole     == [x |-> 0, y |-> 0, width |-> Width, height |-> Height]
Area(r)   == {p \in Points : /\ p[1] \in r.x .. r.x + r.width - 1
                             /\ p[2] \in r.y .. r.y + r.height - 1}
Count(r)  == r.width * r.height
PixelAt(r, index) == <<r.x + (index % r.width), r.y + index \div r.width>>

\* The picture's pixels in r, row by row.
PixelsOf(r) == [i \in 1 .. Count(r) |-> picture[PixelAt(r, i - 1)]]

TypeOK ==
    /\ coding \in {"hextile", "zrle", "tight"}
    /\ picture \in [Points -> Colours] /\ target \in [Points -> Colours \cup {None}]
    /\ next \in 0 .. Tiles
    /\ state \in Carried /\ encoder \in Carried
    /\ failed \in BOOLEAN

Init ==
    /\ coding \in {"hextile", "zrle", "tight"}
    /\ picture \in Pictures
    /\ target = [p \in Points |-> None]
    /\ next = 0
    /\ state = Fresh /\ encoder = Fresh
    /\ failed = FALSE

(***************************************************************************)
(* What the tiles are written with.                                        *)
(***************************************************************************)
\* copy_hextile_tile, write_trle_tile_pixel: pixels row by row from the start-th on.
WritePixels(into, r, start, pixels) ==
    [p \in Points |->
       IF \E i \in DOMAIN pixels : PixelAt(r, start + i - 1) = p
       THEN pixels[CHOOSE i \in DOMAIN pixels : PixelAt(r, start + i - 1) = p]
       ELSE into[p]]

FillArea(into, r, colour) == [p \in Points |-> IF p \in Area(r) THEN colour ELSE into[p]]

(***************************************************************************)
(* Hextile.                                                                *)
(***************************************************************************)
\* The server's choices for a tile: raw, or a background and what differs from it, as
\* one rectangle where it is one.  A colour the tile before had may be left out.
Boxes     == {r \in [x : 0 .. Width - 1, y : 0 .. Height - 1,
                      width : 1 .. Tile, height : 1 .. Tile] : /\ r.x + r.width <= Width
                                                               /\ r.y + r.height <= Height}
BoxAreas  == [r \in Boxes |-> Area(r)]
Rect(S)   == CHOOSE r \in Boxes : BoxAreas[r] = S
IsRect(S) == \E r \in Boxes : BoxAreas[r] = S
Parts(S)  == IF IsRect(S) THEN {S} ELSE {{p} : p \in S}

OnWire(colour, carried, always) == IF carried = colour /\ ~always THEN None ELSE colour

Subrect(r, S, coloured) ==
    LET part == Rect(S) IN
    [colour   |-> IF coloured THEN picture[<<part.x, part.y>>] ELSE None,
     position |-> (part.x - r.x) * Half + (part.y - r.y),
     size     |-> (part.width - 1) * Half + (part.height - 1)]

HextileWire(r, background, coloured, always) ==
    LET others == {p \in Area(r) : picture[p] # background}
        inks   == {picture[p] : p \in others}
        ink    == CHOOSE c \in inks : TRUE
        parts  == UNION {Parts({p \in others : picture[p] = c}) : c \in inks}
    IN [background |-> OnWire(background, encoder.background, always),
        foreground |-> IF coloured \/ inks = {} THEN None
                       ELSE OnWire(ink, encoder.foreground, always),
        coloured   |-> coloured,
        subrects   |-> [i \in DOMAIN SetToSeq(parts) |-> Subrect(r, SetToSeq(parts)[i], coloured)]]

EncoderAfter(r, background, coloured) ==
    LET inks == {picture[p] : p \in Area(r)} \ {background} IN
    [background |-> background,
     foreground |-> IF coloured THEN None
                    ELSE IF inks = {} THEN encoder.foreground ELSE CHOOSE c \in inks : TRUE]

\* hextile_subrect
HextileSubrect(r, wire) ==
    [x |-> r.x + wire.position \div Half, y |-> r.y + (wire.position % Half),
     width |-> wire.size \div Half + 1, height |-> (wire.size % Half) + 1]

Inside(r, part) == part.x + part.width <= r.x + r.width /\ part.y + part.height <= r.y + r.height

\* read_hextile_tile, of a tile that is not raw.
Background(wire) == IF wire.background # None THEN wire.background ELSE state.background
Foreground(wire) == IF wire.foreground # None THEN wire.foreground ELSE state.foreground

HextileRefused(r, wire) ==
    \/ Background(wire) = None
    \/ wire.subrects # <<>> /\ ~wire.coloured /\ Foreground(wire) = None
    \/ \E i \in DOMAIN wire.subrects : ~Inside(r, HextileSubrect(r, wire.subrects[i]))

DrawHextile(r, wire) ==
    FoldLeft(LAMBDA into, s : FillArea(into, HextileSubrect(r, s),
                                       IF wire.coloured THEN s.colour ELSE Foreground(wire)),
             FillArea(target, r, Background(wire)), wire.subrects)

StateAfter(wire) ==
    [background |-> Background(wire),
     foreground |-> IF wire.coloured THEN None ELSE Foreground(wire)]

HextileRaw ==
    /\ coding = "hextile" /\ ~failed /\ next < Tiles
    /\ target' = WritePixels(target, TileAt(next), 0, PixelsOf(TileAt(next)))
    /\ state' = Fresh
    /\ encoder' = Fresh
    /\ next' = next + 1
    /\ UNCHANGED <<coding, picture, failed>>

HextileTile ==
    /\ coding = "hextile" /\ ~failed /\ next < Tiles
    /\ \E background \in Colours, coloured, always \in BOOLEAN :
         LET r    == TileAt(next)
             wire == HextileWire(r, background, coloured, always)
         IN /\ encoder' = EncoderAfter(r, background, coloured)
            /\ failed' = HextileRefused(r, wire)
            /\ IF failed' THEN UNCHANGED <<target, state>>
               ELSE target' = DrawHextile(r, wire) /\ state' = StateAfter(wire)
    /\ next' = next + 1
    /\ UNCHANGED <<coding, picture>>

(***************************************************************************)
(* ZRLE: a tile is raw, one colour, a palette with packed indexes, or      *)
(* runs of colours or of indexes.                                          *)
(***************************************************************************)
Palettes ==
    {<<a, b>> : a, b \in Colours} \cup {<<a, b, c>> : a, b, c \in Colours}
Usable(palette, pixels) == \A i \in DOMAIN pixels : \E j \in DOMAIN palette : palette[j] = pixels[i]
IndexIn(palette, colour) == (CHOOSE j \in DOMAIN palette : palette[j] = colour) - 1

BitsPerIndex(size) == IF size = 2 THEN 1 ELSE IF size <= 4 THEN 2 ELSE 4

\* Rows are packed from the highest bit down, and each starts a byte of its own.
PackedRow(indexes, bits) ==
    LET perByte == ByteBits \div bits
        at(b, k) == LET i == b * perByte + k IN IF i < Len(indexes) THEN indexes[i + 1] ELSE 0
    IN [b \in 1 .. CeilDiv(Len(indexes) * bits, ByteBits) |->
          FoldLeft(LAMBDA byte, k : byte * 2 ^ bits + at(b - 1, k), 0,
                   [k \in 1 .. perByte |-> k - 1])]

PackedRows(r, palette, bits) ==
    FlattenSeq([y \in 1 .. r.height |->
        PackedRow([x \in 1 .. r.width |->
                     IndexIn(palette, picture[<<r.x + x - 1, r.y + y - 1>>])], bits)])

\* Rows that follow each other without padding.
IndexAtUnpadded(rows, r, bits, x, y) ==
    LET bit   == (y * r.width + x) * bits
        byte  == rows[bit \div ByteBits + 1]
        shift == ByteBits - bits - (bit % ByteBits)
    IN (byte \div 2 ^ shift) % 2 ^ bits

\* decode_trle_packed_palette, and tight_palette_to_bgra for two colours: the index of a
\* pixel in its row's bytes.
IndexAt(rows, r, bits, x, y) ==
    LET bytesPerRow == CeilDiv(r.width * bits, ByteBits)
        bit         == x * bits
        byte        == rows[y * bytesPerRow + bit \div ByteBits + 1]
        shift       == ByteBits - bits - (bit % ByteBits)
    IN (byte \div 2 ^ shift) % 2 ^ bits

DecodePacked(r, palette, bits, rows) ==
    [i \in 1 .. Count(r) |->
       palette[IndexAt(rows, r, bits, (i - 1) % r.width, (i - 1) \div r.width) + 1]]

\* The server's runs: a length is one less, in bytes of which all but the last are full.
Starts(pixels) == {i \in DOMAIN pixels : i = 1 \/ pixels[i] # pixels[i - 1]}
RunFrom(pixels, i) ==
    (CHOOSE j \in i + 1 .. Len(pixels) + 1 :
       /\ j \in Starts(pixels) \/ j = Len(pixels) + 1
       /\ \A k \in i + 1 .. j - 1 : k \notin Starts(pixels)) - i
LengthBytes(run) ==
    [i \in 1 .. (run - 1) \div ByteMax |-> ByteMax] \o <<(run - 1) % ByteMax>>

PlainRuns(pixels) ==
    FlattenSeq([i \in DOMAIN pixels |->
        IF i \in Starts(pixels) THEN <<pixels[i]>> \o LengthBytes(RunFrom(pixels, i)) ELSE <<>>])

PaletteRuns(pixels, palette) ==
    FlattenSeq([i \in DOMAIN pixels |->
        IF i \notin Starts(pixels) THEN <<>>
        ELSE IF RunFrom(pixels, i) = 1 THEN <<IndexIn(palette, pixels[i])>>
        ELSE <<High + IndexIn(palette, pixels[i])>> \o LengthBytes(RunFrom(pixels, i))])

\* read_zrle_run_length: the length, and where what follows begins.
ReadRunLength(bytes, from) ==
    LET last == CHOOSE k \in from .. Len(bytes) :
                  bytes[k] # ByteMax /\ \A j \in from .. k - 1 : bytes[j] = ByteMax
    IN [length |-> 1 + FoldLeft(LAMBDA sum, b : sum + b, 0, SubSeq(bytes, from, last)),
        next   |-> last + 1]

\* decode_trle_plain_rle
DecodePlain(bytes) ==
    LET from[k \in 1 .. Len(bytes) + 1] ==
          IF k > Len(bytes) THEN <<>>
          ELSE LET run == ReadRunLength(bytes, k + 1) IN
               [i \in 1 .. run.length |-> bytes[k]] \o from[run.next]
    IN from[1]

\* decode_trle_palette_rle
DecodePaletteRuns(bytes, palette) ==
    LET from[k \in 1 .. Len(bytes) + 1] ==
          IF k > Len(bytes) THEN <<>>
          ELSE LET run == IF bytes[k] >= High THEN ReadRunLength(bytes, k + 1)
                          ELSE [length |-> 1, next |-> k + 1]
               IN [i \in 1 .. run.length |-> palette[(bytes[k] % High) + 1]] \o from[run.next]
    IN from[1]

\* decode_trle_tile: a tile's pixels, as the server may send them and as they are read.
Decoded(r, kind, palette) ==
    LET pixels == PixelsOf(r)
        bits   == BitsPerIndex(Len(palette))
    IN CASE kind = "raw"     -> pixels
         [] kind = "solid"   -> [i \in 1 .. Count(r) |-> pixels[1]]
         [] kind = "packed"  -> DecodePacked(r, palette, bits, PackedRows(r, palette, bits))
         [] kind = "plain"   -> DecodePlain(PlainRuns(pixels))
         [] kind = "palette" -> DecodePaletteRuns(PaletteRuns(pixels, palette), palette)

\* The palette of a run of indexes leaves the highest bit to say that a length follows.
Encodable(r, kind, palette) ==
    LET pixels == PixelsOf(r) IN
    CASE kind \in {"raw", "plain"} -> palette = None
      [] kind = "solid"   -> palette = None /\ Starts(pixels) = {1}
      [] kind = "packed"  -> palette # None /\ Usable(palette, pixels)
      [] kind = "palette" -> palette # None /\ Len(palette) <= High /\ Usable(palette, pixels)

\* A run beyond the tile, or bytes after the last, are refused.
ZrleTile ==
    /\ coding = "zrle" /\ ~failed /\ next < Tiles
    /\ \E kind \in {"raw", "solid", "packed", "plain", "palette"},
          palette \in {None} \cup Palettes :
         LET r == TileAt(next) IN
         /\ Encodable(r, kind, palette)
         /\ LET pixels == Decoded(r, kind, palette) IN
            /\ failed' = (Len(pixels) # Count(r))
            /\ target' = IF failed' THEN target ELSE WritePixels(target, r, 0, pixels)
    /\ next' = next + 1
    /\ UNCHANGED <<coding, picture, state, encoder>>

(***************************************************************************)
(* Tight: a whole rectangle, filtered, then compressed, after its length.  *)
(***************************************************************************)
\* On the wire red comes first.
Reversed(colour) == <<colour[3], colour[2], colour[1]>>

TightCopy(wire) == [i \in DOMAIN wire |-> Reversed(wire[i])]

\* Two colours are packed like ZRLE's, more or fewer have a byte for a pixel.
TightPalette(palette) ==
    LET reversed == [i \in DOMAIN palette |-> Reversed(palette[i])] IN   \* as sent
    IF Len(palette) = 2
    THEN TightCopy(DecodePacked(Whole, reversed, 1, PackedRows(Whole, palette, 1)))
    ELSE TightCopy([i \in 1 .. Count(Whole) |->
                      reversed[IndexIn(palette, PixelsOf(Whole)[i]) + 1]])

Clamp(n) == IF n < 0 THEN 0 ELSE IF n > ByteMax THEN ByteMax ELSE n

\* What a pixel is predicted from: those at its left, above it, and above that one.
Predict(pixels, x, y, c) ==
    LET at(i, j) == IF i < 0 \/ j < 0 THEN 0 ELSE pixels[<<i, j>>][c] IN
    Clamp(at(x - 1, y) + at(x, y - 1) - at(x - 1, y - 1))

Differences ==
    [p \in Points |-> [c \in Channels |->
       (Reversed(picture[p])[c] - Predict([q \in Points |-> Reversed(picture[q])], p[1], p[2], c))
          % (ByteMax + 1)]]

\* tight_gradient_to_bgra
TightGradient(differences) ==
    LET pixel[k \in 0 .. Count(Whole) - 1] ==
          LET p     == PixelAt(Whole, k)
              at(i, j, c) == IF i < 0 \/ j < 0 THEN 0 ELSE pixel[j * Width + i][c]
          IN [c \in Channels |->
                (differences[p][c] + Clamp(at(p[1] - 1, p[2], c) + at(p[1], p[2] - 1, c)
                                             - at(p[1] - 1, p[2] - 1, c))) % (ByteMax + 1)]
    IN [i \in 1 .. Count(Whole) |-> Reversed(pixel[i - 1])]

\* The length of compressed data, in one to three bytes, and read_tight_compact_length.
MaxCompactLength == High * High * (ByteMax + 1) - 1

CompactLength(n) ==
    IF n < High THEN <<n>>
    ELSE IF n < High * High THEN <<High + (n % High), n \div High>>
    ELSE <<High + (n % High), High + ((n \div High) % High), n \div (High * High)>>

ReadCompactLength(bytes) ==
    LET first  == bytes[1] % High
        second == (bytes[2] % High) * High
    IN IF bytes[1] < High THEN first
       ELSE IF bytes[2] < High THEN first + second
       ELSE first + second + bytes[3] * High * High

TightRect ==
    /\ coding = "tight" /\ ~failed /\ next = 0
    /\ \E filter \in {"copy", "palette", "gradient"}, palette \in {None} \cup Palettes :
         /\ (filter = "palette") = (palette # None)
         /\ palette # None => Usable(palette, PixelsOf(Whole))
         /\ target' = WritePixels(target, Whole, 0,
              CASE filter = "copy"     -> TightCopy([i \in 1 .. Count(Whole) |->
                                                       Reversed(PixelsOf(Whole)[i])])
                [] filter = "palette"  -> TightPalette(palette)
                [] filter = "gradient" -> TightGradient(Differences))
    /\ failed' = (\E n \in 1 .. MaxCompactLength : ReadCompactLength(CompactLength(n)) # n)
    /\ next' = Tiles
    /\ UNCHANGED <<coding, picture, state, encoder>>

Next == HextileRaw \/ HextileTile \/ ZrleTile \/ TightRect
Spec == Init /\ [][Next]_vars

(***************************************************************************)
(* Properties.                                                             *)
(***************************************************************************)
\* Whatever the server chooses for each tile, and whatever it leaves out because the
\* tile before had it, the rectangle is read without an error and shows the picture.
Read == UNION {Area(TileAt(k)) : k \in 0 .. next - 1}

PictureShown ==
    /\ ~failed
    /\ \A p \in Points : target[p] = IF p \in Read THEN picture[p] ELSE None
=============================================================================
