-------------------------------- MODULE Video --------------------------------
(***************************************************************************)
(* The framebuffer (kernel/arch/x86_64/video.c), the glyphs drawn on it    *)
(* (font.c), and the cells of the terminal made of them (terminal_render   *)
(* in tty.c). It shows that a cell, once drawn, stays as drawn until       *)
(* something else is drawn over it: what module Terminal calls screen.     *)
(***************************************************************************)
EXTENDS Integers

CONSTANTS
  width, height,           \* of the framebuffer, in pixels
  stride,                  \* pixels from a row to the next: pitch / 4
  UINT32,                  \* how many values a uint32_t has
  Responses,               \* what the bootloader may answer: [framebuffers, bpp]
  magic, PSF2_MAGIC,       \* of the font file, and what it must be
  glyphWidth, glyphHeight, numglyph, bytesperglyph,
  glyphs,                  \* the bytes behind the header
  Picture,                 \* what they stand for: Picture[ch][<<row, col>>]
  scale,                   \* of terminal_render: 2 in the code
  Rows, Columns,           \* of the terminal
  Characters,              \* character codes, 0 .. 255 in the code
  Opaque,                  \* the colours of the terminal
  Styles,                  \* the pairs of them it draws with
  Pixels,                  \* <<x, y, colour>> that others than the terminal set
  Padding,                 \* what the bootloader left in the framebuffer
  Undrawn,                 \* no cell of the terminal
  Memory(_)                \* external: the colour stored at an address

Bytes == 0 .. 255

Color32 == [b : Bytes, g : Bytes, r : Bytes, a : Bytes]

(* A coordinate, an int or a uint32_t.                                     *)
Coordinates == -(UINT32 \div 2) .. UINT32 - 1

(* The screen and the terminal are smaller than the integers go.           *)
ASSUME VideoAssumption ==
  /\ width \in Nat \ {0} /\ height \in Nat \ {0}
  /\ stride \in Nat /\ stride >= width
  /\ UINT32 \in Nat /\ UINT32 >= 2 * width /\ UINT32 >= 2 * height
  /\ glyphWidth \in Nat \ {0} /\ glyphHeight \in Nat \ {0} /\ numglyph \in Nat \ {0}
  /\ scale \in Nat \ {0} /\ Rows \in Nat /\ Columns \in Nat
  /\ Columns * glyphWidth * scale <= UINT32 /\ Rows * glyphHeight * scale <= UINT32
  /\ Pixels \subseteq Coordinates \X Coordinates \X Color32
  /\ Opaque \subseteq { color \in Color32 : color.a = 255 }
  /\ Styles \subseteq Opaque \X Opaque
  /\ Padding \in Color32

VARIABLES
  fb,              \* the framebuffer: the colour at each index
  isInit,
  halted,          \* video_initialize has failed and _start called kms
  enableBlend,
  drawn            \* history: the character and colours last drawn of a cell

vars == <<fb, isInit, halted, enableBlend, drawn>>

Cells     == (0 .. Rows - 1) \X (0 .. Columns - 1)
Addresses == 0 .. stride * height - 1
Black     == [b |-> 0, g |-> 0, r |-> 0, a |-> 0]

(* An int or a uint32_t passed as a uint32_t. *)
Unsigned(i) == i % UINT32

OnScreen(x, y) == x < width /\ y < height

Address(x, y) == y * stride + x

(* A shift by seven. *)
BadBlend(src, dst, alpha) == (src * alpha + dst * (255 - alpha) + 255) \div 128

(* One channel of a blend: adding 255 before the shift by eight stands in  *)
(* for a division by 255.                                                  *)
Blend(src, dst, alpha) == (src * alpha + dst * (255 - alpha) + 255) \div 256

video_uint32_blend(dst, src) ==
  IF src.a = 255 THEN src
  ELSE IF src.a = 0 THEN dst
  ELSE [b |-> Blend(src.b, dst.b, src.a), g |-> Blend(src.g, dst.g, src.a),
        r |-> Blend(src.r, dst.r, src.a), a |-> 255]

video_readPixel(x, y) == IF OnScreen(x, y) THEN fb[Address(x, y)] ELSE Black

(* The pixel's value is used as an address, and that is read. *)
video_getPixel(x, y) == Memory(video_readPixel(x, y))

(* Lets one column too many through. *)
BadTarget(x, y) ==
  LET ux == Unsigned(x)
      uy == Unsigned(y)
  IN IF ux <= width /\ uy < height THEN {Address(ux, uy)} ELSE {}

(* The address that video_putPixel writes; none beyond an edge.            *)
Target(x, y) ==
  LET ux == Unsigned(x)
      uy == Unsigned(y)
  IN IF OnScreen(ux, uy) THEN {Address(ux, uy)} ELSE {}

(* What it stores there, over the old colour.                              *)
Stored(old, pixel) == IF enableBlend THEN video_uint32_blend(old, pixel) ELSE pixel

(* The framebuffer f after video_putPixel. *)
video_putPixel(f, x, y, pixel) ==
  [a \in Addresses |-> IF a \in Target(x, y) THEN Stored(f[a], pixel) ELSE f[a]]

-----------------------------------------------------------------------------
(* Glyphs. *)

(* The pixels of a glyph at <<x, y>>, each with the bit it shows.           *)
Box(x, y, s) ==
  { [x |-> x + col * s + j, y |-> y + row * s + i, bit |-> <<row, col>>] :
      row \in 0 .. glyphHeight - 1, col \in 0 .. glyphWidth - 1,
      i \in 0 .. s - 1, j \in 0 .. s - 1 }

(* A row of a glyph fills whole bytes, its first pixel in the highest bit.  *)
pitch == (glyphWidth + 7) \div 8

(* The width is not rounded up to bytes. *)
BadIsSet(c, row, col) ==
  LET place == (c % numglyph) * bytesperglyph + row * (glyphWidth \div 8) + (col \div 8)
  IN (glyphs[place + 1] \div 2 ^ (7 - (col % 8))) % 2 = 1

IsSet(c, row, col) ==
  LET place == (c % numglyph) * bytesperglyph + row * pitch + (col \div 8)
  IN (glyphs[place + 1] \div 2 ^ (7 - (col % 8))) % 2 = 1

Shade(c, bit, fg, bg) == IF IsSet(c, bit[1], bit[2]) THEN fg ELSE bg

(* The framebuffer f after font_drawChar: every pixel of the glyph is put, *)
(* unless the file is no font. No two of them have the same address, so    *)
(* that each address is written as by the one video_putPixel for it.       *)
font_drawChar(f, x, y, c, fg, bg, s) ==
  LET box == Box(x, y, IF s < 1 THEN 1 ELSE s)
      puts == { [target |-> Target(q.x, q.y), bit |-> q.bit] : q \in box }
      put(a) == CHOOSE w \in puts : a \in w.target
  IN IF magic # PSF2_MAGIC THEN f
     ELSE [a \in Addresses |->
             IF \E w \in puts : a \in w.target THEN Stored(f[a], Shade(c, put(a).bit, fg, bg))
                                               ELSE f[a]]

(* Where terminal_render draws a cell. *)
Origin(p) == <<p[2] * glyphWidth * scale, p[1] * glyphHeight * scale>>

(* The pixels of a cell, on a terminal of enough room. *)
CellBox(p) == Box(p[2] * glyphWidth * scale, p[1] * glyphHeight * scale, scale)

-----------------------------------------------------------------------------
(* As the bootloader leaves it. *)
Init ==
  /\ fb = [i \in Addresses |-> Padding]
  /\ isInit = FALSE /\ halted = FALSE
  /\ enableBlend = FALSE
  /\ drawn = [p \in Cells |-> Undrawn]

Cleared == [i \in Addresses |-> IF i % stride < width THEN Black ELSE fb[i]]

(* No framebuffer, or one whose pixels have not 32 bits, and _start halts. *)
Usable(response) == response.framebuffers >= 1 /\ response.bpp = 32

video_initialize ==
  /\ ~isInit /\ ~halted
  /\ \E response \in Responses :
       IF Usable(response)
       THEN fb' = Cleared /\ enableBlend' = FALSE /\ isInit' = TRUE /\ UNCHANGED halted
       ELSE halted' = TRUE /\ UNCHANGED <<fb, enableBlend, isInit>>
  /\ UNCHANGED drawn

(* One cell of terminal_render. *)
DrawCell(p, c, fg, bg) ==
  /\ isInit
  /\ fb' = font_drawChar(fb, Origin(p)[1], Origin(p)[2], c, fg, bg, scale)
  /\ drawn' = [drawn EXCEPT ![p] = [character |-> c, fgColor |-> fg, bgColor |-> bg]]
  /\ UNCHANGED <<isInit, halted, enableBlend>>

(* The rest of the kernel uses the framebuffer only once it is accepted.    *)
(* A pixel that is not the terminal's; the cell it falls on is not what    *)
(* was drawn any more.                                                     *)
video_setPixel(x, y, pixel) ==
  /\ isInit
  /\ fb' = video_putPixel(fb, x, y, pixel)
  /\ drawn' = [p \in Cells |->
                 IF \E q \in CellBox(p) : <<q.x, q.y>> = <<x, y>> THEN Undrawn ELSE drawn[p]]
  /\ UNCHANGED <<isInit, halted, enableBlend>>

video_clear ==
  /\ isInit
  /\ fb' = Cleared
  /\ drawn' = [p \in Cells |-> Undrawn]
  /\ UNCHANGED <<isInit, halted, enableBlend>>

video_setEnableBlend ==
  /\ isInit
  /\ enableBlend' \in BOOLEAN
  /\ UNCHANGED <<fb, isInit, halted, drawn>>

Next ==
  \/ video_initialize
  \/ \E p \in Cells, c \in Characters, style \in Styles : DrawCell(p, c, style[1], style[2])
  \/ \E q \in Pixels : video_setPixel(q[1], q[2], q[3])
  \/ video_clear
  \/ video_setEnableBlend

Spec == Init /\ [][Next]_vars

-----------------------------------------------------------------------------
(* Properties. *)

(* Every variable has its type; blending never leaves the range of a byte, *)
(* where it would spill into the next channel.                             *)
TypeOK ==
  /\ fb \in [Addresses -> Color32]
  /\ isInit \in BOOLEAN /\ halted \in BOOLEAN /\ enableBlend \in BOOLEAN
  /\ drawn \in [Cells -> {Undrawn} \cup
                         [character : Characters, fgColor : Opaque, bgColor : Opaque]]

(* What terminal_render drew of a cell is on the screen, pixel by pixel, as *)
(* far as the cell is, until something else is drawn there: cells do not   *)
(* overlap, nor wrap around an edge, and opaque colours cover what was     *)
(* there before, also while blending is on.                                *)
CellsShowGlyphs ==
  \A p \in Cells : drawn[p] # Undrawn =>
    \A q \in CellBox(p) : OnScreen(q.x, q.y) =>
      fb[Address(q.x, q.y)] =
        IF Picture[drawn[p].character % numglyph][q.bit] THEN drawn[p].fgColor
                                                         ELSE drawn[p].bgColor

(* Nothing is written between the end of a row and the start of the next,  *)
(* nor anywhere if video_initialize rejects the framebuffer, whose pixels  *)
(* then have another size.                                                 *)
PaddingUntouched ==
  \A i \in Addresses : i % stride >= width \/ halted => fb[i] = Padding

(* video.h: video_getPixel reads the pixel at a position.                   *)
GetPixelReadsPixel ==
  isInit => \A x \in 0 .. width - 1, y \in 0 .. height - 1 :
    video_getPixel(x, y) = video_readPixel(x, y)
=============================================================================
