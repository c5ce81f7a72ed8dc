---------------------------- MODULE VideoProofs -----------------------------
(***************************************************************************)
(* Proofs about the framebuffer. Blending: the shift by eight, which       *)
(* replaces a division by 255, is exact enough at every value. Geometry:   *)
(* an address on the screen has one pixel, and a pixel lies in one cell of *)
(* the terminal and shows one bit of its glyph, for any sizes of screen,   *)
(* padding, glyphs and terminal. What a cell shows follows from the two.   *)
(***************************************************************************)
EXTENDS Video, TLAPS

(* The weighted sum of two numbers, the first not above the second, lies   *)
(* between 255 times each, whichever of them has the weight.               *)
LEMMA SumBetween ==
  ASSUME NEW low \in Bytes, NEW high \in Bytes, low <= high, NEW weight \in Bytes
  PROVE  /\ low * weight + high * (255 - weight) \in 255 * low .. 255 * high
         /\ high * weight + low * (255 - weight) \in 255 * low .. 255 * high
  <1> DEFINE gap == high - low
  <1>1. gap \in Nat /\ high = low + gap
    BY DEF Bytes
  <1>2. gap * weight \in 0 .. 255 * gap
    <2>1. weight \in 0 .. 255 /\ gap \in 0 .. 255
      BY DEF Bytes
    <2> QED BY <2>1
  <1>3. low * weight + high * (255 - weight) = 255 * high - gap * weight
    BY <1>1 DEF Bytes
  <1>4. high * weight + low * (255 - weight) = 255 * low + gap * weight
    BY <1>1 DEF Bytes
  <1>5. 255 * high = 255 * low + 255 * gap
    BY <1>1 DEF Bytes
  <1>6. gap * weight \in Int /\ 255 * gap \in Int /\ 255 * low \in Int /\ 255 * high \in Int
    BY <1>1 DEF Bytes
  <1> HIDE DEF gap
  <1> QED BY <1>2, <1>3, <1>4, <1>5, <1>6

(* Adding 255 and dividing by 256 gives back a number from 255 times it,   *)
(* and keeps the order.                                                    *)
LEMMA ShiftBetween ==
  ASSUME NEW low \in Bytes, NEW high \in Bytes, NEW sum \in 255 * low .. 255 * high
  PROVE  (sum + 255) \div 256 \in low .. high
  BY DEF Bytes

(* A blended channel lies between the two channels it is blended from: it  *)
(* never spills into the next channel, and blending a colour over itself   *)
(* changes nothing, whatever the alpha.                                    *)
THEOREM BlendBetween ==
  ASSUME NEW src \in Bytes, NEW dst \in Bytes, NEW alpha \in Bytes
  PROVE  \/ src <= dst /\ Blend(src, dst, alpha) \in src .. dst
         \/ dst <= src /\ Blend(src, dst, alpha) \in dst .. src
  <1> DEFINE sum == src * alpha + dst * (255 - alpha)
  <1>1. CASE src <= dst
    <2>1. sum \in 255 * src .. 255 * dst
      BY <1>1, SumBetween
    <2> HIDE DEF sum
    <2>2. (sum + 255) \div 256 \in src .. dst
      BY <2>1, ShiftBetween
    <2> QED BY <1>1, <2>2 DEF Blend, sum
  <1>2. CASE dst <= src
    <2>1. sum \in 255 * dst .. 255 * src
      BY <1>2, SumBetween
    <2> HIDE DEF sum
    <2>2. (sum + 255) \div 256 \in dst .. src
      BY <2>1, ShiftBetween
    <2> QED BY <1>2, <2>2 DEF Blend, sum
  <1> QED BY <1>1, <1>2 DEF Bytes

(* Blending two colours gives a colour, so video_putPixel writes one.      *)
THEOREM BlendIsColor ==
  ASSUME NEW dst \in Color32, NEW src \in Color32
  PROVE  video_uint32_blend(dst, src) \in Color32
  <1>1. ASSUME NEW s \in Bytes, NEW d \in Bytes PROVE Blend(s, d, src.a) \in Bytes
    <2>1. src.a \in Bytes
      BY DEF Color32
    <2>2. Blend(s, d, src.a) \in s .. d \/ Blend(s, d, src.a) \in d .. s
      BY <2>1, BlendBetween
    <2> QED BY <2>2 DEF Bytes
  <1>2. /\ Blend(src.b, dst.b, src.a) \in Bytes
        /\ Blend(src.g, dst.g, src.a) \in Bytes
        /\ Blend(src.r, dst.r, src.a) \in Bytes
    BY <1>1 DEF Color32
  <1>3. 255 \in Bytes
    BY DEF Bytes
  <1> QED BY <1>2, <1>3 DEF video_uint32_blend, Color32

-----------------------------------------------------------------------------
(* A place in rows of n is a row and a column.                             *)

(* A number below n is its own remainder.                                  *)
LEMMA SmallRemainder ==
  ASSUME NEW n \in Nat \ {0}, NEW x \in 0 .. n - 1
  PROVE  x % n = x
  OBVIOUS

(* A row ends before the next one starts.                                  *)
LEMMA RowsInOrder ==
  ASSUME NEW a \in Int, NEW b \in Int, NEW n \in Nat, a < b
  PROVE  a * n + n <= b * n
  <1> DEFINE d == b - a - 1
  <1>1. d \in Nat /\ b = a + 1 + d
    OBVIOUS
  <1> HIDE DEF d
  <1>2. b * n = a * n + n + d * n /\ d * n \in Nat
    BY <1>1
  <1>3. a * n \in Int
    OBVIOUS
  <1> QED BY <1>2, <1>3

(* No two places coincide.                                                 *)
LEMMA PlaceUnique ==
  ASSUME NEW n \in Nat \ {0}, NEW a \in Int, NEW b \in Int,
         NEW i \in 0 .. n - 1, NEW j \in 0 .. n - 1, a * n + i = b * n + j
  PROVE  a = b /\ i = j
  <1>1. a * n \in Int /\ b * n \in Int
    OBVIOUS
  <1>2. ~(a < b)
    <2> SUFFICES ASSUME a < b PROVE FALSE
      OBVIOUS
    <2>1. a * n + n <= b * n
      BY RowsInOrder
    <2> QED BY <1>1, <2>1
  <1>3. ~(b < a)
    <2> SUFFICES ASSUME b < a PROVE FALSE
      OBVIOUS
    <2>1. b * n + n <= a * n
      BY RowsInOrder
    <2> QED BY <1>1, <2>1
  <1>4. a = b
    BY <1>2, <1>3
  <1> QED BY <1>1, <1>4

(* The remainder of a place is its column.                                 *)
LEMMA PlaceRemainder ==
  ASSUME NEW n \in Nat \ {0}, NEW a \in Int, NEW i \in 0 .. n - 1
  PROVE  (a * n + i) % n = i
  <1> DEFINE x == a * n + i
  <1>1. x \in Int
    OBVIOUS
  <1> HIDE DEF x
  <1>2. x \div n \in Int /\ x % n \in 0 .. n - 1 /\ x = (x \div n) * n + (x % n)
    BY <1>1
  <1> DEFINE quotient == x \div n  rest == x % n
  <1>3. quotient \in Int /\ rest \in 0 .. n - 1 /\ quotient * n + rest = a * n + i
    BY <1>2 DEF x
  <1> HIDE DEF quotient, rest
  <1>4. rest = i
    BY <1>3, PlaceUnique
  <1> QED BY <1>4 DEF rest, x

(* An address on the screen is one of the framebuffer, and no padding.     *)
LEMMA AddressOnScreen ==
  ASSUME NEW x \in Nat, NEW y \in Nat, OnScreen(x, y)
  PROVE  Address(x, y) \in Addresses /\ Address(x, y) % stride = x
  <1>1. stride \in Nat \ {0} /\ height \in Nat /\ x \in 0 .. stride - 1 /\ y < height
    BY VideoAssumption DEF OnScreen
  <1>2. y * stride + stride <= height * stride
    BY <1>1, RowsInOrder
  <1>3. height * stride = stride * height /\ y * stride \in Nat /\ stride * height \in Nat
    BY <1>1
  <1>4. Address(x, y) \in Addresses
    BY <1>1, <1>2, <1>3 DEF Address, Addresses
  <1>5. (y * stride + x) % stride = x
    BY <1>1, PlaceRemainder
  <1> QED BY <1>4, <1>5 DEF Address

(* An address on the screen is that of one pixel.                          *)
LEMMA PixelUnique ==
  ASSUME NEW x \in Nat, NEW y \in Nat, NEW u \in Nat, NEW v \in Nat,
         OnScreen(x, y), OnScreen(u, v), Address(x, y) = Address(u, v)
  PROVE  x = u /\ y = v
  <1>1. stride \in Nat \ {0} /\ x \in 0 .. stride - 1 /\ u \in 0 .. stride - 1
    BY VideoAssumption DEF OnScreen
  <1> QED BY <1>1, PlaceUnique DEF Address

(* What video_putPixel writes is no padding.                               *)
LEMMA TargetOnScreen ==
  ASSUME NEW x \in Int, NEW y \in Int, NEW a \in Target(x, y)
  PROVE  a \in Addresses /\ a % stride < width
  <1>1. Unsigned(x) \in Nat /\ Unsigned(y) \in Nat
    <2>1. UINT32 \in Nat \ {0}
      BY VideoAssumption
    <2> QED BY <2>1 DEF Unsigned
  <1>2. OnScreen(Unsigned(x), Unsigned(y)) /\ a = Address(Unsigned(x), Unsigned(y))
    BY DEF Target
  <1>3. a \in Addresses /\ a % stride = Unsigned(x)
    BY <1>1, <1>2, AddressOnScreen
  <1> QED BY <1>2, <1>3 DEF OnScreen

(* A coordinate that is on the screen once unsigned was so before.         *)
LEMMA UnsignedOnScreen ==
  ASSUME NEW x \in Coordinates, NEW y \in Coordinates,
         OnScreen(Unsigned(x), Unsigned(y))
  PROVE  Unsigned(x) = x /\ Unsigned(y) = y
  <1>1. UINT32 \in Nat \ {0} /\ UINT32 >= 2 * width /\ UINT32 >= 2 * height
        /\ width \in Nat /\ height \in Nat
    BY VideoAssumption
  <1>2. ASSUME NEW z \in Coordinates, z < 0
        PROVE  Unsigned(z) \in Nat /\ 2 * Unsigned(z) >= UINT32
    <2>1. z + UINT32 \in 0 .. UINT32 - 1 /\ 2 * (z + UINT32) >= UINT32
      BY <1>1, <1>2 DEF Coordinates
    <2>2. z % UINT32 = z + UINT32
      <3>1. z = -1 * UINT32 + (z + UINT32)
        BY <1>1 DEF Coordinates
      <3> QED BY <1>1, <2>1, <3>1, PlaceRemainder
    <2> QED BY <1>1, <2>1, <2>2 DEF Unsigned
  <1>3. ASSUME NEW z \in Coordinates, ~(z < 0)
        PROVE  Unsigned(z) = z
    BY <1>1, <1>3, SmallRemainder DEF Coordinates, Unsigned
  <1>4. ~(x < 0) /\ ~(y < 0)
    BY <1>1, <1>2 DEF OnScreen
  <1> QED BY <1>3, <1>4

-----------------------------------------------------------------------------
(* The pixels of a cell.                                                   *)

(* The coordinate of a pixel: of cell a, in bit b of its glyph, the k-th.   *)
Place(a, size, b, k) == a * size * scale + b * scale + k

(* Three indices, of a cell, of a glyph's bit and of a pixel of the bit,   *)
(* are determined by the coordinate they make, and it is not negative.     *)
LEMMA IndicesUnique ==
  ASSUME NEW size \in Nat \ {0},
         NEW a \in Nat, NEW b \in 0 .. size - 1, NEW k \in 0 .. scale - 1,
         NEW d \in Nat, NEW e \in 0 .. size - 1, NEW l \in 0 .. scale - 1,
         Place(a, size, b, k) = Place(d, size, e, l)
  PROVE  a = d /\ b = e /\ k = l
  <1> DEFINE m == a * size + b
             n == d * size + e
  <1>1. scale \in Nat \ {0}
    BY VideoAssumption
  <1>2. m \in Int /\ n \in Int
    OBVIOUS
  <1>3. m * scale = a * size * scale + b * scale /\ n * scale = d * size * scale + e * scale
    BY <1>1
  <1>4. m * scale + k = n * scale + l
    BY <1>3 DEF Place
  <1> HIDE DEF m, n
  <1>5. m = n /\ k = l
    BY <1>1, <1>2, <1>4, PlaceUnique
  <1>6. a * size + b = d * size + e
    BY <1>5 DEF m, n
  <1> QED BY <1>5, <1>6, PlaceUnique

(* A terminal whose sides fit an unsigned integer has no coordinate that   *)
(* wraps around.                                                           *)
LEMMA IndicesFit ==
  ASSUME NEW count \in Nat, NEW size \in Nat \ {0}, count * size * scale <= UINT32,
         NEW a \in 0 .. count - 1, NEW b \in 0 .. size - 1, NEW k \in 0 .. scale - 1
  PROVE  Place(a, size, b, k) \in 0 .. UINT32 - 1
  <1> DEFINE m == a * size + b
             whole == count * size
  <1>1. scale \in Nat \ {0} /\ UINT32 \in Nat
    BY VideoAssumption
  <1>2. a * size + size <= count * size
    BY RowsInOrder
  <1>3. m \in Nat /\ whole \in Nat /\ a * size \in Nat
    OBVIOUS
  <1>4. m < whole
    BY <1>2, <1>3
  <1>5. m * scale = a * size * scale + b * scale
    BY <1>1
  <1> HIDE DEF m, whole
  <1>6. m * scale + scale <= whole * scale /\ m * scale \in Nat
    BY <1>1, <1>3, <1>4, RowsInOrder
  <1>7. whole * scale <= UINT32 /\ whole * scale \in Nat
    BY <1>1, <1>3 DEF whole
  <1>8. m * scale + k \in 0 .. UINT32 - 1
    BY <1>1, <1>6, <1>7
  <1> QED BY <1>5, <1>8 DEF Place

(* A pixel of a cell, by its indices.                                      *)
LEMMA CellPixel ==
  ASSUME NEW p \in Cells, NEW q \in CellBox(p)
  PROVE  \E row \in 0 .. glyphHeight - 1, col \in 0 .. glyphWidth - 1,
            i \in 0 .. scale - 1, j \in 0 .. scale - 1 :
           q = [x |-> Place(p[2], glyphWidth, col, j), y |-> Place(p[1], glyphHeight, row, i),
                bit |-> <<row, col>>]
  BY DEF CellBox, Box, Place

(* Rows and columns of a cell.                                             *)
LEMMA CellIndices ==
  ASSUME NEW p \in Cells
  PROVE  p[1] \in 0 .. Rows - 1 /\ p[2] \in 0 .. Columns - 1 /\ p = <<p[1], p[2]>>
  BY DEF Cells

(* No two cells share a pixel, nor does a cell have one twice: the pixels  *)
(* are put in any order.                                                   *)
LEMMA CellsApart ==
  ASSUME NEW p \in Cells, NEW o \in Cells, NEW q \in CellBox(p), NEW r \in CellBox(o),
         q.x = r.x, q.y = r.y
  PROVE  p = o /\ q = r
  <1>1. glyphWidth \in Nat \ {0} /\ glyphHeight \in Nat \ {0}
    BY VideoAssumption
  <1>2. /\ p[1] \in Nat /\ p[2] \in Nat /\ p = <<p[1], p[2]>>
        /\ o[1] \in Nat /\ o[2] \in Nat /\ o = <<o[1], o[2]>>
    BY CellIndices
  <1>3. PICK row \in 0 .. glyphHeight - 1, col \in 0 .. glyphWidth - 1,
             i \in 0 .. scale - 1, j \in 0 .. scale - 1 :
           q = [x |-> Place(p[2], glyphWidth, col, j), y |-> Place(p[1], glyphHeight, row, i),
                bit |-> <<row, col>>]
    BY CellPixel
  <1>4. PICK row2 \in 0 .. glyphHeight - 1, col2 \in 0 .. glyphWidth - 1,
             i2 \in 0 .. scale - 1, j2 \in 0 .. scale - 1 :
           r = [x |-> Place(o[2], glyphWidth, col2, j2), y |-> Place(o[1], glyphHeight, row2, i2),
                bit |-> <<row2, col2>>]
    BY CellPixel
  <1>5. p[2] = o[2] /\ col = col2 /\ j = j2
    <2>1. Place(p[2], glyphWidth, col, j) = Place(o[2], glyphWidth, col2, j2)
      BY <1>3, <1>4
    <2>2. PICK a \in Nat, d \in Nat : a = p[2] /\ d = o[2]
      BY <1>2
    <2>3. Place(a, glyphWidth, col, j) = Place(d, glyphWidth, col2, j2)
      BY <2>1, <2>2
    <2>4. a = d /\ col = col2 /\ j = j2
      BY <1>1, <2>3, IndicesUnique
    <2> QED BY <2>2, <2>4
  <1>6. p[1] = o[1] /\ row = row2 /\ i = i2
    <2>1. Place(p[1], glyphHeight, row, i) = Place(o[1], glyphHeight, row2, i2)
      BY <1>3, <1>4
    <2>2. PICK a \in Nat, d \in Nat : a = p[1] /\ d = o[1]
      BY <1>2
    <2>3. Place(a, glyphHeight, row, i) = Place(d, glyphHeight, row2, i2)
      BY <2>1, <2>2
    <2>4. a = d /\ row = row2 /\ i = i2
      BY <1>1, <2>3, IndicesUnique
    <2> QED BY <2>2, <2>4
  <1> QED BY <1>2, <1>3, <1>4, <1>5, <1>6

(* The pixels of a cell have coordinates of the integers, and are put      *)
(* where they are, if that is on the screen.                               *)
LEMMA CellTarget ==
  ASSUME NEW p \in Cells, NEW q \in CellBox(p)
  PROVE  /\ q.x \in Nat /\ q.y \in Nat
         /\ q.bit \in (0 .. glyphHeight - 1) \X (0 .. glyphWidth - 1)
         /\ Target(q.x, q.y) = IF OnScreen(q.x, q.y) THEN {Address(q.x, q.y)} ELSE {}
  <1>1. /\ glyphWidth \in Nat \ {0} /\ glyphHeight \in Nat \ {0} /\ UINT32 \in Nat
        /\ Rows \in Nat /\ Columns \in Nat
        /\ Columns * glyphWidth * scale <= UINT32 /\ Rows * glyphHeight * scale <= UINT32
    BY VideoAssumption
  <1>2. p[1] \in 0 .. Rows - 1 /\ p[2] \in 0 .. Columns - 1
    BY CellIndices
  <1>3. PICK row \in 0 .. glyphHeight - 1, col \in 0 .. glyphWidth - 1,
             i \in 0 .. scale - 1, j \in 0 .. scale - 1 :
           q = [x |-> Place(p[2], glyphWidth, col, j), y |-> Place(p[1], glyphHeight, row, i),
                bit |-> <<row, col>>]
    BY CellPixel
  <1>4. Place(p[2], glyphWidth, col, j) \in 0 .. UINT32 - 1
    BY <1>1, <1>2, IndicesFit
  <1>5. Place(p[1], glyphHeight, row, i) \in 0 .. UINT32 - 1
    BY <1>1, <1>2, IndicesFit
  <1>6. q.x \in 0 .. UINT32 - 1 /\ q.y \in 0 .. UINT32 - 1
    BY <1>3, <1>4, <1>5
  <1>7. Unsigned(q.x) = q.x /\ Unsigned(q.y) = q.y
    <2>1. UINT32 \in Nat \ {0}
      BY <1>1, <1>6
    <2> QED BY <1>6, <2>1, SmallRemainder DEF Unsigned
  <1>8. q.x \in Nat /\ q.y \in Nat
    BY <1>6
  <1>9. q.bit \in (0 .. glyphHeight - 1) \X (0 .. glyphWidth - 1)
    BY <1>3
  <1>10. Target(q.x, q.y) = IF OnScreen(q.x, q.y) THEN {Address(q.x, q.y)} ELSE {}
    BY <1>7 DEF Target
  <1> QED BY <1>8, <1>9, <1>10

-----------------------------------------------------------------------------
(* The framebuffer.                                                        *)

(* The address of a cell's pixel, if it has one.                           *)
LEMMA CellAddress ==
  ASSUME NEW p \in Cells, NEW q \in CellBox(p), NEW a \in Target(q.x, q.y)
  PROVE  /\ q.x \in Nat /\ q.y \in Nat
         /\ OnScreen(q.x, q.y) /\ a = Address(q.x, q.y)
  <1>1. OnScreen(q.x, q.y)
    <2> SUFFICES ASSUME ~OnScreen(q.x, q.y) PROVE FALSE
      OBVIOUS
    <2>1. Target(q.x, q.y) = {}
      BY CellTarget
    <2> QED BY <2>1
  <1>2. Target(q.x, q.y) = {Address(q.x, q.y)}
    BY <1>1, CellTarget
  <1> QED BY <1>1, <1>2, CellTarget

(* What video_putPixel stores is a colour, and an opaque one as it is.     *)
LEMMA StoredColor ==
  ASSUME NEW old \in Color32, NEW pixel \in Color32
  PROVE  /\ Stored(old, pixel) \in Color32
         /\ pixel \in Opaque => Stored(old, pixel) = pixel
  <1>1. video_uint32_blend(old, pixel) \in Color32
    BY BlendIsColor
  <1>2. pixel \in Opaque => video_uint32_blend(old, pixel) = pixel
    BY VideoAssumption DEF video_uint32_blend
  <1> QED BY <1>1, <1>2 DEF Stored

(* A colour stored at the addresses of some pixels.                        *)
LEMMA FramebufferStored ==
  ASSUME fb \in [Addresses -> Color32],
         NEW x \in Int, NEW y \in Int, NEW pixel \in Color32
  PROVE  /\ video_putPixel(fb, x, y, pixel) \in [Addresses -> Color32]
         /\ \A a \in Addresses : a \notin Target(x, y) => video_putPixel(fb, x, y, pixel)[a] = fb[a]
  BY StoredColor DEF video_putPixel

GlyphIn(p, c, fg, bg, g) ==
  /\ g \in [Addresses -> Color32]
  /\ \A a \in Addresses :
       (\A q \in CellBox(p) : a \notin Target(q.x, q.y)) => g[a] = fb[a]
  /\ magic = PSF2_MAGIC =>
       \A q \in CellBox(p) : \A a \in Target(q.x, q.y) : g[a] = Shade(c, q.bit, fg, bg)

(* A glyph drawn in a cell: its pixels are as its bits say, those outside  *)
(* are as before, and all are colours.                                     *)
LEMMA GlyphStored ==
  ASSUME fb \in [Addresses -> Color32],
         NEW p \in Cells, NEW c, NEW fg \in Opaque, NEW bg \in Opaque,
         NEW g, g = font_drawChar(fb, Origin(p)[1], Origin(p)[2], c, fg, bg, scale)
  PROVE  GlyphIn(p, c, fg, bg, g)
  <1>1. CASE magic # PSF2_MAGIC
    BY <1>1 DEF font_drawChar, GlyphIn
  <1>2. CASE magic = PSF2_MAGIC
    <2> DEFINE box == CellBox(p)
               puts == { [target |-> Target(q.x, q.y), bit |-> q.bit] : q \in box }
               put(a) == CHOOSE w \in puts : a \in w.target
               hit(a) == \E w \in puts : a \in w.target
               shade(a) == Shade(c, put(a).bit, fg, bg)
    <2>1. g = [a \in Addresses |-> IF hit(a) THEN Stored(fb[a], shade(a)) ELSE fb[a]]
      <3>1. scale \in Nat \ {0}
        BY VideoAssumption
      <3>2. Box(Origin(p)[1], Origin(p)[2], IF scale < 1 THEN 1 ELSE scale) = CellBox(p)
        BY <3>1 DEF Origin, CellBox
      <3> QED BY <1>2, <3>2 DEF font_drawChar
    <2>2. \A a : shade(a) \in Color32 /\ shade(a) \in Opaque
      BY VideoAssumption DEF Shade
    <2>3. \A a \in Addresses : Stored(fb[a], shade(a)) = shade(a)
      <3> HIDE DEF shade
      <3> QED BY <2>2, StoredColor
    <2>4. ASSUME NEW a \in Addresses
          PROVE  g[a] \in Color32 /\ (~hit(a) => g[a] = fb[a]) /\ (hit(a) => g[a] = shade(a))
      <3> HIDE DEF shade, hit
      <3> QED BY <2>1, <2>2, <2>3, <2>4
    <2>5. g \in [Addresses -> Color32]
      <3> HIDE DEF shade, hit
      <3> QED BY <2>1, <2>4
    <2>6. ASSUME NEW a
          PROVE  hit(a) <=> \E q \in CellBox(p) : a \in Target(q.x, q.y)
      <3>1. ASSUME NEW q \in CellBox(p), a \in Target(q.x, q.y) PROVE hit(a)
        <4>1. [target |-> Target(q.x, q.y), bit |-> q.bit] \in puts
          OBVIOUS
        <4> HIDE DEF puts
        <4> QED BY <3>1, <4>1
      <3>2. ASSUME hit(a) PROVE \E q \in CellBox(p) : a \in Target(q.x, q.y)
        <4>1. PICK w \in puts : a \in w.target
          BY <3>2
        <4>2. PICK q \in CellBox(p) : w = [target |-> Target(q.x, q.y), bit |-> q.bit]
          BY <4>1
        <4> QED BY <4>1, <4>2
      <3> QED BY <3>1, <3>2
    <2>7. ASSUME NEW q \in CellBox(p), NEW a \in Target(q.x, q.y)
          PROVE  g[a] = Shade(c, q.bit, fg, bg)
      <3>1. OnScreen(q.x, q.y) /\ a = Address(q.x, q.y) /\ q.x \in Nat /\ q.y \in Nat
        BY <2>7, CellAddress
      <3>2. a \in Addresses
        BY <3>1, AddressOnScreen
      <3>3. put(a) \in puts /\ a \in put(a).target
        BY <2>7, <2>6
      <3>4. PICK r \in CellBox(p) : put(a) = [target |-> Target(r.x, r.y), bit |-> r.bit]
        BY <3>3
      <3> HIDE DEF put, puts
      <3>5. a \in Target(r.x, r.y) /\ put(a).bit = r.bit
        BY <3>3, <3>4
      <3>6. OnScreen(r.x, r.y) /\ a = Address(r.x, r.y) /\ r.x \in Nat /\ r.y \in Nat
        BY <3>5, CellAddress
      <3>7. r.x = q.x /\ r.y = q.y
        BY <3>1, <3>6, PixelUnique
      <3>8. q = r
        BY <3>7, CellsApart
      <3>9. shade(a) = Shade(c, q.bit, fg, bg)
        BY <3>5, <3>8
      <3>10. hit(a)
        BY <2>6, <2>7
      <3> QED BY <2>4, <3>2, <3>9, <3>10
    <2>8. \A a \in Addresses :
            (\A q \in CellBox(p) : a \notin Target(q.x, q.y)) => g[a] = fb[a]
      BY <2>4, <2>6
    <2> QED BY <2>5, <2>7, <2>8 DEF GlyphIn
  <1> QED BY <1>1, <1>2

(* Clearing leaves the padding.                                            *)
LEMMA ClearedStored ==
  ASSUME fb \in [Addresses -> Color32]
  PROVE  /\ Cleared \in [Addresses -> Color32]
         /\ \A a \in Addresses : a % stride >= width => Cleared[a] = fb[a]
  <1>1. Black \in Color32
    BY DEF Black, Color32, Bytes
  <1>2. ASSUME NEW a \in Addresses PROVE ~(a % stride < width /\ a % stride >= width)
    <2>1. a \in Int /\ stride \in Nat \ {0} /\ width \in Nat
      BY VideoAssumption DEF Addresses
    <2>2. a % stride \in Int
      BY <2>1
    <2> QED BY <2>1, <2>2
  <1> QED BY <1>1, <1>2 DEF Cleared

-----------------------------------------------------------------------------
(* The invariant.                                                          *)

(* Nothing is drawn before video_initialize has accepted the framebuffer,  *)
(* nor ever if it has not.                                                 *)
Unused ==
  /\ ~isInit => /\ fb = [a \in Addresses |-> Padding]
                /\ drawn = [p \in Cells |-> Undrawn]
  /\ halted => ~isInit

Inv == TypeOK /\ Unused /\ PaddingUntouched

(* A step on a framebuffer in use that changes only pixels of the screen.  *)
LEMMA ScreenStep ==
  ASSUME Inv, isInit, isInit' = isInit, halted' = halted, TypeOK',
         \A a \in Addresses : a % stride >= width => fb'[a] = fb[a]
  PROVE  Inv'
  <1>1. ~halted
    BY DEF Inv, Unused
  <1>2. PaddingUntouched'
    BY <1>1 DEF Inv, PaddingUntouched
  <1> QED BY <1>1, <1>2 DEF Inv, Unused

(* An address cannot be on the screen and in the padding.                  *)
LEMMA NoPadding ==
  ASSUME NEW x \in Int, NEW y \in Int, NEW a \in Addresses, a % stride >= width
  PROVE  a \notin Target(x, y)
  <1> SUFFICES ASSUME a \in Target(x, y) PROVE FALSE
    OBVIOUS
  <1>1. a % stride < width
    BY TargetOnScreen
  <1>2. a % stride \in Int /\ width \in Int
    BY VideoAssumption DEF Addresses
  <1> QED BY <1>1, <1>2

(* video_initialize, clearing the framebuffer or rejecting it.             *)
LEMMA InitializeInv ==
  ASSUME Inv, video_initialize
  PROVE  Inv'
  <1>1. PICK response \in Responses :
          IF Usable(response)
          THEN fb' = Cleared /\ enableBlend' = FALSE /\ isInit' = TRUE /\ UNCHANGED halted
          ELSE halted' = TRUE /\ UNCHANGED <<fb, enableBlend, isInit>>
    BY DEF video_initialize
  <1>2. ~isInit /\ ~halted /\ drawn' = drawn /\ fb = [a \in Addresses |-> Padding]
        /\ fb \in [Addresses -> Color32]
    BY DEF video_initialize, Inv, Unused, TypeOK
  <1>3. CASE Usable(response)
    <2>1. TypeOK'
      BY <1>1, <1>2, <1>3, ClearedStored DEF Inv, TypeOK
    <2>2. \A a \in Addresses : a % stride >= width => fb'[a] = Padding
      BY <1>1, <1>2, <1>3, ClearedStored
    <2> QED BY <1>1, <1>2, <1>3, <2>1, <2>2 DEF Inv, Unused, PaddingUntouched
  <1>4. CASE ~Usable(response)
    <2>1. halted' = TRUE /\ UNCHANGED <<fb, enableBlend, isInit, drawn>>
      BY <1>1, <1>2, <1>4
    <2> QED BY <1>2, <2>1 DEF Inv, TypeOK, Unused, PaddingUntouched
  <1> QED BY <1>3, <1>4

(* A cell drawn.                                                           *)
LEMMA DrawInv ==
  ASSUME Inv, NEW p \in Cells, NEW c \in Characters, NEW fg \in Opaque, NEW bg \in Opaque,
         DrawCell(p, c, fg, bg)
  PROVE  Inv'
  <1>1. /\ isInit /\ UNCHANGED <<isInit, halted, enableBlend>>
        /\ fb' = font_drawChar(fb, Origin(p)[1], Origin(p)[2], c, fg, bg, scale)
        /\ drawn' = [drawn EXCEPT ![p] = [character |-> c, fgColor |-> fg, bgColor |-> bg]]
    BY DEF DrawCell
  <1>2. fb \in [Addresses -> Color32]
    BY DEF Inv, TypeOK
  <1>3. /\ fb' \in [Addresses -> Color32]
        /\ \A a \in Addresses : (\A q \in CellBox(p) : a \notin Target(q.x, q.y)) => fb'[a] = fb[a]
    <2>1. GlyphIn(p, c, fg, bg, fb')
      BY <1>1, <1>2, GlyphStored
    <2> QED BY <2>1 DEF GlyphIn
  <1>4. \A a \in Addresses : a % stride >= width => fb'[a] = fb[a]
    <2>1. ASSUME NEW q \in CellBox(p) PROVE q.x \in Int /\ q.y \in Int
      <3>1. q.x \in Nat /\ q.y \in Nat
        BY CellTarget
      <3> QED BY <3>1
    <2> QED BY <1>3, <2>1, NoPadding
  <1>5. TypeOK'
    BY <1>1, <1>3 DEF Inv, TypeOK
  <1> QED BY <1>1, <1>4, <1>5, ScreenStep

(* A pixel set.                                                            *)
LEMMA SetInv ==
  ASSUME Inv, NEW q \in Pixels, video_setPixel(q[1], q[2], q[3])
  PROVE  Inv'
  <1>1. q[1] \in Int /\ q[2] \in Int /\ q[3] \in Color32
    BY VideoAssumption DEF Coordinates
  <1>2. /\ isInit /\ UNCHANGED <<isInit, halted, enableBlend>>
        /\ fb' = video_putPixel(fb, q[1], q[2], q[3])
        /\ drawn' \in [Cells -> {Undrawn} \cup
                          [character : Characters, fgColor : Opaque, bgColor : Opaque]]
    BY DEF video_setPixel, Inv, TypeOK
  <1>3. /\ fb' \in [Addresses -> Color32]
        /\ \A a \in Addresses : a \notin Target(q[1], q[2]) => fb'[a] = fb[a]
    BY <1>1, <1>2, FramebufferStored DEF Inv, TypeOK
  <1>4. \A a \in Addresses : a % stride >= width => fb'[a] = fb[a]
    BY <1>1, <1>3, NoPadding
  <1>5. TypeOK'
    BY <1>2, <1>3 DEF Inv, TypeOK
  <1> QED BY <1>2, <1>4, <1>5, ScreenStep

(* Inv holds in every state: one step for each operation.                  *)
LEMMA InvIsInvariant == Spec => []Inv
  <1>1. Init => Inv
    <2> SUFFICES ASSUME Init PROVE Inv
      OBVIOUS
    <2>1. TypeOK
      BY VideoAssumption DEF Init, TypeOK
    <2>2. Unused /\ PaddingUntouched
      BY DEF Init, Unused, PaddingUntouched
    <2> QED BY <2>1, <2>2 DEF Inv
  <1>2. Inv /\ [Next]_vars => Inv'
    <2> SUFFICES ASSUME Inv, [Next]_vars PROVE Inv'
      OBVIOUS
    <2>1. CASE video_initialize
      BY <2>1, InitializeInv
    <2>2. ASSUME NEW p \in Cells, NEW c \in Characters, NEW style \in Styles,
                 DrawCell(p, c, style[1], style[2])
          PROVE  Inv'
      <3>1. style[1] \in Opaque /\ style[2] \in Opaque
        BY VideoAssumption
      <3> QED BY <2>2, <3>1, DrawInv
    <2>3. ASSUME NEW q \in Pixels, video_setPixel(q[1], q[2], q[3])
          PROVE  Inv'
      BY <2>3, SetInv
    <2>4. CASE video_clear
      <3>1. /\ isInit /\ UNCHANGED <<isInit, halted, enableBlend>>
            /\ fb' = Cleared /\ drawn' = [p \in Cells |-> Undrawn]
            /\ fb \in [Addresses -> Color32]
        BY <2>4 DEF video_clear, Inv, TypeOK
      <3>2. TypeOK'
        BY <3>1, ClearedStored DEF Inv, TypeOK
      <3> QED BY <3>1, <3>2, ClearedStored, ScreenStep
    <2>5. CASE video_setEnableBlend
      <3>1. TypeOK' /\ UNCHANGED <<fb, isInit, halted>> /\ isInit
        BY <2>5 DEF video_setEnableBlend, Inv, TypeOK
      <3> QED BY <3>1, ScreenStep
    <2>6. CASE UNCHANGED vars
      BY <2>6 DEF vars, Inv, TypeOK, Unused, PaddingUntouched
    <2> QED BY <2>1, <2>2, <2>3, <2>4, <2>5, <2>6 DEF Next
  <1> QED BY <1>1, <1>2, PTL DEF Spec

(* Every variable has its type, and every pixel a colour of four bytes,    *)
(* however often colours are blended.                                      *)
THEOREM TypeCorrect == Spec => []TypeOK
  <1>1. Inv => TypeOK
    BY DEF Inv
  <1> QED BY <1>1, InvIsInvariant, PTL

(* No operation writes between two rows of the screen, nor at all on a     *)
(* framebuffer that was rejected, whatever the sizes and the coordinates.  *)
THEOREM PaddingAlwaysUntouched == Spec => []PaddingUntouched
  <1>1. Inv => PaddingUntouched
    BY DEF Inv
  <1> QED BY <1>1, InvIsInvariant, PTL

-----------------------------------------------------------------------------
(* What the cells show.                                                    *)

(* The file is a font, and Picture is what its bytes stand for.            *)
FontFile ==
  /\ magic = PSF2_MAGIC
  /\ \A c \in Characters, row \in 0 .. glyphHeight - 1, col \in 0 .. glyphWidth - 1 :
       Picture[c % numglyph][<<row, col>>] <=> IsSet(c, row, col)

Showing(p) ==
  drawn[p] # Undrawn =>
    \A q \in CellBox(p) : OnScreen(q.x, q.y) =>
      fb[Address(q.x, q.y)] =
        IF Picture[drawn[p].character % numglyph][q.bit] THEN drawn[p].fgColor
                                                         ELSE drawn[p].bgColor

(* A cell whose pixels and history a step leaves alone goes on showing.    *)
LEMMA Undisturbed ==
  ASSUME NEW p \in Cells, Showing(p), drawn'[p] \in {Undrawn, drawn[p]},
         drawn'[p] # Undrawn =>
           \A q \in CellBox(p) : OnScreen(q.x, q.y) =>
             fb'[Address(q.x, q.y)] = fb[Address(q.x, q.y)]
  PROVE  Showing(p)'
  BY DEF Showing

(* Drawing a cell shows it, and leaves the others.                         *)
LEMMA DrawShows ==
  ASSUME FontFile, Inv, CellsShowGlyphs,
         NEW p \in Cells, NEW c \in Characters, NEW fg \in Opaque, NEW bg \in Opaque,
         DrawCell(p, c, fg, bg), NEW o \in Cells
  PROVE  Showing(o)'
  <1>1. /\ fb' = font_drawChar(fb, Origin(p)[1], Origin(p)[2], c, fg, bg, scale)
        /\ drawn' = [drawn EXCEPT ![p] = [character |-> c, fgColor |-> fg, bgColor |-> bg]]
        /\ drawn \in [Cells -> {Undrawn} \cup
                         [character : Characters, fgColor : Opaque, bgColor : Opaque]]
        /\ fb \in [Addresses -> Color32]
    BY DEF DrawCell, Inv, TypeOK
  <1>2. /\ \A a \in Addresses :
             (\A q \in CellBox(p) : a \notin Target(q.x, q.y)) => fb'[a] = fb[a]
        /\ \A q \in CellBox(p) : \A a \in Target(q.x, q.y) : fb'[a] = Shade(c, q.bit, fg, bg)
    <2>1. GlyphIn(p, c, fg, bg, fb')
      BY <1>1, GlyphStored
    <2> QED BY <2>1 DEF GlyphIn, FontFile
  <1>3. CASE o = p
    <2> SUFFICES ASSUME NEW q \in CellBox(p), OnScreen(q.x, q.y)
                 PROVE  fb'[Address(q.x, q.y)] =
                          IF Picture[c % numglyph][q.bit] THEN fg ELSE bg
      BY <1>1, <1>3 DEF Showing
    <2>1. fb'[Address(q.x, q.y)] = Shade(c, q.bit, fg, bg)
      BY <1>2, CellTarget
    <2>2. PICK row \in 0 .. glyphHeight - 1, col \in 0 .. glyphWidth - 1 : q.bit = <<row, col>>
      BY CellPixel
    <2>3. Picture[c % numglyph][q.bit] <=> IsSet(c, row, col)
      BY <2>2 DEF FontFile
    <2>4. Shade(c, q.bit, fg, bg) = IF IsSet(c, row, col) THEN fg ELSE bg
      BY <2>2 DEF Shade
    <2> QED BY <2>1, <2>3, <2>4
  <1>4. CASE o # p
    <2>1. ASSUME NEW q \in CellBox(o), OnScreen(q.x, q.y)
          PROVE  fb'[Address(q.x, q.y)] = fb[Address(q.x, q.y)]
      <3>1. q.x \in Nat /\ q.y \in Nat
        BY CellTarget
      <3>2. ASSUME NEW r \in CellBox(p), Address(q.x, q.y) \in Target(r.x, r.y) PROVE FALSE
        <4>1. /\ r.x \in Nat /\ r.y \in Nat /\ OnScreen(r.x, r.y)
              /\ Address(q.x, q.y) = Address(r.x, r.y)
          BY <3>2, CellAddress
        <4>2. q.x = r.x /\ q.y = r.y
          BY <2>1, <3>1, <4>1, PixelUnique
        <4> QED BY <1>4, <4>2, CellsApart
      <3>3. Address(q.x, q.y) \in Addresses
        BY <2>1, <3>1, AddressOnScreen
      <3> QED BY <1>2, <3>2, <3>3
    <2>2. drawn'[o] = drawn[o]
      BY <1>1, <1>4
    <2>3. Showing(o)
      BY DEF CellsShowGlyphs, Showing
    <2> QED BY <2>1, <2>2, <2>3, Undisturbed
  <1> QED BY <1>3, <1>4

(* Setting a pixel leaves the cells it does not fall on.                   *)
LEMMA SetShows ==
  ASSUME Inv, CellsShowGlyphs, NEW q \in Pixels, video_setPixel(q[1], q[2], q[3]), NEW p \in Cells
  PROVE  Showing(p)'
  <1>1. q[1] \in Coordinates /\ q[2] \in Coordinates /\ q[3] \in Color32
    BY VideoAssumption
  <1>2. /\ fb' = video_putPixel(fb, q[1], q[2], q[3])
        /\ drawn'[p] = IF \E r \in CellBox(p) : <<r.x, r.y>> = <<q[1], q[2]>> THEN Undrawn
                                                                          ELSE drawn[p]
    BY DEF video_setPixel
  <1>3. \A a \in Addresses : a \notin Target(q[1], q[2]) => fb'[a] = fb[a]
    BY <1>1, <1>2, FramebufferStored DEF Inv, TypeOK, Coordinates
  <1>4. ASSUME drawn'[p] # Undrawn, NEW r \in CellBox(p), OnScreen(r.x, r.y)
        PROVE  fb'[Address(r.x, r.y)] = fb[Address(r.x, r.y)]
    <2>1. r.x \in Nat /\ r.y \in Nat
      BY CellTarget
    <2>2. Address(r.x, r.y) \in Addresses
      BY <1>4, <2>1, AddressOnScreen
    <2>3. ASSUME Address(r.x, r.y) \in Target(q[1], q[2]) PROVE FALSE
      <3> DEFINE x == Unsigned(q[1])  y == Unsigned(q[2])
      <3>1. OnScreen(x, y) /\ Address(r.x, r.y) = Address(x, y)
        BY <2>3 DEF Target
      <3>2. x = q[1] /\ y = q[2]
        BY <1>1, <3>1, UnsignedOnScreen
      <3>3. x \in Nat /\ y \in Nat
        <4>1. UINT32 \in Nat \ {0}
          BY VideoAssumption
        <4> QED BY <1>1, <4>1 DEF Unsigned, Coordinates
      <3> HIDE DEF x, y
      <3>4. r.x = x /\ r.y = y
        BY <1>4, <2>1, <3>1, <3>3, PixelUnique
      <3> QED BY <1>2, <1>4, <3>2, <3>4
    <2> QED BY <1>3, <2>2, <2>3
  <1>5. Showing(p)
    BY DEF CellsShowGlyphs, Showing
  <1> QED BY <1>2, <1>4, <1>5, Undisturbed

(* What terminal_render drew of a cell stays on the screen, pixel by pixel,*)
(* until something else is drawn there, also while blending is on, for any *)
(* sizes of the screen, the font and the terminal, and wherever the edges  *)
(* of the screen cut the cells: provided that the file is a font.          *)
THEOREM CellsAlwaysShowGlyphs ==
  ASSUME FontFile
  PROVE  Spec => []CellsShowGlyphs
  <1>1. Init => CellsShowGlyphs
    BY DEF Init, CellsShowGlyphs
  <1>2. Inv /\ CellsShowGlyphs /\ [Next]_vars => CellsShowGlyphs'
    <2> SUFFICES ASSUME Inv, CellsShowGlyphs, [Next]_vars, NEW p \in Cells
                 PROVE  Showing(p)'
      BY DEF CellsShowGlyphs, Showing
    <2>1. Showing(p)
      BY DEF CellsShowGlyphs, Showing
    <2>2. CASE video_initialize
      <3>1. drawn' = [o \in Cells |-> Undrawn]
        BY <2>2 DEF video_initialize, Inv, Unused
      <3> QED BY <3>1 DEF Showing
    <2>3. ASSUME NEW o \in Cells, NEW c \in Characters, NEW style \in Styles,
                 DrawCell(o, c, style[1], style[2])
          PROVE  Showing(p)'
      <3>1. style[1] \in Opaque /\ style[2] \in Opaque
        BY VideoAssumption
      <3> QED BY <2>3, <3>1, DrawShows
    <2>4. ASSUME NEW q \in Pixels, video_setPixel(q[1], q[2], q[3])
          PROVE  Showing(p)'
      BY <2>4, SetShows
    <2>5. CASE video_clear
      BY <2>5 DEF video_clear, Showing
    <2>6. CASE video_setEnableBlend \/ UNCHANGED vars
      <3>1. fb' = fb /\ drawn' = drawn
        BY <2>6 DEF video_setEnableBlend, vars
      <3> QED BY <2>1, <3>1, Undisturbed
    <2> QED BY <2>2, <2>3, <2>4, <2>5, <2>6 DEF Next
  <1> QED BY <1>1, <1>2, InvIsInvariant, PTL DEF Spec
=============================================================================
