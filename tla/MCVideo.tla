------------------------------ MODULE MCVideo -------------------------------
(* Glyphs of 9 x 2 pixels, whose rows fill two bytes, at scale 2, on a       *)
(* framebuffer that cuts the last column and the last row of cells, with one *)
(* pixel of padding to each row. The first cell's corner is also set         *)
(* directly, blended and not, and so are pixels beyond each edge.            *)
EXTENDS Video

CONSTANT Unmapped   \* a page fault: the kernel maps nothing at the low addresses

Color(value, alpha) == [b |-> value, g |-> 255 - value, r |-> 0, a |-> alpha]

(* The second glyph: its first, eighth and ninth pixel, then all but these.  *)
MCGlyphs == <<0, 0, 0, 0, 129, 128, 126, 0>>

MCPicture ==
  [ch \in 0 .. 1 |-> [bit \in (0 .. 1) \X (0 .. 8) |->
     ch = 1 /\ ((bit[1] = 0) <=> (bit[2] \in {0, 7, 8}))]]

Colors == {Color(0, 255), Color(192, 255)}

MCStyles == { style \in Colors \X Colors : style[1] # style[2] }

MCResponses ==
  { [framebuffers |-> 0, bpp |-> 32], [framebuffers |-> 1, bpp |-> 24],
    [framebuffers |-> 1, bpp |-> 32] }

Touched ==
  { <<0, 0, Color(255, 128)>>, <<1, 0, Color(90, 0)>>, <<0, 0, Color(255, 255)>>,
    <<width, 1, Color(7, 255)>>, <<-1, 0, Color(7, 255)>>, <<0, height, Color(7, 255)>> }

Pad == Color(1, 1)

LowMemory(address) == Unmapped
=============================================================================
