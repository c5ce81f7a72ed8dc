----------------------------- MODULE MCTerminal -----------------------------
(* Two rows of three columns with a tab stop in the middle. The cursor is    *)
(* set to the first cell, below the last row and right of the last column.   *)
EXTENDS Terminal

Corners == {<<0, 0>>, <<VGA_HEIGHT, 0>>, <<0, VGA_WIDTH>>}
=============================================================================
