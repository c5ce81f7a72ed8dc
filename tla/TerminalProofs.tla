--------------------------- MODULE TerminalProofs ---------------------------
(***************************************************************************)
(* Proofs about the terminal, for every size of the grid, every tab stop   *)
(* and every set of characters and colours.                                *)
(***************************************************************************)
EXTENDS Terminal, TLAPS

-----------------------------------------------------------------------------
(* Values. *)

(* A cursor that passes SAFETY_CHECK names a cell.                         *)
LEMMA CursorPosition ==
  ASSUME TypeOK, terminal_isSafe
  PROVE  cursor \in Positions
  BY SizesAssumption DEF TypeOK, terminal_isSafe, cursor, Positions, Rows, Columns

(* A character in the current colours is a cell.                           *)
LEMMA TerminalCharType ==
  ASSUME TypeOK, NEW c \in Characters
  PROVE  TerminalChar(c) \in Cells
  BY DEF TypeOK, TerminalChar, Cells

(* Writing a character at the cursor leaves a grid.                        *)
LEMMA PutType ==
  ASSUME TypeOK, NEW c \in Characters
  PROVE  Put(c) \in [Positions -> Cells]
  BY TerminalCharType DEF TypeOK, Put

(* Scrolling a grid leaves a grid.                                         *)
LEMMA ScrolledType ==
  ASSUME TypeOK, NEW grid \in [Positions -> Cells]
  PROVE  Scrolled(grid) \in [Positions -> Cells]
  <1> SUFFICES ASSUME NEW p \in Positions
               PROVE  (IF p[1] < VGA_HEIGHT - 1 THEN grid[<<p[1] + 1, p[2]>>]
                                                ELSE TerminalChar(Space)) \in Cells
    BY DEF Scrolled
  <1>1. CASE p[1] < VGA_HEIGHT - 1
    <2>1. <<p[1] + 1, p[2]>> \in Positions
      BY <1>1, SizesAssumption DEF Positions, Rows, Columns
    <2> QED BY <1>1, <2>1
  <1>2. CASE ~(p[1] < VGA_HEIGHT - 1)
    BY <1>2, TerminalCharType, DataAssumption
  <1> QED BY <1>1, <1>2

-----------------------------------------------------------------------------
(* Types. They are inductive by themselves: no operation relies on what    *)
(* the screen shows.                                                       *)

(* Going to the next row, from any grid.                                   *)
LEMMA NextRowType ==
  ASSUME TypeOK, NEW grid \in [Positions -> Cells], NEW dirty \in SUBSET Positions,
         ToNextRow(grid, dirty), UNCHANGED <<colors, screen>>, isInit' \in BOOLEAN
  PROVE  TypeOK'
  <1>1. terminal_row' \in Nat /\ terminal_column' \in Nat
    BY DEF TypeOK, ToNextRow
  <1>2. Scrolled(grid) \in [Positions -> Cells]
    BY ScrolledType
  <1>3. terminal_buffer' \in [Positions -> Cells] /\ dirty_buffer' \in SUBSET Positions
    BY <1>2 DEF ToNextRow
  <1> QED BY <1>1, <1>3 DEF TypeOK, colors

(* Every operation keeps the types. *)
LEMMA TypeStep ==
  ASSUME TypeOK, Next
  PROVE  TypeOK'
  <1>0. isInit' \in BOOLEAN
    BY DEF Next, video_initialize, TypeOK
  <1> USE <1>0
  <1>1. CASE terminal_newLine
    BY <1>1, NextRowType DEF terminal_newLine, TypeOK
  <1>2. CASE terminal_indent
    <2>1. CASE NextTab >= VGA_WIDTH /\ terminal_newLine
      BY <1>1, <2>1
    <2>2. CASE ~(NextTab >= VGA_WIDTH /\ terminal_newLine)
      <3>1. terminal_column % TabStop \in 0 .. TabStop - 1
        BY SizesAssumption DEF TypeOK
      <3>2. NextTab \in Nat
        BY <3>1, SizesAssumption DEF TypeOK, NextTab
      <3>3. terminal_column' = NextTab /\ UNCHANGED <<terminal_row, cells, colors, screen>>
        BY <1>2, <2>2 DEF terminal_indent
      <3> QED BY <3>2, <3>3 DEF TypeOK, cells, colors
    <2> QED BY <1>2, <2>1, <2>2 DEF terminal_indent
  <1>3. ASSUME NEW c \in Characters, terminal_putchar(c)
        PROVE  TypeOK'
    <2> DEFINE dirty == dirty_buffer \cup {cursor}
    <2>1. Put(c) \in [Positions -> Cells] /\ dirty \in SUBSET Positions
      BY <1>3, PutType, CursorPosition DEF TypeOK, terminal_putchar
    <2>2. CASE ToNextRow(Put(c), dirty)
      BY <1>3, <2>1, <2>2, NextRowType DEF terminal_putchar
    <2>3. CASE ~ToNextRow(Put(c), dirty)
      BY <1>3, <2>1, <2>3 DEF terminal_putchar, TypeOK, colors
    <2> QED BY <2>2, <2>3
  <1>4. CASE terminal_clear
    BY <1>4, TerminalCharType, DataAssumption DEF terminal_clear, TypeOK, colors
  <1>5. CASE terminal_scroll
    BY <1>5, ScrolledType DEF terminal_scroll, TypeOK, colors
  <1>6. CASE terminal_render
    BY <1>6 DEF terminal_render, TypeOK, colors
  <1>7. ASSUME NEW c \in Characters, NEW fg \in Colors, NEW bg \in Colors,
               NEW p \in Positions, terminal_putentryat(c, fg, bg, p)
        PROVE  TypeOK'
    <2>1. [character |-> c, bgColor |-> bg, fgColor |-> fg] \in Cells
      BY DEF Cells
    <2> QED BY <1>7, <2>1 DEF terminal_putentryat, TypeOK, colors
  <1>8. ASSUME NEW color \in Colors,
               terminal_setBackground(color) \/ terminal_setForeground(color)
        PROVE  TypeOK'
    BY <1>8 DEF terminal_setBackground, terminal_setForeground, TypeOK, cells
  <1>9. ASSUME NEW p \in CursorPositions, terminal_setCursorPosition(p[1], p[2])
        PROVE  TypeOK'
    <2>1. p[1] \in Nat /\ p[2] \in Nat
      BY DataAssumption
    <2> QED BY <1>9, <2>1 DEF terminal_setCursorPosition, TypeOK, cells, colors
  <1>10. CASE video_initialize
    BY <1>10 DEF video_initialize, TypeOK, cells, colors
  <1> QED BY <1>1, <1>2, <1>3, <1>4, <1>5, <1>6, <1>7, <1>8, <1>9, <1>10
    DEF Next, Operation

-----------------------------------------------------------------------------
(* The invariant: types, and clean cells are shown. It is inductive as it  *)
(* stands, because every operation that changes a cell flags it, and the   *)
(* one that moves rows flags every cell.                                   *)

Inv == TypeOK /\ CleanIsShown

(* Inv holds after terminal_initialize: everything is flagged.             *)
LEMMA InitInv == Init => Inv
  <1> SUFFICES ASSUME Init PROVE Inv
    OBVIOUS
  <1>1. Blank \in Cells
    BY DataAssumption DEF Blank, Cells
  <1> QED BY <1>1, DataAssumption DEF Init, terminal_initialize, Inv, TypeOK, CleanIsShown

(* Going to the next row from a grid that differs from the current one     *)
(* only in cells that are flagged.                                         *)
LEMMA NextRowClean ==
  ASSUME NEW grid, NEW dirty, \A p \in Positions \ dirty : screen[p] = grid[p],
         ToNextRow(grid, dirty), UNCHANGED screen
  PROVE  CleanIsShown'
  BY DEF CleanIsShown, ToNextRow

(* Every operation flags the cells that it changes.                        *)
LEMMA CleanStep ==
  ASSUME Inv, Next
  PROVE  CleanIsShown'
  <1> USE DEF Inv, CleanIsShown
  <1>1. CASE terminal_newLine
    BY <1>1, NextRowClean DEF terminal_newLine
  <1>2. CASE terminal_indent
    BY <1>1, <1>2 DEF terminal_indent, cells
  <1>3. ASSUME NEW c \in Characters, terminal_putchar(c)
        PROVE  CleanIsShown'
    <2> DEFINE dirty == dirty_buffer \cup {cursor}
    <2>1. \A p \in Positions \ dirty : screen[p] = Put(c)[p]
      BY DEF TypeOK, Put
    <2>2. CASE ToNextRow(Put(c), dirty)
      BY <1>3, <2>1, <2>2, NextRowClean DEF terminal_putchar
    <2>3. CASE ~ToNextRow(Put(c), dirty)
      BY <1>3, <2>1, <2>3 DEF terminal_putchar
    <2> QED BY <2>2, <2>3
  <1>4. CASE terminal_clear \/ terminal_scroll
    BY <1>4 DEF terminal_clear, terminal_scroll
  <1>5. CASE terminal_render
    BY <1>5 DEF terminal_render
  <1>6. ASSUME NEW c \in Characters, NEW fg \in Colors, NEW bg \in Colors,
               NEW p \in Positions, terminal_putentryat(c, fg, bg, p)
        PROVE  CleanIsShown'
    BY <1>6 DEF terminal_putentryat, TypeOK
  <1>7. ASSUME NEW color \in Colors,
               terminal_setBackground(color) \/ terminal_setForeground(color)
        PROVE  CleanIsShown'
    BY <1>7 DEF terminal_setBackground, terminal_setForeground, cells
  <1>8. ASSUME NEW p \in CursorPositions, terminal_setCursorPosition(p[1], p[2])
        PROVE  CleanIsShown'
    BY <1>8 DEF terminal_setCursorPosition, cells
  <1>9. CASE video_initialize
    BY <1>9 DEF video_initialize, cells
  <1> QED BY <1>1, <1>2, <1>3, <1>4, <1>5, <1>6, <1>7, <1>8, <1>9
    DEF Next, Operation

(* All operations but terminal_setCursorPosition keep a cursor inside that *)
(* is inside.                                                              *)
LEMMA SafeStep ==
  ASSUME TypeOK, Next, terminal_isSafe
  PROVE  \/ terminal_isSafe'
         \/ \E p \in CursorPositions : terminal_setCursorPosition(p[1], p[2])
  <1>1. ASSUME NEW grid, NEW dirty, ToNextRow(grid, dirty)
        PROVE  terminal_isSafe'
    BY <1>1, SizesAssumption DEF TypeOK, ToNextRow, OnLastRow, terminal_isSafe
  <1>2. CASE terminal_newLine
    BY <1>1, <1>2 DEF terminal_newLine
  <1>3. CASE terminal_indent
    BY <1>2, <1>3 DEF terminal_indent, terminal_isSafe
  <1>4. ASSUME NEW c \in Characters, terminal_putchar(c)
        PROVE  terminal_isSafe'
    BY <1>1, <1>4, SizesAssumption DEF TypeOK, terminal_putchar, terminal_isSafe
  <1>5. CASE UNCHANGED <<terminal_row, terminal_column>>
    BY <1>5 DEF terminal_isSafe
  <1> QED
    BY <1>2, <1>3, <1>4, <1>5 DEF Next, Operation, terminal_clear, terminal_scroll, terminal_render,
       video_initialize, terminal_putentryat, terminal_setBackground, terminal_setForeground

(* Every step keeps Inv. *)
LEMMA StepInv == Inv /\ [Next]_vars => Inv'
  <1> SUFFICES ASSUME Inv, [Next]_vars PROVE Inv'
    OBVIOUS
  <1>1. CASE Next
    BY <1>1, TypeStep, CleanStep DEF Inv
  <1>2. CASE UNCHANGED vars
    BY <1>2 DEF vars, Inv, TypeOK, CleanIsShown
  <1> QED BY <1>1, <1>2

(* Spec => []Inv, from which the other theorems follow.                    *)
THEOREM InvHolds == Spec => []Inv
  BY InitInv, StepInv, PTL DEF Spec

(* Every variable keeps its type: no operation writes outside the grid.    *)
THEOREM TypeCorrect == Spec => []TypeOK
  BY InvHolds, PTL DEF Inv

(* terminal_render may skip the clean cells: the screen shows them.        *)
THEOREM CleanCellsShown == Spec => []CleanIsShown
  BY InvHolds, PTL DEF Inv

(* Only terminal_setCursorPosition can put the cursor outside the grid.    *)
THEOREM CursorInside == Spec => CursorStaysInside
  <1>1. Inv /\ [Next]_vars =>
          [terminal_isSafe =>
             \/ terminal_isSafe'
             \/ \E p \in CursorPositions : terminal_setCursorPosition(p[1], p[2])]_vars
    BY SafeStep DEF Inv
  <1> QED BY InvHolds, <1>1, PTL DEF Spec, CursorStaysInside

-----------------------------------------------------------------------------
(* Text is kept. *)

(* A step that writes at most one cell and does not scroll.                *)
LEMMA StayKept ==
  ASSUME NEW q \in Positions,
         \A p \in Positions \ {q} : terminal_buffer'[p] = terminal_buffer[p]
  PROVE  Kept(0)
  <1>1. \A p \in Positions : p[1] >= 0 /\ <<p[1] - 0, p[2]>> = p
    BY SizesAssumption DEF Positions, Rows, Columns
  <1> QED BY <1>1 DEF Kept

(* Writing at most one cell and then scrolling. *)
LEMMA ScrollKept ==
  ASSUME NEW q \in Positions, NEW grid,
         \A p \in Positions \ {q} : grid[p] = terminal_buffer[p],
         terminal_buffer' = Scrolled(grid)
  PROVE  Kept(1)
  <1> SUFFICES ASSUME NEW p \in Positions \ {q}
               PROVE  IF p[1] >= 1
                      THEN terminal_buffer'[<<p[1] - 1, p[2]>>] = terminal_buffer[p]
                      ELSE terminal_buffer'[<<VGA_HEIGHT - 1, p[2]>>] = TerminalChar(Space)
    BY DEF Kept
  <1>1. p = <<p[1], p[2]>> /\ p[1] \in Rows /\ p[2] \in Columns
    BY DEF Positions
  <1>2. CASE p[1] >= 1
    <2> DEFINE r == <<p[1] - 1, p[2]>>
    <2>1. r \in Positions /\ r[1] < VGA_HEIGHT - 1 /\ <<r[1] + 1, r[2]>> = p
      BY <1>1, <1>2, SizesAssumption DEF Positions, Rows
    <2>2. terminal_buffer'[r] = grid[p]
      BY <2>1 DEF Scrolled
    <2> QED BY <1>2, <2>2
  <1>3. CASE ~(p[1] >= 1)
    <2> DEFINE r == <<VGA_HEIGHT - 1, p[2]>>
    <2>1. r \in Positions /\ ~(r[1] < VGA_HEIGHT - 1)
      BY <1>1, SizesAssumption DEF Positions, Rows
    <2>2. terminal_buffer'[r] = TerminalChar(Space)
      BY <2>1 DEF Scrolled
    <2> QED BY <1>3, <2>2
  <1> QED BY <1>2, <1>3

(* Going to the next row after writing at most one cell loses nothing      *)
(* but the first row, and that only on the last row.                       *)
LEMMA NextRowKept ==
  ASSUME NEW q \in Positions, NEW grid, NEW dirty,
         \A p \in Positions \ {q} : grid[p] = terminal_buffer[p],
         ToNextRow(grid, dirty)
  PROVE  Kept(0) \/ Kept(1)
  <1>1. CASE OnLastRow
    BY <1>1, ScrollKept DEF ToNextRow
  <1>2. CASE ~OnLastRow
    BY <1>2, StayKept DEF ToNextRow
  <1> QED BY <1>1, <1>2

(* Every operation but terminal_clear keeps the text.                      *)
LEMMA StepKept ==
  ASSUME Inv, Next, ~terminal_clear
  PROVE  Kept(0) \/ Kept(1)
  <1>0. PICK o : o \in Positions
    <2>1. <<0, 0>> \in Positions
      BY SizesAssumption DEF Positions, Rows, Columns
    <2> QED BY <2>1
  <1>1. CASE UNCHANGED terminal_buffer
    BY <1>0, <1>1, StayKept
  <1>2. CASE terminal_newLine
    BY <1>0, <1>2, NextRowKept DEF terminal_newLine
  <1>3. CASE terminal_indent
    BY <1>1, <1>2, <1>3 DEF terminal_indent, cells
  <1>4. CASE terminal_scroll
    BY <1>0, <1>4, ScrollKept DEF terminal_scroll
  <1>5. ASSUME NEW c \in Characters, terminal_putchar(c) PROVE Kept(0) \/ Kept(1)
    <2>1. /\ cursor \in Positions
          /\ \A p \in Positions \ {cursor} : Put(c)[p] = terminal_buffer[p]
      BY <1>5, CursorPosition DEF Inv, TypeOK, Put, terminal_putchar
    <2>2. CASE ToNextRow(Put(c), dirty_buffer \cup {cursor})
      BY <2>1, <2>2, NextRowKept
    <2>3. CASE terminal_buffer' = Put(c)
      BY <2>1, <2>3, StayKept
    <2> QED BY <1>5, <2>2, <2>3 DEF terminal_putchar
  <1>6. ASSUME NEW c \in Characters, NEW fg \in Colors, NEW bg \in Colors,
               NEW p \in Positions, terminal_putentryat(c, fg, bg, p)
        PROVE  Kept(0) \/ Kept(1)
    BY <1>6, StayKept DEF terminal_putentryat, Inv, TypeOK
  <1>7. CASE terminal_render
    BY <1>1, <1>7 DEF terminal_render
  <1>8. ASSUME NEW color \in Colors,
               terminal_setBackground(color) \/ terminal_setForeground(color)
        PROVE  Kept(0) \/ Kept(1)
    BY <1>1, <1>8 DEF terminal_setBackground, terminal_setForeground, cells
  <1>9. ASSUME NEW p \in CursorPositions, terminal_setCursorPosition(p[1], p[2])
        PROVE  Kept(0) \/ Kept(1)
    BY <1>1, <1>9 DEF terminal_setCursorPosition, cells
  <1>10. CASE video_initialize
    BY <1>1, <1>10 DEF video_initialize, cells
  <1> QED BY <1>2, <1>3, <1>4, <1>5, <1>6, <1>7, <1>8, <1>9, <1>10
    DEF Next, Operation

(* Unless it is cleared, the terminal loses no text but the row that       *)
(* scrolls off the top, and moves no text but by scrolling.                *)
THEOREM NoTextLost == Spec => TextKept
  <1>1. Inv /\ [Next]_vars => [~terminal_clear => Kept(0) \/ Kept(1)]_vars
    BY StepKept
  <1> QED BY InvHolds, <1>1, PTL DEF Spec, TextKept
=============================================================================
