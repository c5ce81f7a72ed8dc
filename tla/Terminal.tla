------------------------------ MODULE Terminal ------------------------------
(***************************************************************************)
(* The text terminal (kernel/arch/x86_64/tty.c): a grid of characters with *)
(* a cursor, and a flag per cell that tells terminal_render which cells    *)
(* the screen does not show yet. Every operation is one step: an exception *)
(* in the middle of one never returns to it.                               *)
(***************************************************************************)
EXTENDS Integers, FiniteSets

CONSTANTS
  VGA_WIDTH, VGA_HEIGHT,   \* 80 and 40 in the code
  TabStop,                 \* 4 in the code
  Characters,              \* what can be printed, apart from '\n' and '\t'
  Space,                   \* the character of a cleared cell
  Colors,                  \* the colours in use
  DefaultBg, DefaultFg,    \* the colours terminal_initialize sets
  CursorPositions,         \* the arguments given to terminal_setCursorPosition
  Undrawn                  \* what the screen shows where nothing was rendered

ASSUME SizesAssumption ==
  /\ VGA_WIDTH \in Nat \ {0}
  /\ VGA_HEIGHT \in Nat \ {0}
  /\ TabStop \in Nat \ {0}

ASSUME DataAssumption ==
  /\ Space \in Characters
  /\ DefaultBg \in Colors /\ DefaultFg \in Colors
  /\ CursorPositions \subseteq Nat \X Nat

VARIABLES
  terminal_row, terminal_column,   \* the cursor
  terminal_buffer,                 \* the cell at <<row, column>>
  dirty_buffer,                    \* the set of positions flagged dirty
  backgroundColor, foregroundColor,
  screen,                          \* what was last drawn of each cell
  isInit                           \* video.c's: there is a framebuffer to draw on

cursor == <<terminal_row, terminal_column>>
colors == <<backgroundColor, foregroundColor>>
cells  == <<terminal_buffer, dirty_buffer>>
vars   == <<terminal_row, terminal_column, terminal_buffer, dirty_buffer,
            backgroundColor, foregroundColor, screen, isInit>>

Rows      == 0 .. VGA_HEIGHT - 1
Columns   == 0 .. VGA_WIDTH - 1
Positions == Rows \X Columns

Cells == [character : Characters, bgColor : Colors, fgColor : Colors]

-----------------------------------------------------------------------------
(* Helpers: the functions of tty.c that the operations call, as values.    *)

TerminalChar(c) ==
  [character |-> c, bgColor |-> backgroundColor, fgColor |-> foregroundColor]

(* SAFETY_CHECK: with the cursor outside, an operation does nothing.       *)
terminal_isSafe == terminal_row < VGA_HEIGHT /\ terminal_column < VGA_WIDTH

(* Variants named Bad... hold a plausible mistake; no specification uses   *)
(* one. They show which mistakes the properties below would notice.       *)
BadPut(c) ==
  [p \in Positions \cup {<<terminal_row, terminal_column + 1>>} |->
     IF p = <<terminal_row, terminal_column + 1>> THEN TerminalChar(c) ELSE terminal_buffer[p]]

(* The grid after terminal_putTerminalCharAt at the cursor.                *)
Put(c) == [terminal_buffer EXCEPT ![cursor] = TerminalChar(c)]

BadScrolled(grid) ==
  [p \in Positions |-> IF p[1] < VGA_HEIGHT - 1 THEN grid[<<p[1] + 1, p[2]>>]
                                                ELSE grid[p]]

(* terminal_scroll moves every row up and clears the last one.             *)
Scrolled(grid) ==
  [p \in Positions |-> IF p[1] < VGA_HEIGHT - 1 THEN grid[<<p[1] + 1, p[2]>>]
                                                ELSE TerminalChar(Space)]

(* The next row, of which the last has none.                               *)
OnLastRow == terminal_row + 1 = VGA_HEIGHT

BadToNextRow(grid, dirty) ==
  /\ terminal_column' = 0
  /\ terminal_row' = IF OnLastRow THEN terminal_row ELSE terminal_row + 1
  /\ terminal_buffer' = IF OnLastRow THEN Scrolled(grid) ELSE grid
  /\ dirty_buffer' = IF OnLastRow THEN dirty \cup ({VGA_HEIGHT - 1} \X Columns) ELSE dirty

BadRowBound(grid, dirty) ==
  /\ terminal_column' = 0
  /\ terminal_row' = terminal_row + 1
  /\ terminal_buffer' = IF OnLastRow THEN Scrolled(grid) ELSE grid
  /\ dirty_buffer' = IF OnLastRow THEN Positions ELSE dirty

(* The cursor goes to the start of the next row; below the last row the    *)
(* grid scrolls instead, and every cell must be drawn again.               *)
ToNextRow(grid, dirty) ==
  /\ terminal_column' = 0
  /\ terminal_row' = IF OnLastRow THEN terminal_row ELSE terminal_row + 1
  /\ terminal_buffer' = IF OnLastRow THEN Scrolled(grid) ELSE grid
  /\ dirty_buffer' = IF OnLastRow THEN Positions ELSE dirty

-----------------------------------------------------------------------------
Blank == [character |-> Space, bgColor |-> DefaultBg, fgColor |-> DefaultFg]

(* What terminal_initialize leaves, before its message is printed.         *)
terminal_initialize ==
  /\ terminal_row = 0
  /\ terminal_column = 0
  /\ backgroundColor = DefaultBg
  /\ foregroundColor = DefaultFg
  /\ terminal_buffer = [p \in Positions |-> Blank]
  /\ dirty_buffer = Positions
  /\ screen = [p \in Positions |-> Undrawn]

(* _start initialises the terminal first, the framebuffer later.           *)
Init == terminal_initialize /\ isInit = FALSE

-----------------------------------------------------------------------------
(* The operations. Only video_initialize sets isInit (Next).               *)

terminal_clear ==
  /\ terminal_isSafe
  /\ terminal_buffer' = [p \in Positions |-> TerminalChar(Space)]
  /\ dirty_buffer' = Positions
  /\ UNCHANGED <<terminal_row, terminal_column, colors, screen>>

terminal_putchar(c) ==
  /\ terminal_isSafe
  /\ LET dirty == dirty_buffer \cup {cursor}
     IN \/ /\ terminal_column + 1 = VGA_WIDTH
           /\ ToNextRow(Put(c), dirty)
        \/ /\ terminal_column + 1 # VGA_WIDTH
           /\ terminal_column' = terminal_column + 1
           /\ terminal_buffer' = Put(c)
           /\ dirty_buffer' = dirty
           /\ UNCHANGED terminal_row
  /\ UNCHANGED <<colors, screen>>

terminal_newLine ==
  /\ terminal_isSafe
  /\ ToNextRow(terminal_buffer, dirty_buffer)
  /\ UNCHANGED <<colors, screen>>

NextTab == terminal_column + (TabStop - (terminal_column % TabStop))

(* terminal_indent: to the next tab stop, on the next row if there is none *)
(* in this one.                                                            *)
terminal_indent ==
  \/ NextTab >= VGA_WIDTH /\ terminal_newLine
  \/ /\ terminal_isSafe
     /\ NextTab < VGA_WIDTH
     /\ terminal_column' = NextTab
     /\ UNCHANGED <<terminal_row, cells, colors, screen>>

terminal_scroll ==
  /\ terminal_isSafe
  /\ terminal_buffer' = Scrolled(terminal_buffer)
  /\ dirty_buffer' = Positions
  /\ UNCHANGED <<terminal_row, terminal_column, colors, screen>>

(* terminal_putentryat writes one cell anywhere on the grid.               *)
terminal_putentryat(c, fg, bg, p) ==
  /\ terminal_buffer' = [terminal_buffer EXCEPT
                           ![p] = [character |-> c, bgColor |-> bg, fgColor |-> fg]]
  /\ dirty_buffer' = dirty_buffer \cup {p}
  /\ UNCHANGED <<terminal_row, terminal_column, colors, screen>>

terminal_setBackground(color) ==
  /\ backgroundColor' = color
  /\ UNCHANGED <<terminal_row, terminal_column, cells, foregroundColor, screen>>

terminal_setForeground(color) ==
  /\ foregroundColor' = color
  /\ UNCHANGED <<terminal_row, terminal_column, cells, backgroundColor, screen>>

(* Not checked by the code: it may put the cursor outside.                 *)
terminal_setCursorPosition(row, column) ==
  /\ terminal_row' = row
  /\ terminal_column' = column
  /\ UNCHANGED <<cells, colors, screen>>

(* video_initialize succeeds (Video). *)
video_initialize ==
  /\ ~isInit
  /\ isInit' = TRUE
  /\ UNCHANGED <<terminal_row, terminal_column, cells, colors, screen>>

(* terminal_render draws the dirty cells and clears their flags; without a *)
(* framebuffer it does neither. The place and the scale are those of its   *)
(* only caller, kernel_main: always the corner (0, 0) and 2.               *)
terminal_render ==
  /\ isInit
  /\ screen' = [p \in Positions |-> IF p \in dirty_buffer THEN terminal_buffer[p]
                                                          ELSE screen[p]]
  /\ dirty_buffer' = {}
  /\ UNCHANGED <<terminal_row, terminal_column, terminal_buffer, colors>>

Operation ==
  \/ terminal_clear \/ terminal_newLine \/ terminal_indent \/ terminal_scroll \/ terminal_render
  \/ \E c \in Characters : terminal_putchar(c)
  \/ \E c \in Characters, fg, bg \in Colors, p \in Positions : terminal_putentryat(c, fg, bg, p)
  \/ \E color \in Colors : terminal_setBackground(color) \/ terminal_setForeground(color)
  \/ \E p \in CursorPositions : terminal_setCursorPosition(p[1], p[2])

Next == video_initialize \/ (Operation /\ UNCHANGED isInit)

Spec == Init /\ [][Next]_vars

-----------------------------------------------------------------------------
(* Properties. *)

(* Every variable has its type; the grid has exactly its cells.            *)
TypeOK ==
  /\ terminal_row \in Nat /\ terminal_column \in Nat
  /\ terminal_buffer \in [Positions -> Cells]
  /\ dirty_buffer \in SUBSET Positions
  /\ backgroundColor \in Colors /\ foregroundColor \in Colors
  /\ screen \in [Positions -> Cells \cup {Undrawn}]
  /\ isInit \in BOOLEAN

(* terminal_render skips a cell only if the screen already shows it: a     *)
(* cell that is not flagged dirty shows its current character and colours, *)
(* whatever was printed, scrolled or cleared since.                        *)
CleanIsShown == \A p \in Positions \ dirty_buffer : screen[p] = terminal_buffer[p]

(* Once it is outside the grid the cursor freezes the terminal, so no      *)
(* operation but terminal_setCursorPosition may put it there.              *)
CursorStaysInside ==
  [][terminal_isSafe =>
       \/ terminal_isSafe'
       \/ \E p \in CursorPositions : terminal_setCursorPosition(p[1], p[2])]_vars

(* Printing loses no text but the row that scrolls off the top: unless the *)
(* terminal is cleared, the rows either stay or all move up by one, every  *)
(* cell but one keeps its content, and a row that appears is blank.        *)
Kept(shift) ==
  \E q \in Positions : \A p \in Positions \ {q} :
    IF p[1] >= shift
    THEN terminal_buffer'[<<p[1] - shift, p[2]>>] = terminal_buffer[p]
    ELSE terminal_buffer'[<<VGA_HEIGHT - 1, p[2]>>] = TerminalChar(Space)

TextKept == [][~terminal_clear => Kept(0) \/ Kept(1)]_vars
=============================================================================
