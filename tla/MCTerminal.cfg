SPECIFICATION Spec
CONSTANTS
  VGA_WIDTH = 3
  VGA_HEIGHT = 2
  TabStop = 2
  Characters = {a, space}
  Space = space
  Colors = {grey}
  DefaultBg = grey
  DefaultFg = grey
  CursorPositions <- Corners
  Undrawn = Undrawn
INVARIANTS TypeOK CleanIsShown
PROPERTIES CursorStaysInside TextKept
CHECK_DEADLOCK FALSE
