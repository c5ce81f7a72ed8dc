SPECIFICATION Spec
CONSTANTS
  VGA_WIDTH = 3
  VGA_HEIGHT = 2
  TabStop = 2
  DefaultBg = black
  DefaultFg = grey
  Undrawn = Undrawn
  Space = "space"
  Newline = "nl"
  Tab = "tab"
  KeyChars = {"a", "nl", "tab"}
  NUL = "NUL"
  Waiting = "Waiting"
  Capacity = 2
  BootTexts <- MCBootTexts
  Unknown = Unknown
  Changed = Changed
  Greeting <- Hello
  Message <- Panic
  MaxTyped = 2
  MaxFrames = 3
INVARIANTS TypeOK EchoedInOrder LineCarries MessageSent ScreenShowsEcho
PROPERTIES EveryKeyShown ExceptionHalts
CHECK_DEADLOCK FALSE
