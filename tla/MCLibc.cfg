SPECIFICATION LibcSpec
CONSTANTS
  IntHalf = 16
  LongHalf = 64
  IntSize = 4
  UIntSize = 3
  LongSize = 4
  Power <- Powers
  Formats <- MCFormats
  Ints <- MCInts
  UInts <- MCUInts
  Longs <- MCLongs
  ULongs <- MCULongs
  Letters = {"c"}
  Strings <- MCStrings
  Cases <- MCCases
  Size = 6
  UCHAR = 8
  Contents <- MCContents
  Calls <- MCCalls
INVARIANTS TypeOK DigitBufferHolds Rendered ReadsBack RegionMoved Compared
PROPERTIES EveryCallReturns
CHECK_DEADLOCK FALSE
