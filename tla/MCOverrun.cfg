SPECIFICATION Spec
CONSTANTS
  Exceptions = {9}
  SlaveLines = {0}
  MaxDepth = 2
INVARIANT OverrunIgnored
CHECK_DEADLOCK FALSE
