SPECIFICATION Spec
CONSTANTS
  Exceptions = {2, 8, 13}
  SlaveLines = {0}
  MaxDepth = 3
INVARIANTS TypeOK HandlerInstalled NothingLeftInService HandlersDoNotNest KeyboardNotStuck
PROPERTIES OwnAcknowledge KeyServed RequestServed
CHECK_DEADLOCK FALSE
