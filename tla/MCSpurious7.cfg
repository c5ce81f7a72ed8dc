SPECIFICATION Spec
CONSTANTS
  Exceptions = {}
  SlaveLines = {0}
  MaxDepth = 2
PROPERTY SpuriousNotAcknowledged
CHECK_DEADLOCK FALSE
