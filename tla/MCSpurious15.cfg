SPECIFICATION Spec
CONSTANTS
  Exceptions = {}
  SlaveLines = {0}
  MaxDepth = 2
PROPERTY SpuriousToMasterOnly
CHECK_DEADLOCK FALSE
