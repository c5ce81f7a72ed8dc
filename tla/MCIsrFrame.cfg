SPECIFICATION Spec
CONSTANTS
  Exceptions = {2, 3, 8, 14, 21}
  Irqs = {33}
  BYTE = 4
  isr_table <- MCIsrTable
  tss_address = 50617
  kernel_stack = 57344
  MaxDepth = 2
  MaxLocals = 2
INVARIANTS TypeOK FrameMatchesStruct StackAligned TablesLead
PROPERTIES Transparent
CHECK_DEADLOCK FALSE
