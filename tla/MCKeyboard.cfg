SPECIFICATION Spec
CONSTANTS
  KB_BUFFER_SIZE = 4
  Keys = {"A", "Ctrl", "LShift", "RShift"}
  ShiftKeys = {"LShift", "RShift"}
  scancode_to_ascii <- Plain
  scancode_to_ascii_shift <- Shifted
  NUL = NUL
  Waiting = Waiting
INVARIANTS TypeOK ShiftNotStuck
PROPERTIES QueueSpec ChosenSlotIsStable LossOnlyWhenFull EveryCharTaken
