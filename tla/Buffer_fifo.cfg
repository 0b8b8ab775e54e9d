SPECIFICATION Spec
CONSTANTS
  SizeMod = 64
  Bytes = {0, 1}
  Size = 5
  Chunks <- SomeChunks
  Errors = {1}
  MaxViews = 2
CHECK_DEADLOCK FALSE
INVARIANTS
  AssertsHold
PROPERTIES
  ImplementsQueue
