SPECIFICATION FairSpec
CONSTANTS
  Threads = {a1}
  Worker = Worker
  None = None
  OverFlow = OverFlow
  Blocks = 6
  bufSize = 2
  bufNum = 3
  OverIndex = 1
  maxSizePreFile = 3
  printMes = TRUE
CHECK_DEADLOCK FALSE
INVARIANTS
  BuffersConserved
PROPERTIES
  CallsReturn
