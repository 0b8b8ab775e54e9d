SPECIFICATION Spec
CONSTANTS
  Threads = {a1}
  Worker = Worker
  None = None
  OverFlow = OverFlow
  Blocks = 11
  bufSize = 2
  bufNum = 4
  OverIndex = 1
  maxSizePreFile = 3
  printMes = FALSE
CHECK_DEADLOCK FALSE
INVARIANTS
  AppendedIsInLog
  NoFault
  BatchesKeepOrder
PROPERTIES
  LostOnlyByOverflow
