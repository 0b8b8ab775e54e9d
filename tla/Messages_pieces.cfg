SPECIFICATION Spec
CONSTANTS
  Huge = 1000000
  SizeMod = 4096
  FDs = {f1}
  None = None
  Sent <- MixedMessages
  MaxSent = 2
  MaxConns = 1
  BufSize = 48
  Stale = {0, 15}
  Cut = TRUE
CHECK_DEADLOCK FALSE
INVARIANTS
  NoFault
  HandledInOrder
  RegisteredOnce
  TwoReadsEach
