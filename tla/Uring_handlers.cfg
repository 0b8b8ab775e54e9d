SPECIFICATION FairSpec
CONSTANTS
  FDs = {f1, f2}
  Channels = {c1, c2}
  NoChannel = NoChannel
  NoFd = NoFd
  Openers = {"accept"}
  Senders = {}
  QueueSize = 3
  BufSize = 2
  MaxLen = 1
  MaxSends = 2
  MinIndex = 1
  ErrnoMayBeSet = FALSE
  TaskKept = TRUE
  SizeMod = 64
CHECK_DEADLOCK FALSE
INVARIANTS
  SendFlagCountsWrites
  WriteAssertsHold
PROPERTIES
  ClosedFdsAreQuiet
  ReadsAreSubmitted
  EndedConnectionsClose
