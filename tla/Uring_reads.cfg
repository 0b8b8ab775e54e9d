SPECIFICATION Spec
CONSTANTS
  FDs = {f1, f2}
  Channels = {c1, c2}
  NoChannel = NoChannel
  NoFd = NoFd
  Openers = {"accept", "connect"}
  Senders = {t1}
  QueueSize = 3
  BufSize = 2
  MaxLen = 1
  MaxSends = 1
  MinIndex = 1
  ErrnoMayBeSet = TRUE
  TaskKept = TRUE
  SizeMod = 64
CHECK_DEADLOCK FALSE
SYMMETRY ChannelSymmetry
INVARIANTS
  OneReadToken
  ReadsPointToLiveChannel
  ReceiveTargetStable
  ReadAssertsHold
  SlotBound
  ReceivesKeepSlots
