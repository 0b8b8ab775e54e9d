SPECIFICATION Spec
CONSTANTS
  FDs = {f1}
  Channels = {c1}
  NoChannel = NoChannel
  NoFd = NoFd
  Openers = {"accept"}
  Senders = {}
  QueueSize = 3
  BufSize = 2
  MaxLen = 0
  MaxSends = 0
  MinIndex = 1
  ErrnoMayBeSet = FALSE
  TaskKept = FALSE
  SizeMod = 64
CHECK_DEADLOCK FALSE
INVARIANTS
  CoroutineResumes
