SPECIFICATION FairSpec
CONSTANTS
  Timers = {t1, t2, t3}
  NoTimer = NoTimer
  NeedTimers = {t1}
  Clients = {c1, c2}
  Ids = {i1}
  NoId = NoId
  Round = 2
  Interval = 1
  Delays = {1}
  MaxTime = 1
  CodeTakesTime = TRUE
CHECK_DEADLOCK FALSE
INVARIANTS
  SlotsInWheel
  EveryTimerInOnePlace
PROPERTIES
  NeverEarly
  OneShotsRun
  WheelTurns
