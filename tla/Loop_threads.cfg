SPECIFICATION FairSpec
CONSTANTS
  Runners = {r1, r2}
  NewThreads = {r1}
  Callers = {c1, c2}
  Tasks = {t1}
  NoTask = NoTask
  NoLoop = NoLoop
  Free = Free
  MaxTemp = 2
  MaxBegins = 2
CHECK_DEADLOCK FALSE
INVARIANTS
  TempTasksOnce
  TempTasksInOrder
PROPERTIES
  TempTasksRun
  ClosedInLoopEnds
