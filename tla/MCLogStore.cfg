SPECIFICATION Spec
CONSTANTS
  t1 = t1
  t2 = t2
  Missing = Missing
  NoEntry = NoEntry
  NoTask = NoTask
  NoPath = NoPath
  Tasks <- MCTasks
  Walkers <- MCWalkers
  LeftBehind <- MCLeftBehind
  Requests <- MCRequests
  PageSize = 1
  RetentionDays = 1
  Quota = 2
  MaxTime = 2
  MaxNotes = 1
  MaxFaults = 1
  MaxStarts = 1
INVARIANTS
  TypeOK
  CacheIsExact
  PagesCover
PROPERTIES
  SessionsAreSpared
  RetentionHolds
  EverySessionEnds
CHECK_DEADLOCK FALSE
