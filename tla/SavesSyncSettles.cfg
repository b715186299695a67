SPECIFICATION FairSpec
CONSTANTS
  a = a
  f1 = f1
  f2 = f2
  Machine <- OneMachine
  Slot <- OneSlot
  File <- TwoFiles
  OpsOff <- SyncOnly
  OpsPaused <- None
  OpsOn <- None
  LocalKeep = 2
  Keep = 2
  Others = TRUE
  MaxVer = 2
  MaxGen = 3
  MaxAsked = 0
  MaxLost = 1
  MaxKilled = 1
  MaxBroken = 0
  MaxFaults = 2
CHECK_DEADLOCK FALSE
PROPERTIES EventuallySettled EventuallyTogether
INVARIANTS WatcherLeavesNothing ConflictIsRealAlone
