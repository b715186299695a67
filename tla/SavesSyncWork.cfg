SPECIFICATION Spec
CONSTANTS
  a = a
  f1 = f1
  f2 = f2
  Machine <- OneMachine
  Slot <- TwoSlots
  File <- OneFile
  OpsOff <- SyncOnly
  OpsPaused <- None
  OpsOn <- None
  LocalKeep = 2
  Keep = 2
  Others = TRUE
  MaxVer = 2
  MaxGen = 3
  MaxAsked = 0
  MaxLost = 0
  MaxKilled = 0
  MaxBroken = 0
  MaxFaults = 0
CHECK_DEADLOCK FALSE
PROPERTIES WorkIsKept
