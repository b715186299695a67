SPECIFICATION Spec
CONSTANTS
  a = a
  f1 = f1
  f2 = f2
  Machine <- OneMachine
  Slot <- OneSlot
  File <- TwoFiles
  OpsOff <- NoGame
  OpsPaused <- None
  OpsOn <- None
  LocalKeep = 2
  Keep = 2
  Others = TRUE
  MaxVer = 3
  MaxGen = 3
  MaxAsked = 1
  MaxLost = 1
  MaxKilled = 0
  MaxBroken = 0
  MaxFaults = 2
CHECK_DEADLOCK FALSE
INVARIANTS RestoreStands
