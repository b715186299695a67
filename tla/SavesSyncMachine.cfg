SPECIFICATION Spec
CONSTANTS
  a = a
  f1 = f1
  f2 = f2
  Machine <- OneMachine
  Slot <- OneSlot
  File <- TwoFiles
  OpsOff <- EveryCommand
  OpsPaused <- Reload
  OpsOn <- None
  LocalKeep = 1
  Keep = 2
  Others = TRUE
  MaxVer = 2
  MaxGen = 3
  MaxAsked = 1
  MaxLost = 1
  MaxKilled = 1
  MaxBroken = 1
  MaxFaults = 1
CHECK_DEADLOCK FALSE
SYMMETRY FileSymmetry
INVARIANTS JournalIsTrue GenerationsAreWhole SyncPlacesOnlyOverSynced RestoreStandsOnline
