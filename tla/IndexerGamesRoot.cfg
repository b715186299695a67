SPECIFICATION Spec
CONSTANTS
  Game = {"a"}
  Base = {"a1", "a2"}
  Extra = {"u"}
  Of <- MCOf
  Before <- MCBefore
  Full = {"full"}
  Matching = {"match"}
  SweepLimit = 50
  MaxRuns = 3
  MaxTurns = 4
  MaxFaults = 0
  MaxDrops = 0
CHECK_DEADLOCK FALSE
INVARIANT PrunedIsServed
