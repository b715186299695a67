SPECIFICATION Spec
CONSTANTS
  Game = {"a", "b"}
  Run = {"r1", "r2"}
  Refresh = {}
  GIVE_UP_AFTER = 2
CHECK_DEADLOCK FALSE
INVARIANT MissIsAnAnswer
