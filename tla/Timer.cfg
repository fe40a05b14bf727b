SPECIFICATION FairTimerSpec
CONSTANTS
  Kinds = {"OneShot", "Repeating", "Delay"}
  Delays = {0, 1, 3}
  MaxTime = 5
  MaxTimerTasks = 3
  MaxSkew = 1
INVARIANTS
  TaskKept
PROPERTIES
  NeverEarly
  OneShotEnds
CHECK_DEADLOCK FALSE
