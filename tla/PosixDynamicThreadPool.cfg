SPECIFICATION FairPoolSpec
CONSTANTS
  Workers = {w1, w2, w3, w4}
  MaxTasks = 4
INVARIANTS
  PoolTypeOK
  EachTaskHasAThread
PROPERTIES
  Progress
CHECK_DEADLOCK FALSE
