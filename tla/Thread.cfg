SPECIFICATION FairSpec
CONSTANTS
  MaxStarts = 3
  MaxPosts = 4
  Starters = {2}
INVARIANTS
  SharingSafe
  TasksRun
PROPERTIES
  CallsReturn
CHECK_DEADLOCK FALSE
