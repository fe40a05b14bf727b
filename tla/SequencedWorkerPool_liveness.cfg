SPECIFICATION FairSpec
CONSTANTS
  Tasks = {t1, t2}
  Posters = {p1}
  Flushers = {}
  Names = {}
  Behaviors = {"SKIP_ON_SHUTDOWN", "BLOCK_SHUTDOWN"}
  max_threads_ = 2
  MaxTokens = 1
  Spurious = FALSE
  NoThread = NoThread
  NoTask = NoTask
  NoName = NoName
PROPERTIES
  TasksServed
  ShutdownEnds
CHECK_DEADLOCK FALSE
