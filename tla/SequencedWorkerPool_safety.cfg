SPECIFICATION Spec
CONSTANTS
  Tasks = {t1, t2}
  Posters = {p1}
  Flushers = {f1}
  Names = {n1}
  Behaviors = {"CONTINUE_ON_SHUTDOWN", "SKIP_ON_SHUTDOWN", "BLOCK_SHUTDOWN"}
  max_threads_ = 2
  MaxTokens = 1
  Spurious = TRUE
  NoThread = NoThread
  NoTask = NoTask
  NoName = NoName
SYMMETRY TaskSymmetry
INVARIANTS
  TypeOK
  CountsAgree
  SequenceExclusive
  OneThreadAtATime
  ShutdownBlocks
  EndsClean
PROPERTIES
  FlushIdle
  StartInOrder
CHECK_DEADLOCK FALSE
