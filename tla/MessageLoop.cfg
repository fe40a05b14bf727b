SPECIFICATION FairSpec
CONSTANTS
  Tasks = {t1, t2}
  Posters = {p1}
  NoTask = NoTask
  NoThread = NoThread
  PostKinds <- MixedKinds
  NestedRuns <- ReturningRuns
  MaxTime = 3
  MaxDepth = 2
  SeqMod = 8
  FirstSeq = 7
  DtorLimit = 2
INVARIANTS
  Consistent
  SleepsRight
  NestingRules
  NoUseAfterDestroy
PROPERTIES
  QuitDrains
  StartOrder
  Progress
CHECK_DEADLOCK FALSE
