SPECIFICATION FairSpec
CONSTANTS
  Addresses = {s1, s2, s3}
  Kinds <- AllKinds
  Strategies <- AllStrategies
  MaxCalls = 4
  MaxDepth = 12
  MaxTime = 8
  MaxLag = 1
  CallsUntil = 2
  Null = Null
INVARIANTS
  AnimatorSound
PROPERTIES
  AllEnd
CHECK_DEADLOCK FALSE
