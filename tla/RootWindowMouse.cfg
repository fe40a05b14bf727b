SPECIFICATION FairMouseSpec
CONSTANTS
  Windows = {w1, w2}
  NULL = NULL
  Calls = {"Hide", "Show", "Hold", "Release", "SetCapture", "ReleaseCapture", "SetHostBounds", "OnHostResized"}
  MaxEvents = 4
  MaxCalls = 3
  MaxHolds = 2
INVARIANTS
  MovesSound
PROPERTIES
  HeldMoveGoes
CHECK_DEADLOCK FALSE
