SPECIFICATION Spec
CONSTANTS
  Events = {1, 2}
  ManualReset = {1}
  Threads = {t1, t2, t3}
  WaitLists <- BothOrders
  MaxCalls = 6
  NoThread = NoThread
  NoEvent = NoEvent
SYMMETRY ThreadSymmetry
INVARIANTS
  WaitersSound
  NoLockCycle
PROPERTIES
  ImplementsContract
CHECK_DEADLOCK FALSE
