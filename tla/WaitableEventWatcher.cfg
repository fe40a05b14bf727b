SPECIFICATION FairSpec
CONSTANTS
  Events = {e1, e2}
  ManualReset = {e1}
  Watchers = {w1, w2}
  Addresses = {a1, a2}
  MaxWatches = 2
  MaxSignals = 2
  None = None
INVARIANTS
  WatchesSound
PROPERTIES
  NoCallAfterStop
  SignalReported
CHECK_DEADLOCK FALSE
