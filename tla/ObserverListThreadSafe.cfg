SPECIFICATION Spec
CONSTANTS
  Threads = {t1, t2}
  Observers = {o1, o2}
  Addresses = {a1, a2, a3}
  MaxCalls = 6
  MaxNotes = 2
  MaxDepth = 2
  Null = Null
SYMMETRY Symmetry
INVARIANTS
  ContextsSound
PROPERTIES
  TellsAll
CHECK_DEADLOCK FALSE
