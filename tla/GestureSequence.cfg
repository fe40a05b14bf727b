SPECIFICATION Spec
CONSTANTS
  Touches = {f1, f2, f3, f4, f5, f6, f7}
  Points = {f1, f2, f3, f4, f5, f6}
  ReleasesSeen = TRUE
SYMMETRY Symmetry
INVARIANTS
  SequenceSound
PROPERTIES
  GesturesInTurn
CHECK_DEADLOCK FALSE
