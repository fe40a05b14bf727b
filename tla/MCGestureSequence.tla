------------------------- MODULE MCGestureSequence --------------------------
EXTENDS GestureSequence, TLC

\* All that a touch id is used for is to tell one point from another.
Symmetry == Permutations(Points)
=============================================================================
