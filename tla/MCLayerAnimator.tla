--------------------------- MODULE MCLayerAnimator ---------------------------
(* A finite instance of LayerAnimator for TLC. *)
EXTENDS LayerAnimator

\* Two properties, transform and bounds, alone and together; one sequence of
\* no duration.
AllKinds == {[props |-> {"T"}, duration |-> 1], [props |-> {"B"}, duration |-> 1],
             [props |-> {"T", "B"}, duration |-> 2], [props |-> {"T"}, duration |-> 0]}
AllStrategies == {"set", "animate", "enqueue", "replace"}
=============================================================================
