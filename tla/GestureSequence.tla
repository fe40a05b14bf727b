-------------------------- MODULE GestureSequence ---------------------------
(***************************************************************************)
(* ui/base/gestures/gesture_sequence.cc: the state machine that turns the  *)
(* touches of one consumer into gestures.  What positions, velocities and  *)
(* times decide (is it a click, is it close enough) is a choice.           *)
(***************************************************************************)
EXTENDS Integers, FiniteSets, SequencesExt

CONSTANTS
  Touches,        \* touch ids of the device
  Points,         \* those below kMaxGesturePoints
  ReleasesSeen    \* no handler consumes the release of a touch whose press it let pass

ASSUME PointsAssumption ==
  /\ IsFiniteSet(Points) /\ Points \subseteq Touches /\ ReleasesSeen \in BOOLEAN
  /\ {"scroll", "pinch"} \cap Touches = {}   \* open holds touches and these two

VARIABLES
  state_, scroll_type_, point_count_,
  point_id,           \* of each of points_, -1 when it is not in use
  long_press_timer_,  \* it runs
  gestures,           \* made by the latest event
  down,               \* the fingers on the screen
  open,               \* history: the gestures and touches that have begun and not ended
  tapped              \* history: the fingers are what is left of a two-finger tap, after
                      \* which they scroll though no scroll has begun

vars == <<state_, scroll_type_, point_count_, point_id, long_press_timer_, gestures, down, open, tapped>>

kMaxGesturePoints == Cardinality(Points)
GestureState == {"NO_GESTURE", "PENDING_SYNTHETIC_CLICK", "SCROLL", "PINCH", "PENDING_TWO_FINGER_TAP"}
ScrollType == {"FREE", "HORIZONTAL", "VERTICAL"}
EventType == {"PRESSED", "MOVED", "STATIONARY", "RELEASED", "CANCELLED"}
Up == {"RELEASED", "CANCELLED"}
Event == [type : EventType, id : Touches]

\* A list with one gesture or, as the data decides, with none.
Perhaps(g) == {<<>>, <<g>>}

\* What has begun and not ended after the gestures gs.
After(gs) ==
  (open \cup (IF Contains(gs, "SCROLL_BEGIN") THEN {"scroll"} ELSE {})
        \cup (IF Contains(gs, "PINCH_BEGIN") THEN {"pinch"} ELSE {}))
     \ ((IF Contains(gs, "SCROLL_END") THEN {"scroll"} ELSE {})
        \cup (IF Contains(gs, "PINCH_END") THEN {"pinch"} ELSE {}))

-----------------------------------------------------------------------------
(* The frame of ProcessTouchEventForGesture: what comes before and after   *)
(* the switch.                                                             *)

\* Fingers go down once and up once; a cancelled touch is still released.
Arrives(e) ==
  /\ (e.type = "PRESSED") = (e.id \notin down)
  /\ down' = CASE e.type = "PRESSED"  -> down \cup {e.id}
               [] e.type = "RELEASED" -> down \ {e.id}
               [] OTHER               -> down

\* The early returns.
Returns(e) ==
  e.id \in Points => IF e.type = "PRESSED" THEN point_count_ = kMaxGesturePoints
                                            ELSE point_id[e.id] < 0

\* The id that the event's point has in the switch.
PointId(e) == IF e.type = "PRESSED" THEN point_count_ ELSE point_id[e.id]

Signature(e, states, ids, types) ==
  /\ Arrives(e) /\ ~Returns(e)
  /\ state_ \in states /\ PointId(e) \in ids /\ e.type \in types

\* Variant: the ids keep their gaps.
Renumber_Gaps(e) ==
  CASE e.type = "PRESSED" -> [point_id EXCEPT ![e.id] = point_count_]
    [] e.type \in Up      -> [point_id EXCEPT ![e.id] = -1]
    [] OTHER              -> point_id

\* "The set of point_ids must be contiguous and include 0."
Renumber(e) ==
  CASE e.type = "PRESSED" -> [point_id EXCEPT ![e.id] = point_count_]
    [] e.type \in Up ->
         [p \in Points |-> IF p = e.id THEN -1
                           ELSE IF point_id[p] > point_id[e.id] THEN point_id[p] - 1
                           ELSE point_id[p]]
    [] OTHER -> point_id

\* Variant: nothing stops the timer.
StopTimer_Never(state) == FALSE

\* A gesture that is no longer a click ends the wait for a long press.
StopTimer(state) == state_ = "PENDING_SYNTHETIC_CLICK" /\ state # state_

\* One of the two fingers is lifted, until all are or the next two-finger tap.
AfterTap(state) ==
  \/ state_ = "PENDING_TWO_FINGER_TAP" /\ state = "SCROLL"
  \/ tapped /\ state \in {"SCROLL", "PINCH"}

Finish(e, state, gs) ==
  /\ state_' = state
  /\ point_id' = Renumber(e)
  /\ point_count_' = point_count_ + (CASE e.type = "PRESSED" -> 1 [] e.type \in Up -> -1 [] OTHER -> 0)
  /\ gestures' = (IF e.type = "PRESSED" THEN <<"BEGIN">> ELSE <<>>) \o gs
                   \o (IF e.type \in Up THEN <<"END">> ELSE <<>>)
  /\ open' = (After(gs) \cup (IF e.type = "PRESSED" THEN {e.id} ELSE {}))
               \ (IF e.type \in Up THEN {e.id} ELSE {})
  /\ tapped' = AfterTap(state)

KeepTimer(state) == long_press_timer_' = (long_press_timer_ /\ ~StopTimer(state))

-----------------------------------------------------------------------------
(* The cases of the switch *)

TouchDown(e) ==
  /\ Signature(e, {"NO_GESTURE"}, {0}, {"PRESSED"})
  /\ Finish(e, "PENDING_SYNTHETIC_CLICK", <<"TAP_DOWN">>)
  /\ long_press_timer_' = TRUE
  /\ UNCHANGED scroll_type_

Click(e) ==
  /\ Signature(e, {"PENDING_SYNTHETIC_CLICK"}, {0}, {"RELEASED"})
  /\ \E gs \in {<<>>, <<"TAP">>, <<"TAP", "DOUBLE_TAP">>} : Finish(e, "NO_GESTURE", gs)
  /\ KeepTimer("NO_GESTURE")
  /\ UNCHANGED scroll_type_

\* A finger that has not left the click's window, or too little.
NoScrollYet(e) ==
  /\ Signature(e, {"PENDING_SYNTHETIC_CLICK"}, {0}, {"MOVED", "STATIONARY"})
  /\ Finish(e, state_, <<>>)
  /\ KeepTimer(state_)
  /\ UNCHANGED scroll_type_

ScrollStart(e) ==
  /\ Signature(e, {"PENDING_SYNTHETIC_CLICK"}, {0}, {"MOVED"})
  /\ \E gs \in Perhaps("SCROLL_UPDATE") : Finish(e, "SCROLL", <<"SCROLL_BEGIN">> \o gs)
  /\ scroll_type_' \in ScrollType
  /\ KeepTimer("SCROLL")

\* Reset, for all points.
NoGesture(e) ==
  /\ Signature(e, {"PENDING_SYNTHETIC_CLICK"}, {0}, {"CANCELLED"})
  /\ state_' = "NO_GESTURE" /\ gestures' = <<"END">>
  /\ point_id' = [p \in Points |-> -1] /\ point_count_' = 0
  /\ open' = open \ {e.id} /\ tapped' = FALSE
  /\ KeepTimer("NO_GESTURE")
  /\ UNCHANGED scroll_type_

\* BreakRailScroll and ScrollUpdate.
ScrollUpdate(e) ==
  /\ Signature(e, {"SCROLL"}, {0}, {"MOVED"})
  /\ scroll_type_' \in {scroll_type_, "FREE"}
  /\ \E gs \in Perhaps("SCROLL_UPDATE") : Finish(e, state_, gs)
  /\ KeepTimer(state_)

ScrollEnd(e) ==
  /\ Signature(e, {"SCROLL"}, {0}, Up)
  /\ \E gs \in {<<"SCROLL_END">>} \cup (IF e.type = "RELEASED" THEN {<<"SCROLL_END", "FLING_START">>} ELSE {}) :
       Finish(e, "NO_GESTURE", gs)
  /\ KeepTimer("NO_GESTURE")
  /\ UNCHANGED scroll_type_

\* A second finger close to the first.
TwoFingerTouchDown(e) ==
  /\ Signature(e, {"SCROLL", "PENDING_SYNTHETIC_CLICK"}, {1}, {"PRESSED"})
  /\ Finish(e, "PENDING_TWO_FINGER_TAP", IF state_ = "SCROLL" THEN <<"SCROLL_END">> ELSE <<>>)
  /\ KeepTimer("PENDING_TWO_FINGER_TAP")
  /\ UNCHANGED scroll_type_

\* A second finger far from the first, a third one, or two that move apart.
PinchStart(e) ==
  /\ \/ Signature(e, {"SCROLL", "PENDING_SYNTHETIC_CLICK"}, {1}, {"PRESSED"})
     \/ Signature(e, {"PENDING_TWO_FINGER_TAP"}, {2}, {"PRESSED"})
     \/ Signature(e, {"PENDING_TWO_FINGER_TAP"}, {0, 1}, {"MOVED"})
  /\ scroll_type_' = "FREE"
  /\ Finish(e, "PINCH", <<"PINCH_BEGIN">> \o (IF state_ = "SCROLL" THEN <<>> ELSE <<"SCROLL_BEGIN">>))
  /\ KeepTimer("PINCH")

TwoFingerTouchMove(e) ==
  /\ Signature(e, {"PENDING_TWO_FINGER_TAP"}, {0, 1}, {"MOVED"})
  /\ Finish(e, state_, <<>>)
  /\ KeepTimer(state_)
  /\ UNCHANGED scroll_type_

TwoFingerTouchReleased(e) ==
  /\ Signature(e, {"PENDING_TWO_FINGER_TAP"}, {0, 1}, {"RELEASED"})
  /\ \E gs \in Perhaps("TWO_FINGER_TAP") : Finish(e, "SCROLL", gs)
  /\ KeepTimer("SCROLL")
  /\ UNCHANGED scroll_type_

TwoFingerCancelled(e) ==
  /\ Signature(e, {"PENDING_TWO_FINGER_TAP"}, {0, 1}, {"CANCELLED"})
  /\ scroll_type_' = "FREE"
  /\ Finish(e, "SCROLL", <<>>)
  /\ KeepTimer("SCROLL")

PinchUpdate(e) ==
  /\ Signature(e, {"PINCH"}, 0..4, {"MOVED"})
  /\ \E gs \in {<<"PINCH_UPDATE">>} \cup Perhaps("SCROLL_UPDATE") : Finish(e, state_, gs)
  /\ KeepTimer(state_)
  /\ UNCHANGED scroll_type_

\* PinchEnd with the last but one finger, before that MaybeSwipe.
PinchEnd(e) ==
  /\ Signature(e, {"PINCH"}, 0..4, Up)
  /\ IF point_count_ = 2 THEN Finish(e, "SCROLL", <<"PINCH_END">>)
     ELSE \E gs \in Perhaps("MULTIFINGER_SWIPE") : Finish(e, state_, gs)
  /\ KeepTimer(state_)
  /\ UNCHANGED scroll_type_

\* Signatures with an empty case or with none: fingers that join a pinch, those
\* after the fifth, and fingers at rest.
OtherSignature(e) ==
  /\ \/ Signature(e, {"PINCH"}, 2..kMaxGesturePoints, {"PRESSED"})
     \/ Signature(e, {"PINCH"}, 5..kMaxGesturePoints, {"MOVED", "RELEASED", "CANCELLED"})
     \/ Signature(e, GestureState \ {"PENDING_SYNTHETIC_CLICK"}, 0..kMaxGesturePoints, {"STATIONARY"})
  /\ Finish(e, state_, <<>>)
  /\ KeepTimer(state_)
  /\ UNCHANGED scroll_type_

\* An event that a handler consumed, or that is of no use: it only moves the fingers.
Disregard(e) ==
  /\ Arrives(e)
  /\ Returns(e) \/ e.type # "RELEASED" \/ ~ReleasesSeen
  /\ gestures' = <<>>
  /\ UNCHANGED <<state_, scroll_type_, point_count_, point_id, long_press_timer_, open, tapped>>

\* The timer fires: AppendLongPressGestureEvent.
LongPress ==
  /\ long_press_timer_
  /\ long_press_timer_' = FALSE
  /\ gestures' = <<"LONG_PRESS">>
  /\ UNCHANGED <<state_, scroll_type_, point_count_, point_id, down, open, tapped>>

-----------------------------------------------------------------------------

Init ==
  /\ state_ = "NO_GESTURE" /\ scroll_type_ = "FREE" /\ point_count_ = 0
  /\ point_id = [p \in Points |-> -1]
  /\ long_press_timer_ = FALSE
  /\ gestures = <<>> /\ down = {} /\ open = {} /\ tapped = FALSE

ProcessTouchEventForGesture(e) ==
  \/ TouchDown(e) \/ Click(e) \/ NoScrollYet(e) \/ ScrollStart(e) \/ NoGesture(e)
  \/ ScrollUpdate(e) \/ ScrollEnd(e) \/ TwoFingerTouchDown(e) \/ PinchStart(e)
  \/ TwoFingerTouchMove(e) \/ TwoFingerTouchReleased(e) \/ TwoFingerCancelled(e)
  \/ PinchUpdate(e) \/ PinchEnd(e) \/ OtherSignature(e) \/ Disregard(e)

Next == LongPress \/ \E e \in Event : ProcessTouchEventForGesture(e)

Spec == Init /\ [][Next]_vars

-----------------------------------------------------------------------------
(* Properties *)

InUse == {p \in Points : point_id[p] >= 0}

TypeOK ==
  /\ state_ \in GestureState /\ scroll_type_ \in ScrollType
  /\ point_count_ \in 0..kMaxGesturePoints
  /\ point_id \in [Points -> -1..(kMaxGesturePoints - 1)]
  /\ {long_press_timer_, tapped} \subseteq BOOLEAN /\ down \subseteq Touches

\* "The set of point_ids must be contiguous and include 0": GetPointByPointId
\* finds every id below point_count_, and one point for each.
PointIdsContiguous ==
  /\ \A k \in 0..(point_count_ - 1) : \E p \in Points : point_id[p] = k
  /\ \A p \in InUse : point_id[p] < point_count_
  /\ \A p, q \in InUse : point_id[p] = point_id[q] => p = q

\* Each state is for its number of fingers: no finger is left in a state that its
\* events have no case in, and no switch looks for a point that is not there.
StateFitsFingers ==
  /\ state_ = "NO_GESTURE" <=> point_count_ = 0
  /\ state_ \in {"PENDING_SYNTHETIC_CLICK", "SCROLL"} <=> point_count_ = 1
  /\ state_ = "PENDING_TWO_FINGER_TAP" => point_count_ = 2

\* A pinch is open in GS_PINCH only; a scroll in GS_SCROLL and GS_PINCH, unless the
\* fingers are what is left of a two-finger tap; a touch as long as its point is in use.
GesturesPaired ==
  /\ "pinch" \in open <=> state_ = "PINCH"
  /\ "scroll" \in open \/ tapped <=> state_ \in {"SCROLL", "PINCH"}
  /\ tapped => "scroll" \notin open
  /\ open \cap Points = InUse

\* What a step may make of the open gestures.
Turns ==
  /\ Contains(gestures', "SCROLL_BEGIN") => "scroll" \notin open
  /\ Contains(gestures', "PINCH_BEGIN") => "pinch" \notin open
  /\ Contains(gestures', "PINCH_END") \/ Contains(gestures', "PINCH_UPDATE") => "pinch" \in open
  /\ Contains(gestures', "SCROLL_END") \/ Contains(gestures', "SCROLL_UPDATE") =>
       "scroll" \in open \/ Contains(gestures', "SCROLL_BEGIN") \/ tapped
  /\ Contains(gestures', "LONG_PRESS") =>
       /\ state_ = "PENDING_SYNTHETIC_CLICK"
       /\ \E p \in Points : InUse = {p} /\ point_id[p] = 0 /\ open = {p}

\* A scroll that is open does not begin again, one that is not is neither updated nor
\* ended but for fingers that are left of a two-finger tap, a pinch is not begun while it
\* is open, nor updated or ended while it is not, and ("Check that scrolling cancels a
\* long press", "that second tap cancels a long press") a long press comes of one finger
\* that has only been down.
GesturesInTurn == [][Turns]_vars

\* Without the exception, which the code does make.
ScrollsBegun ==
  [][Contains(gestures', "SCROLL_END") \/ Contains(gestures', "SCROLL_UPDATE")
       => "scroll" \in open \/ Contains(gestures', "SCROLL_BEGIN")]_vars

\* State, point ids, fingers and open gestures agree after every event.
SequenceSound == TypeOK /\ PointIdsContiguous /\ StateFitsFingers /\ GesturesPaired

\* "We shouldn't be able to get two PRESSED events from the same finger without
\* either a RELEASE or CANCEL in between": the DCHECK in ProcessTouchEventForGesture.
PressedOnce ==
  [][\A p \in Points : p \in down' \ down /\ Contains(gestures', "BEGIN") => point_id[p] < 0]_vars

\* "when modifying these state transitions, also update gestures.dot".
Diagram ==
  {<<"NO_GESTURE", "PENDING_SYNTHETIC_CLICK">>, <<"PENDING_SYNTHETIC_CLICK", "SCROLL">>,
   <<"PENDING_SYNTHETIC_CLICK", "NO_GESTURE">>, <<"SCROLL", "NO_GESTURE">>,
   <<"PENDING_SYNTHETIC_CLICK", "PENDING_TWO_FINGER_TAP">>, <<"SCROLL", "PENDING_TWO_FINGER_TAP">>,
   <<"PENDING_TWO_FINGER_TAP", "PINCH">>, <<"PENDING_TWO_FINGER_TAP", "SCROLL">>, <<"PINCH", "SCROLL">>}
FollowsDiagram == [][state_' # state_ => <<state_, state_'>> \in Diagram]_vars
=============================================================================
