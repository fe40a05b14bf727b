--------------------------- MODULE AuraInputProofs --------------------------
(***************************************************************************)
(* What is proved of the input that a root window dispatches: the touches  *)
(* of GestureSequence and the mouse of RootWindowMouse, two parts that     *)
(* share no state.                                                         *)
(*                                                                         *)
(* Of gestures, GestureInv adds to SequenceSound what makes it inductive:  *)
(* which fingers are down whose points are in use, when the timer of a     *)
(* long press may run, and which gestures can be open at all.              *)
(*                                                                         *)
(* Of the mouse, MouseInv adds to MovesSound what holds between two events *)
(* and so in a handler: a handler that is hidden has a frame that will     *)
(* forget it, unless the window was hidden while the mouse or the capture  *)
(* was on its way to it; frames make only such windows, visible ones or    *)
(* none the handlers; a held move has a frame that dispatches it where it  *)
(* has neither task nor hold; and events of the mouse are at the bottom of *)
(* the stack, the held one above the later one, and above itself where a   *)
(* handler of it resizes the host.                                         *)
(***************************************************************************)
EXTENDS GestureSequence, RootWindowMouse, FiniteSetTheorems, SequenceTheorems, TLAPS

-----------------------------------------------------------------------------
(* The gesture sequence: the invariant *)

\* A finger whose point is in use is on the screen, the timer runs only while the
\* gesture may be a click, and nothing but touches, a scroll and a pinch is open.
GestureInv ==
  /\ SequenceSound
  /\ InUse \subseteq down
  /\ long_press_timer_ => state_ = "PENDING_SYNTHETIC_CLICK"
  /\ open \subseteq Points \cup {"scroll", "pinch"}

-----------------------------------------------------------------------------
(* Lists of gestures *)

Gestures ==
  {"BEGIN", "END", "TAP_DOWN", "TAP", "DOUBLE_TAP", "TWO_FINGER_TAP", "LONG_PRESS",
   "SCROLL_BEGIN", "SCROLL_UPDATE", "SCROLL_END", "FLING_START",
   "PINCH_BEGIN", "PINCH_UPDATE", "PINCH_END", "MULTIFINGER_SWIPE"}

\* Lists of at most two gestures, and what they contain.
LEMMA ShortLists ==
  ASSUME NEW a \in Gestures, NEW b \in Gestures
  PROVE  /\ <<>> \in Seq(Gestures) /\ \A x : ~Contains(<<>>, x)
         /\ <<a>> \in Seq(Gestures) /\ \A x : Contains(<<a>>, x) <=> x = a
         /\ <<a, b>> \in Seq(Gestures) /\ \A x : Contains(<<a, b>>, x) <=> x = a \/ x = b
<1>1. Len(<<>>) = 0 /\ Len(<<a>>) = 1 /\ Len(<<a, b>>) = 2
  OBVIOUS
<1>2. <<a>>[1] = a /\ <<a, b>>[1] = a /\ <<a, b>>[2] = b
  OBVIOUS
<1>3. 1 .. 0 = {} /\ 1 .. 1 = {1} /\ 1 .. 2 = {1, 2}
  OBVIOUS
<1>4. /\ \A x : ~Contains(<<>>, x)
      /\ \A x : Contains(<<a>>, x) <=> x = a
      /\ \A x : Contains(<<a, b>>, x) <=> x = a \/ x = b
  BY <1>1, <1>2, <1>3 DEF Contains
<1>5. <<>> \in Seq(Gestures) /\ <<a>> \in Seq(Gestures) /\ <<a, b>> \in Seq(Gestures)
  OBVIOUS
<1> QED
  BY <1>4, <1>5, Zenon

\* The list of no gestures.
LEMMA EmptyList == <<>> \in Seq(Gestures) /\ \A x : ~Contains(<<>>, x)
<1>1. "BEGIN" \in Gestures
  BY DEF Gestures
<1> QED
  BY <1>1, ShortLists, Zenon

\* What a list of two parts contains.
LEMMA JoinedLists ==
  ASSUME NEW S, NEW s \in Seq(S), NEW t \in Seq(S), NEW x
  PROVE  s \o t \in Seq(S) /\ (Contains(s \o t, x) <=> Contains(s, x) \/ Contains(t, x))
<1>1. /\ s \o t \in Seq(S) /\ Len(s \o t) = Len(s) + Len(t) /\ Len(s) \in Nat /\ Len(t) \in Nat
      /\ \A i \in 1 .. Len(s) + Len(t) : (s \o t)[i] = IF i <= Len(s) THEN s[i] ELSE t[i - Len(s)]
  BY ConcatProperties
<1>2. ASSUME Contains(s \o t, x) PROVE Contains(s, x) \/ Contains(t, x)
  <2>1. PICK i \in 1 .. Len(s) + Len(t) : (s \o t)[i] = x
    BY <1>1, <1>2 DEF Contains
  <2>2. CASE i <= Len(s)
    BY <1>1, <2>1, <2>2 DEF Contains
  <2>3. CASE ~(i <= Len(s))
    <3>1. i - Len(s) \in 1 .. Len(t) /\ t[i - Len(s)] = x
      BY <1>1, <2>1, <2>3
    <3> QED
      BY <3>1 DEF Contains
  <2> QED
    BY <2>2, <2>3
<1>3. ASSUME Contains(s, x) PROVE Contains(s \o t, x)
  BY <1>1, <1>3 DEF Contains
<1>4. ASSUME Contains(t, x) PROVE Contains(s \o t, x)
  <2>1. PICK i \in 1 .. Len(t) : t[i] = x
    BY <1>4 DEF Contains
  <2>2. /\ Len(s) + i \in 1 .. Len(s) + Len(t) /\ ~(Len(s) + i <= Len(s))
        /\ (Len(s) + i) - Len(s) = i
    BY <1>1
  <2>3. (s \o t)[Len(s) + i] = x
    BY <1>1, <2>1, <2>2
  <2> QED
    BY <1>1, <2>2, <2>3 DEF Contains
<1> QED
  BY <1>1, <1>2, <1>3, <1>4

-----------------------------------------------------------------------------
(* Points *)

\* The number of points, and what the type invariant says of ids and fingers.
LEMMA PointTypes ==
  ASSUME GestureInv
  PROVE  /\ kMaxGesturePoints \in Nat /\ point_count_ \in 0 .. kMaxGesturePoints
         /\ point_id \in [Points -> -1 .. (kMaxGesturePoints - 1)]
         /\ \A p \in Points : point_id[p] \in Int /\ point_id[p] >= -1
         /\ \A p \in Points : point_id[p] >= 0 => point_id[p] < point_count_
         /\ \A p, q \in Points : point_id[p] >= 0 /\ point_id[p] = point_id[q] => p = q
         /\ \A k \in 0 .. (point_count_ - 1) : \E p \in Points : point_id[p] = k
<1>1. kMaxGesturePoints \in Nat
  BY PointsAssumption, FS_CardinalityType DEF kMaxGesturePoints
<1>2. point_count_ \in 0 .. kMaxGesturePoints /\ point_id \in [Points -> -1 .. (kMaxGesturePoints - 1)]
  BY DEF GestureInv, SequenceSound, TypeOK
<1>3. \A p \in Points : point_id[p] \in Int /\ point_id[p] >= -1
  BY <1>1, <1>2
<1>4. PointIdsContiguous
  BY DEF GestureInv, SequenceSound
<1>5. \A p \in Points : point_id[p] >= 0 => point_id[p] < point_count_
  BY <1>4 DEF PointIdsContiguous, InUse
<1>6. \A p, q \in Points : point_id[p] >= 0 /\ point_id[p] = point_id[q] => p = q
  BY <1>4 DEF PointIdsContiguous, InUse
<1>7. \A k \in 0 .. (point_count_ - 1) : \E p \in Points : point_id[p] = k
  BY <1>4 DEF PointIdsContiguous
<1> QED
  BY <1>1, <1>2, <1>3, <1>5, <1>6, <1>7

\* A finger that goes down gets the next id.
LEMMA PressPoints ==
  ASSUME GestureInv, NEW e \in Event, e.type = "PRESSED", e.id \in Points, Arrives(e), ~Returns(e),
         point_id' = Renumber(e), point_count_' = point_count_ + 1
  PROVE  /\ point_count_' \in 0 .. kMaxGesturePoints
         /\ point_id' \in [Points -> -1 .. (kMaxGesturePoints - 1)]
         /\ PointIdsContiguous' /\ InUse' = InUse \cup {e.id} /\ InUse' \subseteq down'
<1> DEFINE x == e.id
<1>1. /\ kMaxGesturePoints \in Nat /\ point_count_ \in 0 .. kMaxGesturePoints
      /\ point_id \in [Points -> -1 .. (kMaxGesturePoints - 1)]
      /\ \A p \in Points : point_id[p] \in Int /\ point_id[p] >= -1
      /\ \A p \in Points : point_id[p] >= 0 => point_id[p] < point_count_
      /\ \A p, q \in Points : point_id[p] >= 0 /\ point_id[p] = point_id[q] => p = q
      /\ \A k \in 0 .. (point_count_ - 1) : \E p \in Points : point_id[p] = k
  BY PointTypes
<1>2. point_count_ # kMaxGesturePoints /\ x \notin down /\ down' = down \cup {x}
  BY DEF Returns, Arrives
<1>3. ~(point_id[x] >= 0) /\ InUse \subseteq down
  BY <1>2 DEF GestureInv, InUse
<1>4. point_id' = [point_id EXCEPT ![x] = point_count_]
  BY DEF Renumber, Up
<1> HIDE DEF x
<1>5. /\ x \in Points /\ point_id'[x] = point_count_
      /\ \A p \in Points : p # x => point_id'[p] = point_id[p]
  BY <1>1, <1>4 DEF x
<1>6. point_count_' \in 0 .. kMaxGesturePoints /\ point_count_ \in -1 .. (kMaxGesturePoints - 1)
  BY <1>1, <1>2
<1>7. point_id' \in [Points -> -1 .. (kMaxGesturePoints - 1)]
  BY <1>1, <1>4, <1>6
<1>8. InUse' = InUse \cup {x}
  BY <1>1, <1>5 DEF InUse
<1>9. \A k \in 0 .. (point_count_' - 1) : \E p \in Points : point_id'[p] = k
  <2> TAKE k \in 0 .. (point_count_' - 1)
  <2>1. CASE k = point_count_
    BY <1>5, <2>1
  <2>2. CASE k # point_count_
    <3>1. k \in 0 .. (point_count_ - 1)
      BY <1>1, <2>2
    <3>2. PICK p \in Points : point_id[p] = k
      BY <1>1, <3>1
    <3>3. p # x
      BY <1>3, <3>1, <3>2
    <3> QED
      BY <1>5, <3>2, <3>3
  <2> QED
    BY <2>1, <2>2
<1>10. \A p \in Points : point_id'[p] >= 0 => point_id'[p] < point_count_'
  BY <1>1, <1>5
<1>11. \A p, q \in Points : point_id'[p] >= 0 /\ point_id'[p] = point_id'[q] => p = q
  BY <1>1, <1>5
<1>12. PointIdsContiguous'
  BY <1>9, <1>10, <1>11 DEF PointIdsContiguous, InUse
<1> QED
  BY <1>2, <1>3, <1>6, <1>7, <1>8, <1>12 DEF x

\* A finger that goes up leaves no gap.
LEMMA LiftPoints ==
  ASSUME GestureInv, NEW e \in Event, e.type \in Up, e.id \in Points, Arrives(e), ~Returns(e),
         point_id' = Renumber(e), point_count_' = point_count_ - 1
  PROVE  /\ point_count_' \in 0 .. kMaxGesturePoints
         /\ point_id' \in [Points -> -1 .. (kMaxGesturePoints - 1)]
         /\ PointIdsContiguous' /\ InUse' = InUse \ {e.id} /\ InUse' \subseteq down'
<1> DEFINE x == e.id
           n == point_id[x]
<1>1. /\ kMaxGesturePoints \in Nat /\ point_count_ \in 0 .. kMaxGesturePoints
      /\ point_id \in [Points -> -1 .. (kMaxGesturePoints - 1)]
      /\ \A p \in Points : point_id[p] \in Int /\ point_id[p] >= -1
      /\ \A p \in Points : point_id[p] >= 0 => point_id[p] < point_count_
      /\ \A p, q \in Points : point_id[p] >= 0 /\ point_id[p] = point_id[q] => p = q
      /\ \A k \in 0 .. (point_count_ - 1) : \E p \in Points : point_id[p] = k
  BY PointTypes
<1>2. e.type # "PRESSED" /\ ~(n < 0) /\ (down' = down \ {x} \/ down' = down) /\ InUse \subseteq down
  BY DEF Returns, Arrives, Up, GestureInv
<1>3. point_id' = [p \in Points |-> IF p = x THEN -1
                                    ELSE IF point_id[p] > n THEN point_id[p] - 1 ELSE point_id[p]]
  BY <1>2 DEF Renumber
<1> HIDE DEF x
<1>4. x \in Points /\ n \in 0 .. (point_count_ - 1)
  BY <1>1, <1>2 DEF x
<1> HIDE DEF n
<1>5. point_id[x] = n
  BY DEF n
<1>6. /\ point_id'[x] = -1
      /\ \A p \in Points : p # x
           => point_id'[p] = IF point_id[p] > n THEN point_id[p] - 1 ELSE point_id[p]
      /\ \A p \in Points : p # x => point_id[p] # n
  BY <1>1, <1>3, <1>4, <1>5
<1>7. point_count_' \in 0 .. kMaxGesturePoints
  BY <1>1, <1>4
<1>8. \A p \in Points : point_id'[p] \in -1 .. (kMaxGesturePoints - 1)
  BY <1>1, <1>4, <1>6
<1>9. point_id' \in [Points -> -1 .. (kMaxGesturePoints - 1)]
  BY <1>3, <1>8
<1>10. InUse' = InUse \ {x}
  BY <1>1, <1>4, <1>6 DEF InUse
<1>11. \A k \in 0 .. (point_count_' - 1) : \E p \in Points : point_id'[p] = k
  <2> TAKE k \in 0 .. (point_count_' - 1)
  <2>1. CASE k < n
    <3>1. PICK p \in Points : point_id[p] = k
      BY <1>1, <2>1, <1>4
    <3> QED
      BY <1>4, <1>5, <1>6, <2>1, <3>1
  <2>2. CASE ~(k < n)
    <3>1. k + 1 \in 0 .. (point_count_ - 1)
      BY <1>1
    <3>2. PICK p \in Points : point_id[p] = k + 1
      BY <1>1, <3>1
    <3>3. p # x /\ point_id[p] > n
      BY <1>4, <1>5, <2>2, <3>2
    <3> QED
      BY <1>6, <3>2, <3>3
  <2> QED
    BY <2>1, <2>2
<1>12. \A p \in Points : point_id'[p] >= 0 => point_id'[p] < point_count_'
  BY <1>1, <1>4, <1>6
<1>13. \A p, q \in Points : point_id'[p] >= 0 /\ point_id'[p] = point_id'[q] => p = q
  BY <1>1, <1>4, <1>6
<1>14. PointIdsContiguous'
  BY <1>11, <1>12, <1>13 DEF PointIdsContiguous, InUse
<1>15. InUse' \subseteq down'
  BY <1>2, <1>10
<1> QED
  BY <1>7, <1>9, <1>10, <1>14, <1>15 DEF x

-----------------------------------------------------------------------------
(* What every event does before and after the switch *)

\* By how much an event changes the number of fingers.
Change(e) == CASE e.type = "PRESSED" -> 1 [] e.type \in Up -> -1 [] OTHER -> 0

\* An event that is not one of the early returns is of a point, and its kind decides
\* how the number of fingers changes.
LEMMA EventKinds ==
  ASSUME NEW e \in Event, ~Returns(e)
  PROVE  /\ e.id \in Points
         /\ e.type = "PRESSED" => Change(e) = 1
         /\ e.type \in Up => Change(e) = -1
         /\ e.type \in {"MOVED", "STATIONARY"} => Change(e) = 0
         /\ e.type \in {"PRESSED", "MOVED", "STATIONARY"} \/ e.type \in Up
BY DEF Returns, Change, Up, Event, EventType

\* Points, fingers and open touches agree after the event.
LEMMA FinishPoints ==
  ASSUME GestureInv, NEW e \in Event, NEW state, NEW gs, Arrives(e), ~Returns(e), Finish(e, state, gs)
  PROVE  /\ point_count_' = point_count_ + Change(e)
         /\ point_count_' \in 0 .. kMaxGesturePoints
         /\ point_id' \in [Points -> -1 .. (kMaxGesturePoints - 1)]
         /\ PointIdsContiguous' /\ InUse' \subseteq down' /\ down' \subseteq Touches
         /\ open' \cap Points = InUse' /\ open' \subseteq Points \cup {"scroll", "pinch"}
<1>1. /\ e.id \in Points
      /\ e.type = "PRESSED" => Change(e) = 1
      /\ e.type \in Up => Change(e) = -1
      /\ e.type \in {"MOVED", "STATIONARY"} => Change(e) = 0
      /\ e.type \in {"PRESSED", "MOVED", "STATIONARY"} \/ e.type \in Up
  BY EventKinds
<1>2. point_count_' = point_count_ + Change(e) /\ point_id' = Renumber(e)
  BY DEF Finish, Change
<1>3. /\ point_count_ \in 0 .. kMaxGesturePoints /\ kMaxGesturePoints \in Nat
      /\ point_id \in [Points -> -1 .. (kMaxGesturePoints - 1)]
  BY PointTypes
<1>4. down \subseteq Touches /\ e.id \in Touches
  BY DEF GestureInv, SequenceSound, TypeOK, Event
<1>5. down' \subseteq Touches
  BY <1>4 DEF Arrives
<1>6. /\ open \cap Points = InUse /\ open \subseteq Points \cup {"scroll", "pinch"}
      /\ {"scroll", "pinch"} \cap Points = {}
  BY PointsAssumption DEF GestureInv, SequenceSound, GesturesPaired
<1>7. After(gs) \cap Points = InUse /\ After(gs) \subseteq Points \cup {"scroll", "pinch"}
  BY <1>6 DEF After
<1>8. CASE e.type = "PRESSED"
  <2>1. open' = After(gs) \cup {e.id}
    BY <1>8 DEF Finish, Up
  <2> QED
    BY <1>1, <1>2, <1>3, <1>5, <1>7, <1>8, <2>1, PressPoints
<1>9. CASE e.type \in Up
  <2>1. open' = After(gs) \ {e.id}
    BY <1>9 DEF Finish, Up
  <2>2. point_count_' = point_count_ - 1
    BY <1>1, <1>2, <1>3, <1>9
  <2> QED
    BY <1>1, <1>2, <1>3, <1>5, <1>7, <1>9, <2>1, <2>2, LiftPoints
<1>10. CASE e.type \in {"MOVED", "STATIONARY"}
  <2>1. open' = After(gs) /\ point_id' = point_id /\ down' = down
    BY <1>10 DEF Finish, Renumber, Arrives, Up
  <2>2. point_count_' = point_count_
    BY <1>1, <1>2, <1>3, <1>10
  <2>3. InUse' = InUse /\ (PointIdsContiguous' <=> PointIdsContiguous)
    BY <2>1, <2>2 DEF InUse, PointIdsContiguous
  <2>4. PointIdsContiguous /\ InUse \subseteq down
    BY DEF GestureInv, SequenceSound
  <2> QED
    BY <1>2, <1>3, <1>5, <1>7, <2>1, <2>2, <2>3, <2>4
<1> QED
  BY <1>1, <1>8, <1>9, <1>10

\* The gestures of an event are those of the switch, but for BEGIN and END.
LEMMA FinishGestures ==
  ASSUME NEW e \in Event, ~Returns(e), NEW state, NEW gs \in Seq(Gestures), Finish(e, state, gs),
         NEW x, x \notin {"BEGIN", "END"}
  PROVE  Contains(gestures', x) <=> Contains(gs, x)
<1> DEFINE a == IF e.type = "PRESSED" THEN <<"BEGIN">> ELSE <<>>
           b == IF e.type \in Up THEN <<"END">> ELSE <<>>
<1>0. "BEGIN" \in Gestures /\ "END" \in Gestures
  BY DEF Gestures
<1>1. gestures' = a \o gs \o b
  BY DEF Finish
<1>2. a \in Seq(Gestures) /\ b \in Seq(Gestures)
  <2>1. <<>> \in Seq(Gestures) /\ <<"BEGIN">> \in Seq(Gestures) /\ <<"END">> \in Seq(Gestures)
    BY <1>0, ShortLists, Zenon
  <2>2. a \in {<<>>, <<"BEGIN">>} /\ b \in {<<>>, <<"END">>}
    BY Zenon
  <2> HIDE DEF a, b
  <2> QED
    BY <2>1, <2>2
<1>3. ~Contains(a, x) /\ ~Contains(b, x)
  BY <1>0, ShortLists, Zenon
<1> HIDE DEF a, b
<1>4. a \o gs \in Seq(Gestures) /\ (Contains(a \o gs, x) <=> Contains(a, x) \/ Contains(gs, x))
  BY <1>2, JoinedLists
<1>5. Contains((a \o gs) \o b, x) <=> Contains(a \o gs, x) \/ Contains(b, x)
  BY <1>2, <1>4, JoinedLists
<1> QED
  BY <1>1, <1>3, <1>4, <1>5

\* A scroll and a pinch are open after the gestures that begin and do not end them.
LEMMA FinishOpen ==
  ASSUME NEW e \in Event, ~Returns(e), NEW state, NEW gs, Finish(e, state, gs)
  PROVE  /\ "scroll" \in open' <=>
              ("scroll" \in open \/ Contains(gs, "SCROLL_BEGIN")) /\ ~Contains(gs, "SCROLL_END")
         /\ "pinch" \in open' <=>
              ("pinch" \in open \/ Contains(gs, "PINCH_BEGIN")) /\ ~Contains(gs, "PINCH_END")
<1>1. e.id \in Touches /\ e.id # "scroll" /\ e.id # "pinch"
  BY PointsAssumption DEF Event
<1>2. \A g \in {"scroll", "pinch"} : g \in open' <=> g \in After(gs)
  BY <1>1 DEF Finish
<1> QED
  BY <1>2 DEF After

\* The gestures that begin, update or end something, or say that a finger was only down.
Telling ==
  {"SCROLL_BEGIN", "SCROLL_UPDATE", "SCROLL_END", "PINCH_BEGIN", "PINCH_UPDATE", "PINCH_END",
   "LONG_PRESS"}

\* What a case of the switch has to show: its next state is for the new number of
\* fingers, it leaves a scroll and a pinch open as the state says, but for what is left
\* of a two-finger tap, and begins, updates and ends them in turn.
LEMMA FinishKeeps ==
  ASSUME GestureInv, NEW e \in Event, NEW state \in GestureState, NEW gs \in Seq(Gestures),
         Arrives(e), ~Returns(e), Finish(e, state, gs), scroll_type_' \in ScrollType,
         long_press_timer_' \in BOOLEAN, long_press_timer_' => state = "PENDING_SYNTHETIC_CLICK",
         state = "NO_GESTURE" <=> point_count_ + Change(e) = 0,
         state \in {"PENDING_SYNTHETIC_CLICK", "SCROLL"} <=> point_count_ + Change(e) = 1,
         state = "PENDING_TWO_FINGER_TAP" => point_count_ + Change(e) = 2,
         ("pinch" \in open \/ Contains(gs, "PINCH_BEGIN")) /\ ~Contains(gs, "PINCH_END")
           <=> state = "PINCH",
         (("scroll" \in open \/ Contains(gs, "SCROLL_BEGIN")) /\ ~Contains(gs, "SCROLL_END"))
           \/ AfterTap(state) <=> state \in {"SCROLL", "PINCH"},
         AfterTap(state) =>
           ~(("scroll" \in open \/ Contains(gs, "SCROLL_BEGIN")) /\ ~Contains(gs, "SCROLL_END")),
         Contains(gs, "SCROLL_END") \/ Contains(gs, "SCROLL_UPDATE") =>
           "scroll" \in open \/ Contains(gs, "SCROLL_BEGIN") \/ tapped,
         Contains(gs, "SCROLL_BEGIN") => "scroll" \notin open,
         Contains(gs, "PINCH_BEGIN") => "pinch" \notin open,
         Contains(gs, "PINCH_END") \/ Contains(gs, "PINCH_UPDATE") => "pinch" \in open,
         ~Contains(gs, "LONG_PRESS")
  PROVE  GestureInv' /\ Turns
<1>1. /\ point_count_' = point_count_ + Change(e)
      /\ point_count_' \in 0 .. kMaxGesturePoints
      /\ point_id' \in [Points -> -1 .. (kMaxGesturePoints - 1)]
      /\ PointIdsContiguous' /\ InUse' \subseteq down' /\ down' \subseteq Touches
      /\ open' \cap Points = InUse' /\ open' \subseteq Points \cup {"scroll", "pinch"}
  BY FinishPoints
<1>2. state_' = state /\ tapped' = AfterTap(state) /\ tapped' \in BOOLEAN
  BY DEF Finish, AfterTap
<1>3. TypeOK'
  BY <1>1, <1>2 DEF TypeOK, kMaxGesturePoints
<1>4. StateFitsFingers'
  BY <1>1, <1>2 DEF StateFitsFingers
<1>5. GesturesPaired'
  BY <1>1, <1>2, FinishOpen DEF GesturesPaired
<1>6. GestureInv'
  BY <1>1, <1>2, <1>3, <1>4, <1>5 DEF GestureInv, SequenceSound
<1>7. \A x \in Telling : Contains(gestures', x) <=> Contains(gs, x)
  <2> TAKE x \in Telling
  <2>1. x \notin {"BEGIN", "END"}
    BY DEF Telling
  <2> QED
    BY <2>1, FinishGestures
<1>8. Turns
  BY <1>7 DEF Turns, Telling
<1> QED
  BY <1>6, <1>8

-----------------------------------------------------------------------------
(* The cases of the switch *)

\* What the invariant says of the state, the number of fingers and the open gestures.
LEMMA InvFacts ==
  ASSUME GestureInv
  PROVE  /\ point_count_ \in Nat /\ state_ \in GestureState /\ scroll_type_ \in ScrollType
         /\ state_ = "NO_GESTURE" <=> point_count_ = 0
         /\ state_ \in {"PENDING_SYNTHETIC_CLICK", "SCROLL"} <=> point_count_ = 1
         /\ state_ = "PENDING_TWO_FINGER_TAP" => point_count_ = 2
         /\ "pinch" \in open <=> state_ = "PINCH"
         /\ "scroll" \in open \/ tapped <=> state_ \in {"SCROLL", "PINCH"}
         /\ tapped => "scroll" \notin open
         /\ tapped \in BOOLEAN /\ long_press_timer_ \in BOOLEAN
         /\ long_press_timer_ => state_ = "PENDING_SYNTHETIC_CLICK"
BY PointTypes DEF GestureInv, SequenceSound, TypeOK, StateFitsFingers, GesturesPaired

\* The timer runs on only in a state that may still be a click.
LEMMA TimerStops ==
  ASSUME GestureInv, NEW state, KeepTimer(state)
  PROVE  long_press_timer_' \in BOOLEAN /\ (long_press_timer_' => state = state_ /\ state_ = "PENDING_SYNTHETIC_CLICK")
BY InvFacts DEF KeepTimer, StopTimer

\* Lists of gestures none of which opens or closes anything.
LEMMA QuietLists ==
  ASSUME NEW a \in Gestures \ Telling, NEW b \in Gestures \ Telling,
         NEW gs, gs = <<>> \/ gs = <<a>> \/ gs = <<a, b>>
  PROVE  gs \in Seq(Gestures) /\ \A x \in Telling : ~Contains(gs, x)
<1>1. a \in Gestures /\ b \in Gestures
  OBVIOUS
<1>2. \A x \in Telling : x # a /\ x # b
  OBVIOUS
<1>3. /\ <<>> \in Seq(Gestures) /\ \A x : ~Contains(<<>>, x)
      /\ <<a>> \in Seq(Gestures) /\ \A x : Contains(<<a>>, x) <=> x = a
      /\ <<a, b>> \in Seq(Gestures) /\ \A x : Contains(<<a, b>>, x) <=> x = a \/ x = b
  BY <1>1, ShortLists
<1> QED
  BY <1>2, <1>3, Zenon

\* A list that Perhaps gives.
LEMMA PerhapsList ==
  ASSUME NEW g \in Gestures, NEW gs, gs = <<>> \/ gs = <<g>>
  PROVE  gs \in Seq(Gestures) /\ \A x : Contains(gs, x) => x = g
<1>1. /\ <<>> \in Seq(Gestures) /\ \A x : ~Contains(<<>>, x)
      /\ <<g>> \in Seq(Gestures) /\ \A x : Contains(<<g>>, x) <=> x = g
  BY ShortLists
<1> QED
  BY <1>1, Zenon

\* A case that begins and ends nothing, updates a scroll only where there may be one,
\* and leaves a state that fits.
LEMMA QuietKeeps ==
  ASSUME GestureInv, NEW e \in Event, NEW state \in GestureState, NEW gs \in Seq(Gestures),
         \A x \in Telling : Contains(gs, x) => x = "SCROLL_UPDATE" /\ state_ \in {"SCROLL", "PINCH"},
         Arrives(e), ~Returns(e), Finish(e, state, gs), scroll_type_' \in ScrollType,
         long_press_timer_' \in BOOLEAN, long_press_timer_' => state = "PENDING_SYNTHETIC_CLICK",
         state = "NO_GESTURE" <=> point_count_ + Change(e) = 0,
         state \in {"PENDING_SYNTHETIC_CLICK", "SCROLL"} <=> point_count_ + Change(e) = 1,
         state = "PENDING_TWO_FINGER_TAP" => point_count_ + Change(e) = 2,
         state_ = "PINCH" <=> state = "PINCH",
         state \in {"SCROLL", "PINCH"} <=>
           state_ \in {"SCROLL", "PINCH"} \/ (state_ = "PENDING_TWO_FINGER_TAP" /\ state = "SCROLL")
  PROVE  GestureInv' /\ Turns
<1>1. /\ ~Contains(gs, "SCROLL_BEGIN") /\ ~Contains(gs, "SCROLL_END") /\ ~Contains(gs, "PINCH_BEGIN")
      /\ ~Contains(gs, "PINCH_UPDATE") /\ ~Contains(gs, "PINCH_END") /\ ~Contains(gs, "LONG_PRESS")
      /\ Contains(gs, "SCROLL_UPDATE") => state_ \in {"SCROLL", "PINCH"}
  BY DEF Telling
<1>2. /\ "pinch" \in open <=> state_ = "PINCH"
      /\ "scroll" \in open \/ tapped <=> state_ \in {"SCROLL", "PINCH"}
      /\ tapped => "scroll" \notin open
  BY InvFacts
<1>3. /\ "scroll" \in open \/ AfterTap(state) <=> state \in {"SCROLL", "PINCH"}
      /\ AfterTap(state) => "scroll" \notin open
  BY <1>2 DEF AfterTap
<1> QED
  BY <1>1, <1>2, <1>3, FinishKeeps

\* The first touch: the list says that it begins, and that it may be a tap.
LEMMA TouchDownStep ==
  ASSUME GestureInv, NEW e \in Event, TouchDown(e)
  PROVE  GestureInv' /\ Turns
<1> DEFINE gs == <<"TAP_DOWN">>
<1>1. /\ Arrives(e) /\ ~Returns(e) /\ state_ = "NO_GESTURE" /\ e.type = "PRESSED"
      /\ Finish(e, "PENDING_SYNTHETIC_CLICK", gs) /\ long_press_timer_' = TRUE
      /\ scroll_type_' = scroll_type_
  BY DEF TouchDown, Signature
<1>2. Change(e) = 1 /\ point_count_ = 0 /\ scroll_type_' \in ScrollType /\ long_press_timer_' \in BOOLEAN
  BY <1>1, EventKinds, InvFacts
<1>3. "TAP_DOWN" \in Gestures \ Telling
  BY DEF Gestures, Telling
<1>4. gs \in Seq(Gestures) /\ \A x \in Telling : ~Contains(gs, x)
  BY <1>3, ShortLists, QuietLists, Zenon
<1> HIDE DEF gs
<1>5. "PENDING_SYNTHETIC_CLICK" \in GestureState
  BY DEF GestureState
<1>6. point_count_ + Change(e) = 1
  BY <1>2
<1> QED
  BY <1>1, <1>2, <1>4, <1>5, <1>6, QuietKeeps

\* The finger of a click is lifted: a tap, a double tap, or neither.
LEMMA ClickStep ==
  ASSUME GestureInv, NEW e \in Event, Click(e)
  PROVE  GestureInv' /\ Turns
<1>1. /\ Arrives(e) /\ ~Returns(e) /\ state_ = "PENDING_SYNTHETIC_CLICK" /\ e.type \in Up
      /\ KeepTimer("NO_GESTURE") /\ scroll_type_' = scroll_type_
  BY DEF Click, Signature, Up
<1>2. PICK gs \in {<<>>, <<"TAP">>, <<"TAP", "DOUBLE_TAP">>} : Finish(e, "NO_GESTURE", gs)
  BY DEF Click
<1>3. Change(e) = -1 /\ point_count_ = 1 /\ scroll_type_ \in ScrollType
  BY <1>1, EventKinds, InvFacts
<1>4. "TAP" \in Gestures \ Telling /\ "DOUBLE_TAP" \in Gestures \ Telling
  BY DEF Gestures, Telling
<1>5. gs \in Seq(Gestures) /\ \A x \in Telling : ~Contains(gs, x)
  BY <1>4, ShortLists, QuietLists, Zenon
<1>6. "NO_GESTURE" \in GestureState /\ point_count_ + Change(e) = 0
  BY <1>3 DEF GestureState
<1>7. long_press_timer_' \in BOOLEAN /\ ~long_press_timer_'
  BY <1>1, TimerStops
<1> QED
  BY <1>1, <1>2, <1>3, <1>5, <1>6, <1>7, QuietKeeps

\* The finger stays, or moves too little: no gesture begins.
LEMMA NoScrollYetStep ==
  ASSUME GestureInv, NEW e \in Event, NoScrollYet(e)
  PROVE  GestureInv' /\ Turns
<1> DEFINE gs == <<>>
<1>1. /\ Arrives(e) /\ ~Returns(e) /\ state_ = "PENDING_SYNTHETIC_CLICK"
      /\ e.type \in {"MOVED", "STATIONARY"} /\ Finish(e, state_, gs)
      /\ KeepTimer(state_) /\ scroll_type_' = scroll_type_
  BY DEF NoScrollYet, Signature
<1>2. Change(e) = 0 /\ point_count_ = 1 /\ scroll_type_ \in ScrollType /\ state_ \in GestureState
  BY <1>1, EventKinds, InvFacts
<1>3. gs \in Seq(Gestures) /\ \A x \in Telling : ~Contains(gs, x)
  BY EmptyList
<1> HIDE DEF gs
<1>4. point_count_ + Change(e) = 1
  BY <1>2
<1>5. long_press_timer_' \in BOOLEAN
  BY <1>1, TimerStops
<1> QED
  BY <1>1, <1>2, <1>3, <1>4, <1>5, QuietKeeps

\* A scroll begins where none is open.
LEMMA ScrollStartStep ==
  ASSUME GestureInv, NEW e \in Event, ScrollStart(e)
  PROVE  GestureInv' /\ Turns
<1>1. /\ Arrives(e) /\ ~Returns(e) /\ state_ = "PENDING_SYNTHETIC_CLICK" /\ e.type = "MOVED"
      /\ KeepTimer("SCROLL") /\ scroll_type_' \in ScrollType
  BY DEF ScrollStart, Signature
<1>2. PICK us \in {<<>>, <<"SCROLL_UPDATE">>} : Finish(e, "SCROLL", <<"SCROLL_BEGIN">> \o us)
  BY DEF ScrollStart, Perhaps
<1>3. /\ Change(e) = 0 /\ point_count_ = 1
      /\ "pinch" \notin open /\ "scroll" \notin open /\ ~tapped
  BY <1>1, EventKinds, InvFacts
<1>4. "SCROLL_UPDATE" \in Gestures /\ "SCROLL_BEGIN" \in Gestures
  BY DEF Gestures
<1>5. us \in Seq(Gestures) /\ \A x : Contains(us, x) => x = "SCROLL_UPDATE"
  BY <1>4, PerhapsList, Zenon
<1>6. <<"SCROLL_BEGIN">> \in Seq(Gestures) /\ \A x : Contains(<<"SCROLL_BEGIN">>, x) <=> x = "SCROLL_BEGIN"
  BY <1>4, ShortLists, Zenon
<1> DEFINE gs == <<"SCROLL_BEGIN">> \o us
<1>7. gs \in Seq(Gestures) /\ \A x : Contains(gs, x) <=> x = "SCROLL_BEGIN" \/ Contains(us, x)
  BY <1>5, <1>6, JoinedLists
<1> HIDE DEF gs
<1>8. /\ Contains(gs, "SCROLL_BEGIN") /\ ~Contains(gs, "SCROLL_END") /\ ~Contains(gs, "PINCH_BEGIN")
      /\ ~Contains(gs, "PINCH_UPDATE") /\ ~Contains(gs, "PINCH_END") /\ ~Contains(gs, "LONG_PRESS")
  BY <1>5, <1>7
<1>9. "SCROLL" \in GestureState /\ point_count_ + Change(e) = 1 /\ Finish(e, "SCROLL", gs)
  BY <1>2, <1>3 DEF GestureState, gs
<1>10. ~AfterTap("SCROLL")
  BY <1>1, <1>3 DEF AfterTap
<1>11. /\ (("scroll" \in open \/ Contains(gs, "SCROLL_BEGIN")) /\ ~Contains(gs, "SCROLL_END"))
            \/ AfterTap("SCROLL") <=> "SCROLL" \in {"SCROLL", "PINCH"}
       /\ Contains(gs, "SCROLL_BEGIN") => "scroll" \notin open
  BY <1>3, <1>8
<1>12. AfterTap("SCROLL") =>
         ~(("scroll" \in open \/ Contains(gs, "SCROLL_BEGIN")) /\ ~Contains(gs, "SCROLL_END"))
  BY <1>10
<1>13. long_press_timer_' \in BOOLEAN /\ ~long_press_timer_'
  BY <1>1, TimerStops
<1> QED
  BY <1>1, <1>3, <1>7, <1>8, <1>9, <1>11, <1>12, <1>13, FinishKeeps

\* BreakRailScroll and ScrollUpdate.
LEMMA ScrollUpdateStep ==
  ASSUME GestureInv, NEW e \in Event, ScrollUpdate(e)
  PROVE  GestureInv' /\ Turns
<1>1. /\ Arrives(e) /\ ~Returns(e) /\ state_ = "SCROLL" /\ e.type = "MOVED"
      /\ KeepTimer(state_) /\ scroll_type_' \in {scroll_type_, "FREE"}
  BY DEF ScrollUpdate, Signature
<1>2. PICK gs \in {<<>>, <<"SCROLL_UPDATE">>} : Finish(e, state_, gs)
  BY DEF ScrollUpdate, Perhaps
<1>3. Change(e) = 0 /\ point_count_ = 1 /\ scroll_type_' \in ScrollType /\ state_ \in GestureState
  BY <1>1, EventKinds, InvFacts DEF ScrollType
<1>4. "SCROLL_UPDATE" \in Gestures
  BY DEF Gestures
<1>5. gs \in Seq(Gestures) /\ \A x : Contains(gs, x) => x = "SCROLL_UPDATE"
  BY <1>4, PerhapsList, Zenon
<1>6. point_count_ + Change(e) = 1
  BY <1>3
<1>7. long_press_timer_' \in BOOLEAN /\ ~long_press_timer_'
  BY <1>1, TimerStops
<1> QED
  BY <1>1, <1>2, <1>3, <1>5, <1>6, <1>7, QuietKeeps

\* The last finger ends the scroll, open or not.
LEMMA ScrollEndStep ==
  ASSUME GestureInv, NEW e \in Event, ScrollEnd(e)
  PROVE  GestureInv' /\ Turns
<1>1. /\ Arrives(e) /\ ~Returns(e) /\ state_ = "SCROLL" /\ e.type \in Up
      /\ KeepTimer("NO_GESTURE") /\ scroll_type_' = scroll_type_
  BY DEF ScrollEnd, Signature
<1>2. PICK gs \in {<<"SCROLL_END">>, <<"SCROLL_END", "FLING_START">>} : Finish(e, "NO_GESTURE", gs)
  BY DEF ScrollEnd
<1>3. /\ Change(e) = -1 /\ point_count_ = 1 /\ scroll_type_ \in ScrollType /\ "pinch" \notin open
      /\ ("scroll" \in open \/ tapped)
  BY <1>1, EventKinds, InvFacts
<1>4. "SCROLL_END" \in Gestures /\ "FLING_START" \in Gestures
  BY DEF Gestures
<1>5. /\ <<"SCROLL_END">> \in Seq(Gestures)
      /\ \A x : Contains(<<"SCROLL_END">>, x) <=> x = "SCROLL_END"
      /\ <<"SCROLL_END", "FLING_START">> \in Seq(Gestures)
      /\ \A x : Contains(<<"SCROLL_END", "FLING_START">>, x) <=> x = "SCROLL_END" \/ x = "FLING_START"
  BY <1>4, ShortLists, Zenon
<1>6. gs \in Seq(Gestures)
  BY <1>5, Zenon
<1>7. Contains(gs, "SCROLL_END") /\ \A x : Contains(gs, x) => x \in {"SCROLL_END", "FLING_START"}
  BY <1>5, Zenon
<1>8. /\ ~Contains(gs, "SCROLL_BEGIN") /\ ~Contains(gs, "PINCH_BEGIN")
      /\ ~Contains(gs, "PINCH_UPDATE") /\ ~Contains(gs, "PINCH_END") /\ ~Contains(gs, "LONG_PRESS")
  BY <1>7
<1>9. "NO_GESTURE" \in GestureState /\ point_count_ + Change(e) = 0
  BY <1>3 DEF GestureState
<1>10. ~AfterTap("NO_GESTURE")
  BY <1>1 DEF AfterTap
<1>11. long_press_timer_' \in BOOLEAN /\ ~long_press_timer_'
  BY <1>1, TimerStops
<1> QED
  BY <1>1, <1>2, <1>3, <1>6, <1>7, <1>8, <1>9, <1>10, <1>11, FinishKeeps

\* A second finger stops the scroll: none is open in a two-finger tap.
LEMMA TwoFingerTouchDownStep ==
  ASSUME GestureInv, NEW e \in Event, TwoFingerTouchDown(e)
  PROVE  GestureInv' /\ Turns
<1>1. /\ Arrives(e) /\ ~Returns(e) /\ state_ \in {"SCROLL", "PENDING_SYNTHETIC_CLICK"}
      /\ e.type = "PRESSED"
      /\ KeepTimer("PENDING_TWO_FINGER_TAP") /\ scroll_type_' = scroll_type_
  BY DEF TwoFingerTouchDown, Signature
<1> DEFINE gs == IF state_ = "SCROLL" THEN <<"SCROLL_END">> ELSE <<>>
<1>2. Finish(e, "PENDING_TWO_FINGER_TAP", gs)
  BY DEF TwoFingerTouchDown
<1>3. /\ Change(e) = 1 /\ point_count_ = 1 /\ scroll_type_ \in ScrollType /\ "pinch" \notin open
      /\ ("scroll" \in open \/ tapped <=> state_ = "SCROLL")
  BY <1>1, EventKinds, InvFacts
<1>4. "SCROLL_END" \in Gestures
  BY DEF Gestures
<1>5. gs \in Seq(Gestures)
  BY <1>4, ShortLists, Zenon
<1>6. \A x : Contains(gs, x) <=> state_ = "SCROLL" /\ x = "SCROLL_END"
  BY <1>4, ShortLists, Zenon
<1> HIDE DEF gs
<1>7. /\ ~Contains(gs, "SCROLL_BEGIN") /\ ~Contains(gs, "PINCH_BEGIN")
      /\ ~Contains(gs, "PINCH_UPDATE") /\ ~Contains(gs, "PINCH_END") /\ ~Contains(gs, "LONG_PRESS")
      /\ ("scroll" \in open => Contains(gs, "SCROLL_END")) /\ ~Contains(gs, "SCROLL_UPDATE")
      /\ (Contains(gs, "SCROLL_END") => "scroll" \in open \/ tapped)
  BY <1>3, <1>6
<1>8. "PENDING_TWO_FINGER_TAP" \in GestureState /\ point_count_ + Change(e) = 2
  BY <1>3 DEF GestureState
<1>9. ~AfterTap("PENDING_TWO_FINGER_TAP")
  BY DEF AfterTap
<1>10. long_press_timer_' \in BOOLEAN /\ ~long_press_timer_'
  BY <1>1, TimerStops
<1> QED
  BY <1>1, <1>2, <1>3, <1>5, <1>7, <1>8, <1>9, <1>10, FinishKeeps

\* A pinch begins where none is open, and with a scroll unless one is open.
LEMMA PinchStartStep ==
  ASSUME GestureInv, NEW e \in Event, PinchStart(e)
  PROVE  GestureInv' /\ Turns
<1>1. /\ Arrives(e) /\ ~Returns(e)
      /\ \/ state_ \in {"SCROLL", "PENDING_SYNTHETIC_CLICK"} /\ e.type = "PRESSED"
         \/ state_ = "PENDING_TWO_FINGER_TAP" /\ e.type \in {"PRESSED", "MOVED"}
      /\ KeepTimer("PINCH") /\ scroll_type_' \in ScrollType
  BY DEF PinchStart, Signature, ScrollType
<1> DEFINE ss == IF state_ = "SCROLL" THEN <<>> ELSE <<"SCROLL_BEGIN">>
           gs == <<"PINCH_BEGIN">> \o ss
<1>2. Finish(e, "PINCH", gs)
  BY DEF PinchStart
<1>3. /\ "pinch" \notin open /\ ("scroll" \in open \/ tapped <=> state_ = "SCROLL")
      /\ (tapped => "scroll" \notin open) /\ point_count_ \in Nat /\ tapped \in BOOLEAN
  BY <1>1, InvFacts
<1>4. "PINCH_BEGIN" \in Gestures /\ "SCROLL_BEGIN" \in Gestures
  BY DEF Gestures
<1>5. ss \in Seq(Gestures) /\ <<"PINCH_BEGIN">> \in Seq(Gestures)
  BY <1>4, ShortLists, Zenon
<1>6. \A x : /\ Contains(ss, x) <=> state_ # "SCROLL" /\ x = "SCROLL_BEGIN"
             /\ Contains(<<"PINCH_BEGIN">>, x) <=> x = "PINCH_BEGIN"
  BY <1>4, ShortLists, Zenon
<1> HIDE DEF ss
<1>7. gs \in Seq(Gestures) /\ \A x : Contains(gs, x) <=> Contains(<<"PINCH_BEGIN">>, x) \/ Contains(ss, x)
  BY <1>5, JoinedLists
<1> HIDE DEF gs
<1>8. /\ Contains(gs, "PINCH_BEGIN") /\ ~Contains(gs, "SCROLL_END")
      /\ ~Contains(gs, "PINCH_UPDATE") /\ ~Contains(gs, "PINCH_END") /\ ~Contains(gs, "LONG_PRESS")
      /\ (Contains(gs, "SCROLL_BEGIN") <=> state_ # "SCROLL") /\ ~Contains(gs, "SCROLL_UPDATE")
  BY <1>3, <1>6, <1>7
<1>9. "PINCH" \in GestureState
  BY DEF GestureState
<1>10. point_count_ + Change(e) # 0 /\ point_count_ + Change(e) # 1
  <2>1. CASE e.type = "PRESSED"
    BY <1>1, <1>3, <2>1, EventKinds, InvFacts
  <2>2. CASE e.type = "MOVED"
    <3>1. Change(e) = 0 /\ point_count_ = 2
      BY <1>1, <2>2, EventKinds, InvFacts
    <3> QED
      BY <3>1
  <2> QED
    BY <1>1, <2>1, <2>2
<1>11. AfterTap("PINCH") <=> tapped
  BY <1>3 DEF AfterTap
<1>12. long_press_timer_' \in BOOLEAN /\ ~long_press_timer_'
  BY <1>1, TimerStops
<1> QED
  BY <1>1, <1>2, <1>3, <1>7, <1>8, <1>9, <1>10, <1>11, <1>12, FinishKeeps

\* Two fingers move and start neither a pinch nor a scroll.
LEMMA TwoFingerTouchMoveStep ==
  ASSUME GestureInv, NEW e \in Event, TwoFingerTouchMove(e)
  PROVE  GestureInv' /\ Turns
<1> DEFINE gs == <<>>
<1>1. /\ Arrives(e) /\ ~Returns(e) /\ state_ = "PENDING_TWO_FINGER_TAP" /\ e.type = "MOVED"
      /\ Finish(e, state_, gs) /\ KeepTimer(state_) /\ scroll_type_' = scroll_type_
  BY DEF TwoFingerTouchMove, Signature
<1>2. Change(e) = 0 /\ point_count_ = 2 /\ scroll_type_ \in ScrollType /\ state_ \in GestureState
  BY <1>1, EventKinds, InvFacts
<1>3. gs \in Seq(Gestures) /\ \A x \in Telling : ~Contains(gs, x)
  BY EmptyList
<1> HIDE DEF gs
<1>4. point_count_ + Change(e) = 2
  BY <1>2
<1>5. long_press_timer_' \in BOOLEAN /\ ~long_press_timer_'
  BY <1>1, TimerStops
<1> QED
  BY <1>1, <1>2, <1>3, <1>4, <1>5, QuietKeeps

\* One of the two fingers is left, in a scroll that is not open.
LEMMA TwoFingerTouchReleasedStep ==
  ASSUME GestureInv, NEW e \in Event, TwoFingerTouchReleased(e)
  PROVE  GestureInv' /\ Turns
<1>1. /\ Arrives(e) /\ ~Returns(e) /\ state_ = "PENDING_TWO_FINGER_TAP" /\ e.type \in Up
      /\ KeepTimer("SCROLL") /\ scroll_type_' = scroll_type_
  BY DEF TwoFingerTouchReleased, Signature, Up
<1>2. PICK gs \in {<<>>, <<"TWO_FINGER_TAP">>} : Finish(e, "SCROLL", gs)
  BY DEF TwoFingerTouchReleased, Perhaps
<1>3. Change(e) = -1 /\ point_count_ = 2 /\ scroll_type_ \in ScrollType
  BY <1>1, EventKinds, InvFacts
<1>4. "TWO_FINGER_TAP" \in Gestures \ Telling
  BY DEF Gestures, Telling
<1>5. gs \in Seq(Gestures) /\ \A x \in Telling : ~Contains(gs, x)
  BY <1>4, QuietLists, Zenon
<1>6. "SCROLL" \in GestureState /\ point_count_ + Change(e) = 1
  BY <1>3 DEF GestureState
<1>7. long_press_timer_' \in BOOLEAN /\ ~long_press_timer_'
  BY <1>1, TimerStops
<1> QED
  BY <1>1, <1>2, <1>3, <1>5, <1>6, <1>7, QuietKeeps

\* One of two fingers is taken away by a cancel.
LEMMA TwoFingerCancelledStep ==
  ASSUME GestureInv, NEW e \in Event, TwoFingerCancelled(e)
  PROVE  GestureInv' /\ Turns
<1> DEFINE gs == <<>>
<1>1. /\ Arrives(e) /\ ~Returns(e) /\ state_ = "PENDING_TWO_FINGER_TAP" /\ e.type \in Up
      /\ Finish(e, "SCROLL", gs) /\ KeepTimer("SCROLL") /\ scroll_type_' \in ScrollType
  BY DEF TwoFingerCancelled, Signature, Up, ScrollType
<1>2. Change(e) = -1 /\ point_count_ = 2
  BY <1>1, EventKinds, InvFacts
<1>3. gs \in Seq(Gestures) /\ \A x \in Telling : ~Contains(gs, x)
  BY EmptyList
<1> HIDE DEF gs
<1>4. "SCROLL" \in GestureState /\ point_count_ + Change(e) = 1
  BY <1>2 DEF GestureState
<1>5. long_press_timer_' \in BOOLEAN /\ ~long_press_timer_'
  BY <1>1, TimerStops
<1> QED
  BY <1>1, <1>2, <1>3, <1>4, <1>5, QuietKeeps

\* A pinch is updated while it is open.
LEMMA PinchUpdateStep ==
  ASSUME GestureInv, NEW e \in Event, PinchUpdate(e)
  PROVE  GestureInv' /\ Turns
<1>1. /\ Arrives(e) /\ ~Returns(e) /\ state_ = "PINCH" /\ e.type = "MOVED"
      /\ KeepTimer(state_) /\ scroll_type_' = scroll_type_
  BY DEF PinchUpdate, Signature
<1>2. PICK gs \in {<<"PINCH_UPDATE">>, <<>>, <<"SCROLL_UPDATE">>} : Finish(e, state_, gs)
  BY DEF PinchUpdate, Perhaps
<1>3. /\ Change(e) = 0 /\ point_count_ \in Nat /\ point_count_ # 0 /\ point_count_ # 1
      /\ scroll_type_ \in ScrollType /\ state_ \in GestureState /\ "pinch" \in open
      /\ ("scroll" \in open \/ tapped) /\ (tapped => "scroll" \notin open)
  BY <1>1, EventKinds, InvFacts
<1>4. "PINCH_UPDATE" \in Gestures /\ "SCROLL_UPDATE" \in Gestures
  BY DEF Gestures
<1>5. /\ <<>> \in Seq(Gestures) /\ \A x : ~Contains(<<>>, x)
      /\ <<"PINCH_UPDATE">> \in Seq(Gestures) /\ \A x : Contains(<<"PINCH_UPDATE">>, x) <=> x = "PINCH_UPDATE"
      /\ <<"SCROLL_UPDATE">> \in Seq(Gestures) /\ \A x : Contains(<<"SCROLL_UPDATE">>, x) <=> x = "SCROLL_UPDATE"
  BY <1>4, ShortLists, Zenon
<1>6. gs \in Seq(Gestures) /\ \A x : Contains(gs, x) => x = "PINCH_UPDATE" \/ x = "SCROLL_UPDATE"
  BY <1>5, Zenon
<1>7. /\ ~Contains(gs, "SCROLL_BEGIN") /\ ~Contains(gs, "SCROLL_END") /\ ~Contains(gs, "PINCH_BEGIN")
      /\ ~Contains(gs, "PINCH_END") /\ ~Contains(gs, "LONG_PRESS")
  BY <1>6
<1>8. point_count_ + Change(e) # 0 /\ point_count_ + Change(e) # 1
  BY <1>3
<1>9. AfterTap(state_) <=> tapped
  BY <1>1, <1>3 DEF AfterTap
<1>10. long_press_timer_' \in BOOLEAN /\ ~long_press_timer_'
  BY <1>1, TimerStops
<1> QED
  BY <1>1, <1>2, <1>3, <1>6, <1>7, <1>8, <1>9, <1>10, FinishKeeps

\* The pinch ends with the last finger but one, and leaves a scroll.
LEMMA PinchEndStep ==
  ASSUME GestureInv, NEW e \in Event, PinchEnd(e)
  PROVE  GestureInv' /\ Turns
<1>1. /\ Arrives(e) /\ ~Returns(e) /\ state_ = "PINCH" /\ e.type \in Up
      /\ KeepTimer(state_) /\ scroll_type_' = scroll_type_
  BY DEF PinchEnd, Signature
<1>2. /\ Change(e) = -1 /\ point_count_ \in Nat /\ point_count_ # 0 /\ point_count_ # 1
      /\ scroll_type_ \in ScrollType /\ state_ \in GestureState /\ "pinch" \in open
      /\ ("scroll" \in open \/ tapped) /\ (tapped => "scroll" \notin open)
  BY <1>1, EventKinds, InvFacts
<1>3. long_press_timer_' \in BOOLEAN /\ ~long_press_timer_'
  BY <1>1, TimerStops
<1>4. CASE point_count_ = 2
  <2> DEFINE gs == <<"PINCH_END">>
  <2>1. Finish(e, "SCROLL", gs)
    BY <1>4 DEF PinchEnd
  <2>2. "PINCH_END" \in Gestures
    BY DEF Gestures
  <2>3. gs \in Seq(Gestures) /\ \A x : Contains(gs, x) <=> x = "PINCH_END"
    BY <2>2, ShortLists, Zenon
  <2> HIDE DEF gs
  <2>4. /\ ~Contains(gs, "SCROLL_BEGIN") /\ ~Contains(gs, "PINCH_BEGIN") /\ Contains(gs, "PINCH_END")
        /\ ~Contains(gs, "PINCH_UPDATE") /\ ~Contains(gs, "LONG_PRESS")
        /\ ~Contains(gs, "SCROLL_END") /\ ~Contains(gs, "SCROLL_UPDATE")
    BY <2>3
  <2>5. "SCROLL" \in GestureState /\ point_count_ + Change(e) = 1
    BY <1>2, <1>4 DEF GestureState
  <2>6. AfterTap("SCROLL") <=> tapped
    BY <1>1, <1>2 DEF AfterTap
  <2> QED
    BY <1>1, <1>2, <1>3, <2>1, <2>3, <2>4, <2>5, <2>6, FinishKeeps
<1>5. CASE point_count_ # 2
  <2>1. PICK gs \in {<<>>, <<"MULTIFINGER_SWIPE">>} : Finish(e, state_, gs)
    BY <1>5 DEF PinchEnd, Perhaps
  <2>2. "MULTIFINGER_SWIPE" \in Gestures \ Telling
    BY DEF Gestures, Telling
  <2>3. gs \in Seq(Gestures) /\ \A x \in Telling : ~Contains(gs, x)
    BY <2>2, QuietLists, Zenon
  <2>4. point_count_ + Change(e) # 0 /\ point_count_ + Change(e) # 1
    BY <1>2, <1>5
  <2> QED
    BY <1>1, <1>2, <1>3, <2>1, <2>3, <2>4, QuietKeeps
<1> QED
  BY <1>4, <1>5

\* Fingers that join a pinch, those after the fifth, and fingers at rest change the
\* number of fingers of a pinch only, which keeps two at least.
LEMMA OtherSignatureStep ==
  ASSUME GestureInv, NEW e \in Event, OtherSignature(e)
  PROVE  GestureInv' /\ Turns
<1> DEFINE gs == <<>>
<1>1. /\ Arrives(e) /\ ~Returns(e) /\ Finish(e, state_, gs)
      /\ \/ state_ = "PINCH" /\ e.type = "PRESSED"
         \/ state_ = "PINCH" /\ PointId(e) \in 5 .. kMaxGesturePoints /\ e.type \in {"MOVED"} \cup Up
         \/ e.type = "STATIONARY"
      /\ KeepTimer(state_) /\ scroll_type_' = scroll_type_
  BY DEF OtherSignature, Signature, Up
<1>2. /\ point_count_ \in Nat /\ scroll_type_ \in ScrollType /\ state_ \in GestureState
      /\ state_ = "PINCH" => point_count_ # 0 /\ point_count_ # 1
  BY InvFacts
<1>3. gs \in Seq(Gestures) /\ \A x \in Telling : ~Contains(gs, x)
  BY EmptyList
<1> HIDE DEF gs
<1>4. long_press_timer_' \in BOOLEAN /\ (long_press_timer_' => state_ = "PENDING_SYNTHETIC_CLICK")
  BY <1>1, TimerStops
<1>5. CASE state_ = "PINCH" /\ e.type \in {"PRESSED", "MOVED"} \cup Up
  <2>1. point_count_ + Change(e) # 0 /\ point_count_ + Change(e) # 1
    <3>1. CASE e.type = "PRESSED"
      BY <1>1, <1>2, <1>5, <3>1, EventKinds
    <3>2. CASE e.type = "MOVED"
      BY <1>1, <1>2, <1>5, <3>2, EventKinds
    <3>3. CASE e.type \in Up
      <4>1. e.id \in Points /\ Change(e) = -1 /\ point_id[e.id] \in 5 .. kMaxGesturePoints
        BY <1>1, <3>3, EventKinds DEF PointId, Up
      <4>2. point_id[e.id] < point_count_ /\ point_id[e.id] >= 5 /\ point_id[e.id] \in Int
        BY <4>1, PointTypes
      <4> QED
        BY <1>2, <4>1, <4>2
    <3> QED
      BY <1>5, <3>1, <3>2, <3>3
  <2> QED
    BY <1>1, <1>2, <1>3, <1>4, <1>5, <2>1, QuietKeeps
<1>6. CASE e.type = "STATIONARY"
  <2>1. Change(e) = 0 /\ point_count_ + Change(e) = point_count_
    BY <1>1, <1>2, <1>6, EventKinds
  <2> QED
    BY <1>1, <1>2, <1>3, <1>4, <1>6, <2>1, InvFacts, QuietKeeps
<1> QED
  BY <1>1, <1>5, <1>6

\* A touch that is cancelled ends the gesture of its finger, the only one.
LEMMA NoGestureStep ==
  ASSUME GestureInv, NEW e \in Event, NoGesture(e)
  PROVE  GestureInv' /\ Turns
<1>1. /\ Arrives(e) /\ ~Returns(e) /\ state_ = "PENDING_SYNTHETIC_CLICK" /\ e.type = "CANCELLED"
      /\ state_' = "NO_GESTURE" /\ gestures' = <<"END">>
      /\ point_id' = [p \in Points |-> -1] /\ point_count_' = 0
      /\ open' = open \ {e.id} /\ KeepTimer("NO_GESTURE") /\ scroll_type_' = scroll_type_
      /\ point_id[e.id] = 0 /\ tapped' = FALSE
  BY DEF NoGesture, Signature, PointId
<1>2. down' = down /\ e.id \in Points
  BY <1>1, EventKinds DEF Arrives
<1>3. /\ scroll_type_ \in ScrollType /\ point_count_ = 1
      /\ "pinch" \notin open /\ "scroll" \notin open
  BY <1>1, InvFacts
<1>4. kMaxGesturePoints \in Nat
  BY PointTypes
<1>5. point_count_' \in 0 .. kMaxGesturePoints /\ point_id' \in [Points -> -1 .. (kMaxGesturePoints - 1)]
  BY <1>1, <1>4
<1>6. InUse' = {} /\ PointIdsContiguous'
  BY <1>1 DEF InUse, PointIdsContiguous
<1>7. InUse = {e.id}
  <2>1. \A p \in Points : point_id[p] \in Int /\ (point_id[p] >= 0 => point_id[p] < 1)
    BY <1>3, PointTypes
  <2>2. \A p, q \in Points : point_id[p] >= 0 /\ point_id[p] = point_id[q] => p = q
    BY PointTypes
  <2> QED
    BY <1>1, <1>2, <2>1, <2>2 DEF InUse
<1>8. open \cap Points = InUse /\ open \subseteq Points \cup {"scroll", "pinch"}
  BY DEF GestureInv, SequenceSound, GesturesPaired
<1>9. open' = {}
  BY <1>1, <1>3, <1>7, <1>8
<1>10. long_press_timer_' \in BOOLEAN /\ ~long_press_timer_'
  BY <1>1, TimerStops
<1>11. TypeOK'
  BY <1>1, <1>2, <1>3, <1>5, <1>10 DEF TypeOK, GestureState, kMaxGesturePoints, GestureInv,
     SequenceSound
<1>12. StateFitsFingers' /\ GesturesPaired'
  BY <1>1, <1>6, <1>9 DEF StateFitsFingers, GesturesPaired
<1>13. GestureInv'
  BY <1>6, <1>9, <1>10, <1>11, <1>12 DEF GestureInv, SequenceSound
<1>14. "END" \in Gestures
  BY DEF Gestures
<1>15. \A x : Contains(gestures', x) <=> x = "END"
  BY <1>1, <1>14, ShortLists, Zenon
<1>16. Turns
  BY <1>15 DEF Turns
<1> QED
  BY <1>13, <1>16

-----------------------------------------------------------------------------
(* Events without a case, and the timer *)

\* What GestureInv reads, but for the fingers and the timer.
Kept == UNCHANGED <<state_, scroll_type_, point_count_, point_id, open, tapped>>

\* Fewer fingers in no use, and a timer that stops, leave the invariant.
LEMMA KeptInv ==
  ASSUME GestureInv, Kept, InUse \subseteq down', down' \subseteq Touches,
         long_press_timer_' \in BOOLEAN, long_press_timer_' => long_press_timer_
  PROVE  GestureInv'
<1>1. /\ state_' = state_ /\ scroll_type_' = scroll_type_ /\ point_count_' = point_count_
      /\ point_id' = point_id /\ open' = open /\ tapped' = tapped
  BY DEF Kept
<1>2. InUse' = InUse /\ (PointIdsContiguous' <=> PointIdsContiguous)
  BY <1>1 DEF InUse, PointIdsContiguous
<1>3. TypeOK'
  BY <1>1 DEF TypeOK, kMaxGesturePoints, GestureInv, SequenceSound
<1>4. StateFitsFingers' /\ GesturesPaired'
  BY <1>1, <1>2 DEF StateFitsFingers, GesturesPaired, GestureInv, SequenceSound
<1> QED
  BY <1>1, <1>2, <1>3, <1>4 DEF GestureInv, SequenceSound

\* A list without gestures takes no turn.
LEMMA NoTurn ==
  ASSUME gestures' = <<>>
  PROVE  Turns
BY EmptyList, Zenon DEF Turns

\* A release is disregarded only if the finger's point is not in use.
LEMMA DisregardStep ==
  ASSUME GestureInv, ReleasesSeen, NEW e \in Event, Disregard(e)
  PROVE  GestureInv' /\ Turns
<1>1. Arrives(e) /\ (Returns(e) \/ e.type # "RELEASED") /\ Kept
      /\ long_press_timer_' = long_press_timer_ /\ gestures' = <<>>
  BY DEF Disregard, Kept
<1>2. InUse \subseteq down /\ down \subseteq Touches /\ long_press_timer_ \in BOOLEAN
  BY DEF GestureInv, SequenceSound, TypeOK
<1>3. e.id \in Touches
  BY DEF Event
<1>4. down' \subseteq Touches
  BY <1>1, <1>2, <1>3 DEF Arrives
<1>5. InUse \subseteq down'
  <2>1. CASE e.type = "RELEASED"
    <3>1. down' = down \ {e.id}
      BY <1>1, <2>1 DEF Arrives
    <3>2. e.id \notin InUse
      BY <1>1, <2>1, PointTypes DEF Returns, InUse
    <3> QED
      BY <1>2, <3>1, <3>2
  <2>2. CASE e.type # "RELEASED"
    BY <1>1, <1>2, <2>2 DEF Arrives
  <2> QED
    BY <2>1, <2>2
<1> QED
  BY <1>1, <1>2, <1>4, <1>5, KeptInv, NoTurn

\* The timer fires for one finger that has only been down.
LEMMA LongPressStep ==
  ASSUME GestureInv, LongPress
  PROVE  GestureInv' /\ Turns
<1>1. /\ long_press_timer_ /\ ~long_press_timer_' /\ long_press_timer_' \in BOOLEAN
      /\ gestures' = <<"LONG_PRESS">> /\ Kept /\ down' = down
  BY DEF LongPress, Kept
<1>2. InUse \subseteq down /\ down \subseteq Touches
  BY DEF GestureInv, SequenceSound, TypeOK
<1>3. GestureInv'
  BY <1>1, <1>2, KeptInv
<1>4. /\ state_ = "PENDING_SYNTHETIC_CLICK" /\ point_count_ = 1
      /\ "pinch" \notin open /\ "scroll" \notin open
  BY <1>1, InvFacts
<1>5. 0 \in 0 .. (point_count_ - 1)
  BY <1>4
<1>6. PICK p \in Points : point_id[p] = 0
  BY <1>5, PointTypes
<1>7. InUse = {p}
  <2>1. \A q \in Points : point_id[q] \in Int /\ (point_id[q] >= 0 => point_id[q] < 1)
    BY <1>4, PointTypes
  <2>2. \A x, y \in Points : point_id[x] >= 0 /\ point_id[x] = point_id[y] => x = y
    BY PointTypes
  <2> QED
    BY <1>6, <2>1, <2>2 DEF InUse
<1>8. open \cap Points = InUse /\ open \subseteq Points \cup {"scroll", "pinch"}
  BY DEF GestureInv, SequenceSound, GesturesPaired
<1>9. open = {p}
  BY <1>4, <1>7, <1>8
<1>10. "LONG_PRESS" \in Gestures
  BY DEF Gestures
<1>11. \A x : Contains(gestures', x) <=> x = "LONG_PRESS"
  BY <1>1, <1>10, ShortLists, Zenon
<1>12. Turns
  BY <1>4, <1>6, <1>7, <1>9, <1>11 DEF Turns
<1> QED
  BY <1>3, <1>12

-----------------------------------------------------------------------------
(* The theorems *)

\* Before the first touch no point is in use.
LEMMA GestureStart ==
  ASSUME Init
  PROVE  GestureInv
<1>1. kMaxGesturePoints \in Nat
  BY PointsAssumption, FS_CardinalityType DEF kMaxGesturePoints
<1>2. TypeOK
  <2>1. /\ state_ = "NO_GESTURE" /\ scroll_type_ = "FREE" /\ point_count_ = 0
        /\ point_id = [p \in Points |-> -1] /\ long_press_timer_ = FALSE /\ tapped = FALSE /\ down = {}
    BY DEF Init
  <2>2. point_id \in [Points -> -1 .. (kMaxGesturePoints - 1)]
    BY <1>1, <2>1
  <2>3. point_count_ \in 0 .. kMaxGesturePoints
    BY <1>1, <2>1
  <2>4. state_ \in GestureState /\ scroll_type_ \in ScrollType
    BY <2>1 DEF GestureState, ScrollType
  <2>5. {long_press_timer_, tapped} \subseteq BOOLEAN /\ down \subseteq Touches
    BY <2>1, Zenon
  <2> QED
    BY <2>2, <2>3, <2>4, <2>5 DEF TypeOK
<1>3. InUse = {} /\ PointIdsContiguous
  BY DEF Init, InUse, PointIdsContiguous
<1>4. StateFitsFingers /\ GesturesPaired
  BY <1>3 DEF Init, StateFitsFingers, GesturesPaired
<1> QED
  BY <1>2, <1>3, <1>4 DEF Init, GestureInv, SequenceSound

\* Every step keeps the invariant and takes gestures in turn.
LEMMA GestureStep ==
  ASSUME ReleasesSeen, GestureInv, Next
  PROVE  GestureInv' /\ Turns
<1>1. CASE LongPress
  BY <1>1, LongPressStep
<1>2. ASSUME NEW e \in Event, ProcessTouchEventForGesture(e) PROVE GestureInv' /\ Turns
  BY <1>2, TouchDownStep, ClickStep, NoScrollYetStep, ScrollStartStep, NoGestureStep, ScrollUpdateStep,
     ScrollEndStep, TwoFingerTouchDownStep, PinchStartStep, TwoFingerTouchMoveStep,
     TwoFingerTouchReleasedStep, TwoFingerCancelledStep, PinchUpdateStep, PinchEndStep,
     OtherSignatureStep, DisregardStep DEF ProcessTouchEventForGesture
<1> QED
  BY <1>1, <1>2 DEF Next

\* ReleasesSeen, as the run has it: no handler consumes the release of a touch whose
\* press it let pass.  State, point ids, fingers and open gestures agree after every event.
THEOREM GesturesSound ==
  ASSUME ReleasesSeen
  PROVE  Spec => []SequenceSound
<1>1. GestureInv /\ [Next]_vars => GestureInv'
  <2>1. CASE Next
    BY <2>1, GestureStep
  <2>2. CASE UNCHANGED vars
    <3>1. /\ Kept /\ down' = down /\ long_press_timer_' = long_press_timer_
      BY <2>2 DEF vars, Kept
    <3>2. GestureInv => InUse \subseteq down /\ down \subseteq Touches /\ long_press_timer_ \in BOOLEAN
      BY DEF GestureInv, SequenceSound, TypeOK
    <3> QED
      BY <3>1, <3>2, KeptInv
  <2> QED
    BY <2>1, <2>2
<1>2. GestureInv => SequenceSound
  BY DEF GestureInv
<1> QED
  BY GestureStart, <1>1, <1>2, PTL DEF Spec

\* With the same hypothesis: a scroll or a pinch does not begin while one is open, a pinch
\* is updated and ended only while it is open, and so is a scroll but for the fingers that
\* are left of a two-finger tap, which the code lets scroll though none has begun; and a
\* long press comes of one finger that has only been down.
THEOREM InTurn ==
  ASSUME ReleasesSeen
  PROVE  Spec => GesturesInTurn
<1>1. GestureInv /\ [Next]_vars => GestureInv' /\ [Turns]_vars
  <2>1. CASE Next
    BY <2>1, GestureStep
  <2>2. CASE UNCHANGED vars
    <3>1. /\ Kept /\ down' = down /\ long_press_timer_' = long_press_timer_
      BY <2>2 DEF vars, Kept
    <3>2. GestureInv => InUse \subseteq down /\ down \subseteq Touches /\ long_press_timer_ \in BOOLEAN
      BY DEF GestureInv, SequenceSound, TypeOK
    <3> QED
      BY <2>2, <3>1, <3>2, KeptInv
  <2> QED
    BY <2>1, <2>2
<1> QED
  BY GestureStart, <1>1, PTL DEF Spec, GesturesInTurn

-----------------------------------------------------------------------------
(* The mouse of a root window: the invariant *)

Type == {"NONE", "MOVED", "DRAGGED", "PRESSED", "RELEASED"}
Pc == {"begin", "exiting", "enter", "entering", "deliver", "delivering", "losing", "lost", "end"}
Kind == {"dispatch", "capture", "hidden", "SetHostBounds", "OnHostResized"}
FrameType ==
  [kind : Kind, pc : Pc, event : [type : Type, id : Nat], held : BOOLEAN,
   target : Windows \cup {NULL}, window : Windows \cup {NULL}]

\* Of a stack s and the windows v: the first n frames have one whose OnWindowHidden will
\* forget w; w is one of v, or none, or one that will be forgotten.
Going(s, w, n) == \E i \in 1 .. n : s[i].kind = "hidden" /\ s[i].window = w
Here(s, v, w, n) == w \in v \cup {NULL} \/ Going(s, w, n)

\* The windows that a frame may make the moved handler: a visible one, and one that was
\* hidden when the frame had already chosen it.
Known == visible \cup stale

\* Frames of events that the mouse made, and of the held event e.
Own(f) == f.held \/ f.event.id # 0
HeldFrame(s, e) == \E i \in 1 .. Len(s) : s[i].held /\ s[i].event = e

\* What a frame has just read, or is about to write, only at the top of the stack.
TopOnly == {"enter", "deliver", "lost"}
\* What a frame on which another one is pushed is not about to do.
Busy == TopOnly \cup {"begin"}

\* The window that a frame will make a handler is one of v, or forgotten after that.
Aims(s, v) ==
  \A i \in 1 .. Len(s) :
    /\ i < Len(s) => s[i].pc \notin TopOnly
    /\ s[i].kind = "dispatch" /\ s[i].pc \in {"exiting", "enter"} => Here(s, v, s[i].target, i)
    /\ s[i].kind = "capture" /\ s[i].pc \in {"losing", "lost"} => s[i].target \in v \cup {NULL}

\* A new event of the mouse, at the bottom of the stack, and a frame of a held event
\* that has another one of the same event below it.
Waits(f) == f.event.id # 0 /\ ~f.held
Repeats(s, i) == s[i].held /\ \E j \in 1 .. i - 1 : s[j].held /\ s[j].event = s[i].event

\* A new event of the mouse is dispatched from the bottom of the stack, after the event
\* h that is held when it comes, whose frame is right above it; held events are earlier
\* than it, and only one that is being dispatched is dispatched again.
FrameOrder(s, h, d, a, i) ==
  /\ s[i].event.id <= a
  /\ s[i].kind # "dispatch" => ~Own(s[i])
  /\ s[i].event.id # 0 => i = 1 \/ s[i].held
  /\ i = 1 /\ Waits(s[1]) /\ h.id # 0 => Len(s) >= 2 /\ s[2].held /\ h.id < s[1].event.id
  /\ i # 1 /\ s[i].held /\ Waits(s[1]) => s[i].event.id < s[1].event.id
  /\ s[i].pc = "begin" /\ s[i].held => i = Len(s) /\ s[i].event = h
  /\ s[i].pc = "begin" /\ s[i].event.id # 0 => s[i].event.id > d \/ Repeats(s, i)
Order(s, h, d, a) == \A i \in 1 .. Len(s) : FrameOrder(s, h, d, a, i)

Counts ==
  /\ arrived \in Nat /\ dispatched \in Nat /\ dispatched <= arrived
  /\ mouse_move_hold_count_ \in 0 .. MaxHolds /\ held_tasks \in 0 .. 1 /\ synthesize_tasks \in Nat
  /\ buttons \in BOOLEAN /\ synthesize_mouse_move_ \in BOOLEAN
  /\ mouse_move_hold_count_ > 0 => held_tasks = 0
  /\ synthesize_mouse_move_ => synthesize_tasks > 0

\* The held event: who dispatches it, and that it is later than what was dispatched.
HeldMove ==
  /\ held_mouse_move_ \in [type : {"NONE", "MOVED", "DRAGGED"}, id : Nat]
  /\ held_mouse_move_.id <= arrived
  /\ held_mouse_move_ # NoEvent
       => mouse_move_hold_count_ > 0 \/ held_tasks > 0 \/ HeldFrame(stack, held_mouse_move_)
  /\ held_mouse_move_.id # 0
       => held_mouse_move_.id > dispatched \/ HeldFrame(stack, held_mouse_move_)

Handlers ==
  /\ visible \subseteq Windows /\ stale \subseteq Windows /\ capture_window_ \in visible \cup {NULL}
  /\ mouse_pressed_handler_ \in Windows \cup {NULL} /\ mouse_moved_handler_ \in Windows \cup {NULL}
  /\ Here(stack, visible, mouse_pressed_handler_, Len(stack))
  /\ Here(stack, Known, mouse_moved_handler_, Len(stack))

MouseInv ==
  /\ stack \in Seq(FrameType)
  /\ Counts /\ HeldMove /\ Handlers
  /\ Aims(stack, Known)
  /\ Order(stack, held_mouse_move_, dispatched, arrived)

-----------------------------------------------------------------------------
(* Stacks *)

\* The top frame is replaced.
LEMMA TopFrame ==
  ASSUME NEW s \in Seq(FrameType), s # <<>>, NEW f \in FrameType, NEW t, t = [s EXCEPT ![Len(s)] = f]
  PROVE  /\ Len(s) \in Nat /\ Len(s) > 0 /\ Last(s) = s[Len(s)] /\ Last(s) \in FrameType
         /\ t \in Seq(FrameType) /\ Len(t) = Len(s) /\ t # <<>>
         /\ t[Len(s)] = f /\ \A i \in 1 .. Len(s) : i # Len(s) => t[i] = s[i]
<1>1. Len(s) \in Nat /\ Len(s) > 0
  OBVIOUS
<1>2. s \in [1 .. Len(s) -> FrameType] /\ Len(s) \in 1 .. Len(s)
  BY <1>1
<1>3. t \in Seq(FrameType) /\ Len(t) = Len(s)
  BY ExceptSeq, <1>2
<1>4. t[Len(s)] = f /\ \A i \in 1 .. Len(s) : i # Len(s) => t[i] = s[i]
  BY <1>2
<1>5. Last(s) = s[Len(s)] /\ s[Len(s)] \in FrameType /\ t # <<>>
  BY <1>1, <1>2, <1>3 DEF Last
<1> QED
  BY <1>1, <1>3, <1>4, <1>5

\* A frame is pushed.
LEMMA PushedFrame ==
  ASSUME NEW s \in Seq(FrameType), NEW f \in FrameType, NEW t, t = Append(s, f)
  PROVE  /\ Len(s) \in Nat /\ t \in Seq(FrameType) /\ Len(t) = Len(s) + 1 /\ t # <<>>
         /\ t[Len(t)] = f /\ \A i \in 1 .. Len(s) : t[i] = s[i]
BY AppendProperties

\* The top frame is popped.
LEMMA PoppedFrame ==
  ASSUME NEW s \in Seq(FrameType), s # <<>>, NEW t, t = Front(s)
  PROVE  /\ Len(s) \in Nat /\ Len(s) > 0 /\ Last(s) = s[Len(s)] /\ Last(s) \in FrameType
         /\ t \in Seq(FrameType) /\ Len(t) = Len(s) - 1 /\ (t = <<>> <=> Len(s) = 1)
         /\ \A i \in 1 .. Len(s) - 1 : t[i] = s[i]
<1>1. Len(s) \in Nat /\ Len(s) > 0
  OBVIOUS
<1>2. t = SubSeq(s, 1, Len(s) - 1)
  BY DEF Front
<1> DEFINE m == Len(s) - 1
<1>3. m \in Int /\ 1 \in Int /\ m >= 0 /\ \A i \in 1 .. m : s[i] \in FrameType
  BY <1>1
<1>4. t \in Seq(FrameType) /\ Len(t) = m /\ \A i \in 1 .. m : t[i] = s[i]
  <2> HIDE DEF m
  <2>1. /\ SubSeq(s, 1, m) \in Seq(FrameType)
        /\ Len(SubSeq(s, 1, m)) = IF 1 <= m THEN m - 1 + 1 ELSE 0
        /\ \A i \in 1 .. m - 1 + 1 : SubSeq(s, 1, m)[i] = s[1 + i - 1]
    BY <1>3, SubSeqProperties
  <2>2. t = SubSeq(s, 1, m)
    BY <1>2 DEF m
  <2> QED
    BY <1>3, <2>1, <2>2
<1>5. t = <<>> <=> m = 0
  BY <1>4
<1> QED
  BY <1>1, <1>4, <1>5 DEF Last

-----------------------------------------------------------------------------
(* Hidden windows *)

\* A window that is here stays here while its hidden frame, if any, is on the stack.
LEMMA HereKept ==
  ASSUME NEW s, NEW t, NEW v, NEW v2, v \subseteq v2, NEW w, NEW n \in Nat, NEW m \in Nat, n <= m,
         \A i \in 1 .. n : s[i].kind = "hidden" => t[i].kind = "hidden" /\ t[i].window = s[i].window,
         Here(s, v, w, n)
  PROVE  Here(t, v2, w, m)
BY DEF Here, Going

\* A frame that is no hidden one may go.
LEMMA HerePop ==
  ASSUME NEW s, NEW v, NEW w, NEW n \in Nat, n > 0, s[n].kind # "hidden" \/ s[n].window # w, Here(s, v, w, n)
  PROVE  Here(s, v, w, n - 1)
BY DEF Here, Going

-----------------------------------------------------------------------------
(* What frames aim at *)

\* More windows become visible.
LEMMA AimsVisible ==
  ASSUME NEW s, NEW v, NEW v2, v \subseteq v2, Aims(s, v)
  PROVE  Aims(s, v2)
BY DEF Aims, Here, Going

\* The top frame goes on, to a state in which it aims at what is here.
LEMMA AimsTop ==
  ASSUME NEW s \in Seq(FrameType), s # <<>>, NEW f \in FrameType, NEW t, t = [s EXCEPT ![Len(s)] = f],
         NEW v, Aims(s, v), s[Len(s)].kind # "hidden" \/ (f.kind = "hidden" /\ f.window = s[Len(s)].window),
         f.kind = "dispatch" /\ f.pc \in {"exiting", "enter"} => Here(s, v, f.target, Len(s)),
         f.kind = "capture" /\ f.pc \in {"losing", "lost"} => f.target \in v \cup {NULL}
  PROVE  Aims(t, v)
<1>1. /\ Len(s) \in Nat /\ Len(s) > 0 /\ Len(t) = Len(s)
      /\ t[Len(s)] = f /\ \A i \in 1 .. Len(s) : i # Len(s) => t[i] = s[i]
  BY TopFrame
<1>2. \A w : \A n \in 1 .. Len(s) : Here(s, v, w, n) => Here(t, v, w, n)
  <2> SUFFICES ASSUME NEW w, NEW n \in 1 .. Len(s), Here(s, v, w, n) PROVE Here(t, v, w, n)
    OBVIOUS
  <2>1. ASSUME NEW i \in 1 .. n, s[i].kind = "hidden" PROVE t[i].kind = "hidden" /\ t[i].window = s[i].window
    <3>1. CASE i = Len(s)
      BY <1>1, <2>1, <3>1
    <3>2. CASE i # Len(s)
      <4>1. i \in 1 .. Len(s)
        <5> DEFINE k == Len(s)
        <5>1. k \in Nat /\ n \in 1 .. k /\ i \in 1 .. n
          BY <1>1
        <5> HIDE DEF k
        <5>2. i \in 1 .. k
          BY <5>1
        <5> QED
          BY <5>2 DEF k
      <4> QED
        BY <1>1, <2>1, <3>2, <4>1
    <3> QED
      BY <3>1, <3>2
  <2> QED
    BY <1>1, <2>1 DEF Here, Going
<1> SUFFICES ASSUME NEW i \in 1 .. Len(s)
             PROVE  /\ i < Len(t) => t[i].pc \notin TopOnly
                    /\ t[i].kind = "dispatch" /\ t[i].pc \in {"exiting", "enter"}
                         => Here(t, v, t[i].target, i)
                    /\ t[i].kind = "capture" /\ t[i].pc \in {"losing", "lost"}
                         => t[i].target \in v \cup {NULL}
  BY <1>1 DEF Aims
<1>3. CASE i = Len(s)
  <2>1. t[i] = f /\ ~(i < Len(t))
    <3> DEFINE k == Len(s)
    <3>1. k \in Nat /\ i = k /\ t[i] = f /\ Len(t) = k
      BY <1>1, <1>3
    <3> HIDE DEF k
    <3> QED
      BY <3>1
  <2>2. Here(s, v, f.target, Len(s)) => Here(t, v, f.target, i)
    BY <1>1, <1>2, <1>3
  <2>3. /\ f.kind = "dispatch" /\ f.pc \in {"exiting", "enter"} => Here(t, v, f.target, i)
        /\ f.kind = "capture" /\ f.pc \in {"losing", "lost"} => f.target \in v \cup {NULL}
    BY <2>2
  <2> DEFINE u == t[i]
  <2>4. u = f /\ ~(i < Len(t))
    BY <2>1
  <2> HIDE DEF u
  <2>5. /\ i < Len(t) => u.pc \notin TopOnly
        /\ u.kind = "dispatch" /\ u.pc \in {"exiting", "enter"} => Here(t, v, u.target, i)
        /\ u.kind = "capture" /\ u.pc \in {"losing", "lost"} => u.target \in v \cup {NULL}
    BY <2>3, <2>4
  <2> QED
    BY <2>5 DEF u
<1>4. CASE i # Len(s)
  <2> DEFINE k == Len(s)
  <2>1. k \in Nat /\ i \in 1 .. k /\ i # k
    BY <1>1, <1>4
  <2>2. t[i] = s[i]
    BY <1>1, <2>1
  <2> HIDE DEF k
  <2>3. i < k
    BY <2>1
  <2>4. t[i] = s[i] /\ i < Len(s)
    BY <2>2, <2>3 DEF k
  <2>5. /\ s[i].pc \notin TopOnly
        /\ s[i].kind = "dispatch" /\ s[i].pc \in {"exiting", "enter"} => Here(s, v, s[i].target, i)
        /\ s[i].kind = "capture" /\ s[i].pc \in {"losing", "lost"} => s[i].target \in v \cup {NULL}
    BY <2>4 DEF Aims
  <2> QED
    BY <1>2, <2>4, <2>5
<1> QED
  BY <1>3, <1>4

\* A frame is pushed on one that waits.
LEMMA AimsPush ==
  ASSUME NEW s \in Seq(FrameType), NEW f \in FrameType, NEW t, t = Append(s, f), NEW v, Aims(s, v),
         s # <<>> => s[Len(s)].pc \notin TopOnly,
         f.kind = "dispatch" => f.pc \notin {"exiting", "enter"},
         f.kind = "capture" => f.target \in v \cup {NULL}
  PROVE  Aims(t, v)
<1>1. /\ Len(s) \in Nat /\ Len(t) = Len(s) + 1
      /\ t[Len(t)] = f /\ \A i \in 1 .. Len(s) : t[i] = s[i]
  BY PushedFrame
<1> SUFFICES ASSUME NEW i \in 1 .. Len(t)
             PROVE  /\ i < Len(t) => t[i].pc \notin TopOnly
                    /\ t[i].kind = "dispatch" /\ t[i].pc \in {"exiting", "enter"}
                         => Here(t, v, t[i].target, i)
                    /\ t[i].kind = "capture" /\ t[i].pc \in {"losing", "lost"}
                         => t[i].target \in v \cup {NULL}
  BY DEF Aims
<1>2. CASE i = Len(t)
  BY <1>1, <1>2
<1>3. CASE i # Len(t)
  <2>1. i \in 1 .. Len(s) /\ t[i] = s[i]
    BY <1>1, <1>3
  <2>2. s[i].pc \notin TopOnly
    BY <1>1, <2>1 DEF Aims
  <2>3. /\ s[i].kind = "dispatch" /\ s[i].pc \in {"exiting", "enter"} => Here(s, v, s[i].target, i)
        /\ s[i].kind = "capture" /\ s[i].pc \in {"losing", "lost"} => s[i].target \in v \cup {NULL}
    BY <2>1 DEF Aims
  <2>4. Here(s, v, s[i].target, i) => Here(t, v, s[i].target, i)
    BY <1>1, <2>1 DEF Here, Going
  <2> QED
    BY <2>1, <2>2, <2>3, <2>4
<1> QED
  BY <1>2, <1>3

\* The top frame is popped.
LEMMA AimsPop ==
  ASSUME NEW s \in Seq(FrameType), s # <<>>, NEW t, t = Front(s), NEW v, Aims(s, v)
  PROVE  Aims(t, v)
<1>1. /\ Len(s) \in Nat /\ Len(s) > 0 /\ Len(t) = Len(s) - 1
      /\ \A i \in 1 .. Len(s) - 1 : t[i] = s[i]
  BY PoppedFrame
<1> SUFFICES ASSUME NEW i \in 1 .. Len(s) - 1
             PROVE  /\ t[i].pc \notin TopOnly
                    /\ t[i].kind = "dispatch" /\ t[i].pc \in {"exiting", "enter"}
                         => Here(t, v, t[i].target, i)
                    /\ t[i].kind = "capture" /\ t[i].pc \in {"losing", "lost"}
                         => t[i].target \in v \cup {NULL}
  BY <1>1 DEF Aims
<1>2. i \in 1 .. Len(s) /\ i < Len(s) /\ t[i] = s[i]
  BY <1>1
<1>3. /\ s[i].pc \notin TopOnly
      /\ s[i].kind = "dispatch" /\ s[i].pc \in {"exiting", "enter"} => Here(s, v, s[i].target, i)
      /\ s[i].kind = "capture" /\ s[i].pc \in {"losing", "lost"} => s[i].target \in v \cup {NULL}
  BY <1>2 DEF Aims
<1>4. Here(s, v, s[i].target, i) => Here(t, v, s[i].target, i)
  BY <1>1, <1>2 DEF Here, Going
<1> QED
  BY <1>2, <1>3, <1>4

\* A window may be hidden where it stays known to the frames that will make it a handler.
LEMMA AimsHide ==
  ASSUME NEW s \in Seq(FrameType), NEW v, NEW v2, Aims(s, v),
         \A i \in 1 .. Len(s) : s[i].pc \in {"exiting", "losing"} /\ s[i].target \in v => s[i].target \in v2,
         s # <<>> => s[Len(s)].pc \notin TopOnly
  PROVE  Aims(s, v2)
<1> SUFFICES ASSUME NEW i \in 1 .. Len(s)
             PROVE  /\ i < Len(s) => s[i].pc \notin TopOnly
                    /\ s[i].kind = "dispatch" /\ s[i].pc \in {"exiting", "enter"}
                         => Here(s, v2, s[i].target, i)
                    /\ s[i].kind = "capture" /\ s[i].pc \in {"losing", "lost"}
                         => s[i].target \in v2 \cup {NULL}
  BY DEF Aims
<1>1. s[i].pc \notin TopOnly
  BY DEF Aims
<1>2. /\ s[i].kind = "dispatch" /\ s[i].pc \in {"exiting", "enter"} => Here(s, v, s[i].target, i)
      /\ s[i].kind = "capture" /\ s[i].pc \in {"losing", "lost"} => s[i].target \in v \cup {NULL}
  BY DEF Aims
<1>3. s[i].pc \in {"exiting", "losing"} =>
        /\ Here(s, v, s[i].target, i) => Here(s, v2, s[i].target, i)
        /\ s[i].target \in v \cup {NULL} => s[i].target \in v2 \cup {NULL}
  BY DEF Here
<1> QED
  BY <1>1, <1>2, <1>3 DEF TopOnly

-----------------------------------------------------------------------------
(* The order of events *)

\* The held event is dropped, or replaced by a synthesized one; no frame is about to
\* dispatch it.
LEMMA OrderHeld ==
  ASSUME NEW s \in Seq(FrameType), NEW h, NEW h2, h2.id = 0, NEW d, NEW a, Order(s, h, d, a),
         s # <<>> => s[Len(s)].pc # "begin"
  PROVE  Order(s, h2, d, a)
<1> SUFFICES ASSUME NEW i \in 1 .. Len(s) PROVE FrameOrder(s, h2, d, a, i)
  BY DEF Order
<1>1. FrameOrder(s, h, d, a, i)
  BY DEF Order
<1>2. i = Len(s) => s[i].pc # "begin"
  OBVIOUS
<1> QED
  BY <1>1, <1>2 DEF FrameOrder

\* The top frame goes on.
LEMMA OrderTop ==
  ASSUME NEW s \in Seq(FrameType), s # <<>>, NEW f \in FrameType, NEW t, t = [s EXCEPT ![Len(s)] = f],
         NEW h, NEW d, NEW a, Order(s, h, d, a),
         f.kind = s[Len(s)].kind, f.event = s[Len(s)].event, f.held = s[Len(s)].held, f.pc # "begin"
  PROVE  Order(t, h, d, a)
<1>1. /\ Len(s) \in Nat /\ Len(s) > 0 /\ Len(t) = Len(s)
      /\ t[Len(s)] = f /\ \A i \in 1 .. Len(s) : i # Len(s) => t[i] = s[i]
  BY TopFrame
<1>2. \A i \in 1 .. Len(s) : /\ t[i].kind = s[i].kind /\ t[i].event = s[i].event /\ t[i].held = s[i].held
                             /\ t[i].pc = "begin" => s[i].pc = "begin"
  BY <1>1
<1> SUFFICES ASSUME NEW i \in 1 .. Len(s) PROVE FrameOrder(t, h, d, a, i)
  BY <1>1 DEF Order
<1>3. FrameOrder(s, h, d, a, i)
  BY DEF Order
<1> DEFINE n == Len(s)
<1>4. n \in Nat /\ i \in 1 .. n /\ Len(t) = n
  BY <1>1
<1> HIDE DEF n
<1>5. 1 \in 1 .. n /\ (n >= 2 => 2 \in 1 .. n)
  BY <1>4
<1>6. /\ Own(t[i]) <=> Own(s[i])
      /\ Waits(t[1]) <=> Waits(s[1])
      /\ n >= 2 => (t[2].held <=> s[2].held)
  BY <1>2, <1>4, <1>5 DEF Own, Waits, n
<1>7. Repeats(s, i) => Repeats(t, i)
  <2>1. \A j \in 1 .. i - 1 : j \in 1 .. n
    BY <1>4
  <2> QED
    BY <1>2, <2>1 DEF Repeats, n
<1>8. t[1].event = s[1].event
  BY <1>2, <1>5 DEF n
<1>9. /\ t[i].kind = s[i].kind /\ t[i].event = s[i].event /\ t[i].held = s[i].held
      /\ t[i].pc = "begin" => s[i].pc = "begin"
  BY <1>2
<1>10. Len(s) = n
  BY DEF n
<1> QED
  BY <1>3, <1>4, <1>6, <1>7, <1>8, <1>9, <1>10 DEF FrameOrder

\* The frames below one that is pushed, or is popped, and the held event that they wait for.
LEMMA OrderBelow ==
  ASSUME NEW s, NEW t, NEW n \in Nat, NEW m \in Nat, Len(s) = n, Len(t) = m, NEW i \in 1 .. n, i <= m,
         \A j \in 1 .. i : t[j] = s[j], NEW h, NEW h2, NEW d, NEW a, FrameOrder(s, h, d, a, i),
         h2.id = 0 \/ (h2 = h /\ (n >= 2 /\ s[2].held => m >= 2 /\ t[2].held)),
         s[i].pc = "begin" => ~s[i].held
  PROVE  FrameOrder(t, h2, d, a, i)
<1>1. 1 \in 1 .. i /\ i \in 1 .. i
  OBVIOUS
<1>2. t[i] = s[i] /\ t[1] = s[1]
  BY <1>1
<1>3. Repeats(s, i) => Repeats(t, i)
  <2>1. \A j \in 1 .. i - 1 : j \in 1 .. i
    OBVIOUS
  <2> QED
    BY <1>2, <2>1 DEF Repeats
<1> QED
  BY <1>2, <1>3 DEF FrameOrder

\* A frame without an event of the mouse is pushed.
LEMMA OrderPush ==
  ASSUME NEW s \in Seq(FrameType), NEW f \in FrameType, NEW t, t = Append(s, f),
         NEW h, NEW d, NEW a \in Nat, Order(s, h, d, a), ~f.held, f.event.id = 0,
         s # <<>> => s[Len(s)].pc # "begin"
  PROVE  Order(t, h, d, a)
<1>1. /\ Len(s) \in Nat /\ Len(t) = Len(s) + 1
      /\ t[Len(t)] = f /\ \A i \in 1 .. Len(s) : t[i] = s[i]
  BY PushedFrame
<1> SUFFICES ASSUME NEW i \in 1 .. Len(t) PROVE FrameOrder(t, h, d, a, i)
  BY DEF Order
<1>2. CASE i = Len(t)
  <2>1. t[i] = f /\ (i = 1 => ~Waits(t[1]))
    BY <1>1, <1>2 DEF Waits
  <2> QED
    BY <2>1 DEF FrameOrder, Own
<1>3. CASE i # Len(t)
  <2>1. i \in 1 .. Len(s) /\ i <= Len(t) /\ \A j \in 1 .. i : t[j] = s[j]
    BY <1>1, <1>3
  <2>2. FrameOrder(s, h, d, a, i)
    BY <2>1 DEF Order
  <2>3. s[i].pc = "begin" => ~s[i].held
    BY <1>1, <2>1, <2>2 DEF FrameOrder
  <2>4. Len(s) >= 2 /\ s[2].held => Len(t) >= 2 /\ t[2].held
    BY <1>1
  <2>5. Len(t) \in Nat
    BY <1>1
  <2> QED
    BY <1>1, <2>1, <2>2, <2>3, <2>4, <2>5, OrderBelow
<1> QED
  BY <1>2, <1>3

\* The held event is dispatched above what goes on; again, perhaps.
LEMMA OrderPushHeld ==
  ASSUME NEW s \in Seq(FrameType), s # <<>>, NEW f \in FrameType, NEW t, t = Append(s, f),
         NEW h, NEW d, NEW a \in Nat, Order(s, h, d, a), f.held, f.event = h, f.kind = "dispatch",
         h.id \in Nat, h.id <= a, h.id # 0 => h.id > d \/ HeldFrame(s, h),
         s[Len(s)].pc # "begin"
  PROVE  Order(t, h, d, a)
<1>1. /\ Len(s) \in Nat /\ Len(s) > 0 /\ Len(t) = Len(s) + 1
      /\ t[Len(t)] = f /\ \A i \in 1 .. Len(s) : t[i] = s[i]
  BY PushedFrame
<1> SUFFICES ASSUME NEW i \in 1 .. Len(t) PROVE FrameOrder(t, h, d, a, i)
  BY DEF Order
<1>2. CASE i = Len(t)
  <2>1. t[i] = f /\ i # 1 /\ 1 \in 1 .. Len(s) /\ t[1] = s[1]
    <3> DEFINE n == Len(s)
    <3>1. n \in Nat /\ n > 0 /\ i = n + 1
      BY <1>1, <1>2
    <3> HIDE DEF n
    <3>2. i # 1 /\ 1 \in 1 .. n
      BY <3>1
    <3> QED
      BY <1>1, <1>2, <3>2 DEF n
  <2>2. Waits(t[1]) => h.id < t[1].event.id
    <3>1. FrameOrder(s, h, d, a, 1)
      BY <2>1 DEF Order
    <3>2. Waits(s[1]) /\ h.id # 0 => h.id < s[1].event.id
      BY <3>1 DEF FrameOrder
    <3>3. Waits(s[1]) /\ h.id = 0 => h.id < s[1].event.id
      <4>1. s[1] \in FrameType
        BY <2>1
      <4>2. s[1].event.id \in Nat
        BY <4>1 DEF FrameType
      <4> QED
        BY <4>2 DEF Waits
    <3> QED
      BY <2>1, <3>2, <3>3
  <2>3. HeldFrame(s, h) => Repeats(t, i)
    <3> SUFFICES ASSUME HeldFrame(s, h) PROVE Repeats(t, i)
      OBVIOUS
    <3>1. PICK j \in 1 .. Len(s) : s[j].held /\ s[j].event = h
      BY DEF HeldFrame
    <3>2. j \in 1 .. i - 1 /\ t[j] = s[j]
      BY <1>1, <1>2
    <3> QED
      BY <2>1, <3>1, <3>2 DEF Repeats
  <2> QED
    BY <1>2, <2>1, <2>2, <2>3 DEF FrameOrder
<1>3. CASE i # Len(t)
  <2>1. i \in 1 .. Len(s) /\ i <= Len(t) /\ \A j \in 1 .. i : t[j] = s[j]
    BY <1>1, <1>3
  <2>2. FrameOrder(s, h, d, a, i)
    BY <2>1 DEF Order
  <2>3. s[i].pc = "begin" => ~s[i].held
    BY <1>1, <2>1, <2>2 DEF FrameOrder
  <2>4. Len(s) >= 2 /\ s[2].held => Len(t) >= 2 /\ t[2].held
    BY <1>1
  <2>5. Len(t) \in Nat
    BY <1>1
  <2> QED
    BY ONLY <1>1, <2>1, <2>2, <2>3, <2>4, <2>5, OrderBelow
<1> QED
  BY <1>2, <1>3

\* The top frame is popped, and with the held one the held event.
LEMMA OrderPop ==
  ASSUME NEW s \in Seq(FrameType), s # <<>>, NEW t, t = Front(s),
         NEW h, NEW h2, NEW d, NEW a, Order(s, h, d, a),
         h2.id = 0 \/ (h2 = h /\ ~s[Len(s)].held)
  PROVE  Order(t, h2, d, a)
<1>1. /\ Len(s) \in Nat /\ Len(s) > 0 /\ Len(t) = Len(s) - 1
      /\ \A i \in 1 .. Len(s) - 1 : t[i] = s[i]
  BY PoppedFrame
<1> SUFFICES ASSUME NEW i \in 1 .. Len(s) - 1 PROVE FrameOrder(t, h2, d, a, i)
  BY <1>1 DEF Order
<1> DEFINE n == Len(s)
           m == Len(s) - 1
<1>2. n \in Nat /\ n > 0 /\ m = n - 1 /\ i \in 1 .. m /\ Len(t) = m /\ Len(s) = n
      /\ \A j \in 1 .. m : t[j] = s[j]
  BY <1>1
<1>3. n = 2 => s[2] = s[Len(s)]
  OBVIOUS
<1> HIDE DEF n, m
<1>4. i \in 1 .. n /\ i # n /\ i <= m /\ m \in Nat /\ \A j \in 1 .. i : t[j] = s[j]
  BY <1>2
<1>5. FrameOrder(s, h, d, a, i)
  BY <1>2, <1>4 DEF Order
<1>6. s[i].pc = "begin" => ~s[i].held
  BY <1>2, <1>4, <1>5 DEF FrameOrder
<1>7. h2.id = 0 \/ (h2 = h /\ (n >= 2 /\ s[2].held => m >= 2 /\ t[2].held))
  <2> SUFFICES ASSUME ~s[Len(s)].held, n >= 2, s[2].held PROVE m >= 2 /\ t[2].held
    OBVIOUS
  <2>1. n # 2
    BY <1>3
  <2>2. m >= 2
    BY <1>2, <2>1
  <2>3. 2 \in 1 .. m
    BY <1>2, <2>2
  <2> QED
    BY <1>2, <2>2, <2>3
<1> QED
  BY <1>2, <1>4, <1>5, <1>6, <1>7, OrderBelow

\* The event at the top begins to be dispatched: what waits below it is later.
LEMMA OrderBegin ==
  ASSUME NEW s \in Seq(FrameType), s # <<>>, NEW f \in FrameType, NEW t, t = [s EXCEPT ![Len(s)] = f],
         NEW h, NEW d, NEW a, Order(s, h, d, a),
         f.kind = s[Len(s)].kind, f.event = s[Len(s)].event, f.held = s[Len(s)].held, f.pc # "begin",
         f.event.id # 0
  PROVE  Order(t, h, f.event.id, a)
<1>1. Order(t, h, d, a)
  BY OrderTop
<1> DEFINE n == Len(t)
<1>2. /\ n \in Nat /\ n > 0 /\ Len(t) = n /\ t[n] = f /\ t \in Seq(FrameType)
      /\ \A i \in 1 .. n : FrameOrder(t, h, d, a, i)
  <2>1. /\ Len(s) \in Nat /\ Len(s) > 0 /\ Len(t) = Len(s) /\ t[Len(s)] = f /\ t \in Seq(FrameType)
    BY TopFrame
  <2> QED
    BY <1>1, <2>1 DEF Order
<1> HIDE DEF n
<1> SUFFICES ASSUME NEW i \in 1 .. n PROVE FrameOrder(t, h, f.event.id, a, i)
  BY <1>2 DEF Order
<1>3. FrameOrder(t, h, d, a, i)
  BY <1>2
<1>4. t[i].pc = "begin" /\ t[i].event.id # 0 => t[i].event.id > f.event.id
  <2> SUFFICES ASSUME t[i].pc = "begin", t[i].event.id # 0 PROVE t[i].event.id > f.event.id
    OBVIOUS
  <2>1. i # n /\ ~t[i].held
    BY <1>2, <1>3 DEF FrameOrder
  <2>2. i = 1 /\ n # 1 /\ n \in 1 .. n
    BY <1>2, <1>3, <2>1 DEF FrameOrder
  <2>3. FrameOrder(t, h, d, a, n)
    BY <1>2, <2>2
  <2>4. t[n].held
    BY <1>2, <2>2, <2>3 DEF FrameOrder
  <2>5. Waits(t[1])
    BY <2>1, <2>2 DEF Waits
  <2>6. t[n].event.id < t[1].event.id
    BY <2>2, <2>3, <2>4, <2>5 DEF FrameOrder
  <2>7. t[1].event.id \in Nat /\ f.event.id \in Nat
    <3>1. t[i] \in FrameType
      BY <1>2
    <3> QED
      BY <2>2, <3>1 DEF FrameType
  <2> QED
    BY <1>2, <2>2, <2>6, <2>7
<1> QED
  BY <1>3, <1>4 DEF FrameOrder

-----------------------------------------------------------------------------
(* Stacks of one and of two frames *)

\* What begins on an empty stack.
LEMMA OneFrame ==
  ASSUME NEW f \in FrameType, f.pc \in {"begin", "end"}, f.kind # "capture",
         NEW v, NEW h, NEW d, NEW a,
         f.event.id <= a, f.kind # "dispatch" => ~Own(f),
         f.event.id # 0 /\ ~f.held => h.id = 0, f.held => f.event = h,
         f.event.id # 0 => f.event.id > d,
         NEW t, t = <<f>>
  PROVE  /\ t \in Seq(FrameType) /\ Len(t) = 1 /\ Aims(t, v) /\ Order(t, h, d, a)
         /\ \A e : HeldFrame(t, e) <=> f.held /\ f.event = e
<1>1. t \in Seq(FrameType) /\ Len(t) = 1 /\ t[1] = f /\ \A i \in 1 .. Len(t) : i = 1
  OBVIOUS
<1>2. Aims(t, v)
  BY <1>1 DEF Aims, TopOnly
<1>3. Order(t, h, d, a)
  <2>1. FrameOrder(t, h, d, a, 1)
    BY <1>1 DEF FrameOrder, Own, Waits
  <2> QED
    BY <1>1, <2>1 DEF Order
<1>4. \A e : HeldFrame(t, e) <=> f.held /\ f.event = e
  BY <1>1 DEF HeldFrame
<1> QED
  BY <1>1, <1>2, <1>3, <1>4

\* The held event goes first.
LEMMA TwoFrames ==
  ASSUME NEW f \in FrameType, f.pc \in {"begin", "end"}, f.kind # "capture", ~f.held,
         NEW g \in FrameType, g.pc = "begin", g.kind = "dispatch", g.held,
         NEW v, NEW h, h = g.event, NEW d, NEW a,
         f.event.id <= a, g.event.id <= a, f.kind # "dispatch" => ~Own(f),
         f.event.id # 0 => f.event.id > d /\ g.event.id < f.event.id,
         g.event.id # 0 => g.event.id > d,
         NEW t, t = <<f, g>>
  PROVE  /\ t \in Seq(FrameType) /\ Len(t) = 2 /\ Aims(t, v) /\ Order(t, h, d, a)
         /\ HeldFrame(t, h)
<1>1. /\ t \in Seq(FrameType) /\ Len(t) = 2 /\ t[1] = f /\ t[2] = g
      /\ \A i \in 1 .. Len(t) : i = 1 \/ i = 2
      /\ 1 \in 1 .. Len(t) /\ 2 \in 1 .. Len(t)
  OBVIOUS
<1>2. Aims(t, v)
  BY <1>1 DEF Aims, TopOnly
<1>3. Order(t, h, d, a)
  <2>1. Waits(f) => g.event.id < f.event.id
    BY DEF Waits
  <2>2. FrameOrder(t, h, d, a, 1)
    BY <1>1, <2>1 DEF FrameOrder, Own
  <2>3. FrameOrder(t, h, d, a, 2)
    BY <1>1, <2>1 DEF FrameOrder, Own
  <2> QED
    BY <1>1, <2>2, <2>3 DEF Order
<1>4. HeldFrame(t, h)
  BY <1>1 DEF HeldFrame
<1> QED
  BY <1>1, <1>2, <1>3, <1>4

-----------------------------------------------------------------------------
(* The stack in a step *)

\* The top frame goes on.
LEMMA StackTop ==
  ASSUME MouseInv, stack # <<>>, NEW f \in FrameType, stack' = [stack EXCEPT ![Len(stack)] = f],
         f.kind = Last(stack).kind, f.event = Last(stack).event, f.held = Last(stack).held, f.pc # "begin",
         f.kind # "hidden" \/ f.window = Last(stack).window,
         f.kind = "dispatch" /\ f.pc \in {"exiting", "enter"} => Here(stack, Known, f.target, Len(stack)),
         f.kind = "capture" /\ f.pc \in {"losing", "lost"} => f.target \in Known \cup {NULL},
         Known' = Known, arrived' = arrived
  PROVE  /\ stack' \in Seq(FrameType) /\ stack' # <<>> /\ Len(stack') = Len(stack)
         /\ Aims(stack', Known')
         /\ dispatched' = dispatched => Order(stack', held_mouse_move_, dispatched', arrived')
         /\ dispatched' = (IF f.event.id = 0 THEN dispatched ELSE f.event.id)
              => Order(stack', held_mouse_move_, dispatched', arrived')
         /\ \A e : HeldFrame(stack', e) <=> HeldFrame(stack, e)
         /\ \A v, w : Here(stack, v, w, Len(stack)) => Here(stack', v, w, Len(stack'))
         /\ Last(stack') = f
<1>1. /\ stack \in Seq(FrameType) /\ Aims(stack, Known)
      /\ Order(stack, held_mouse_move_, dispatched, arrived)
  BY DEF MouseInv
<1>2. /\ Len(stack) \in Nat /\ Len(stack) > 0 /\ Last(stack) = stack[Len(stack)]
      /\ stack' \in Seq(FrameType) /\ Len(stack') = Len(stack) /\ stack' # <<>>
      /\ stack'[Len(stack)] = f /\ \A i \in 1 .. Len(stack) : i # Len(stack) => stack'[i] = stack[i]
  BY <1>1, TopFrame
<1>3. Aims(stack', Known')
  <2>1. Aims(stack', Known)
    <3>1. stack[Len(stack)].kind # "hidden" \/ (f.kind = "hidden" /\ f.window = stack[Len(stack)].window)
      BY <1>2
    <3> QED
      BY <1>1, <1>2, <3>1, AimsTop
  <2> QED
    BY <2>1
<1>4. dispatched' = dispatched => Order(stack', held_mouse_move_, dispatched', arrived')
  <2>1. Order(stack', held_mouse_move_, dispatched, arrived)
    BY <1>1, <1>2, OrderTop
  <2> QED
    BY <2>1
<1>5. dispatched' = (IF f.event.id = 0 THEN dispatched ELSE f.event.id)
        => Order(stack', held_mouse_move_, dispatched', arrived')
  <2>1. CASE f.event.id = 0
    BY <1>4, <2>1
  <2>2. CASE f.event.id # 0
    <3>1. Order(stack', held_mouse_move_, f.event.id, arrived)
      BY <1>1, <1>2, <2>2, OrderBegin
    <3> QED
      BY <2>2, <3>1
  <2> QED
    BY <2>1, <2>2
<1>6. \A e : HeldFrame(stack', e) <=> HeldFrame(stack, e)
  <2>1. \A i \in 1 .. Len(stack) : stack'[i].held = stack[i].held /\ stack'[i].event = stack[i].event
    BY <1>2
  <2> QED
    BY <1>2, <2>1 DEF HeldFrame
<1>7. ASSUME NEW v, NEW w, Here(stack, v, w, Len(stack)) PROVE Here(stack', v, w, Len(stack'))
  <2>1. \A i \in 1 .. Len(stack) : stack[i].kind = "hidden" =>
          stack'[i].kind = "hidden" /\ stack'[i].window = stack[i].window
    BY <1>2
  <2>2. Here(stack', v, w, Len(stack'))
    <3>1. Len(stack) \in Nat /\ Len(stack') = Len(stack)
      BY <1>2
    <3>2. Here(stack', v, w, Len(stack))
      BY <1>7, <2>1 DEF Here, Going
    <3> QED
      BY <3>1, <3>2
  <2> QED
    BY <2>2
<1>8. Last(stack') = f
  BY <1>2 DEF Last
<1> QED
  BY <1>2, <1>3, <1>4, <1>5, <1>6, <1>7, <1>8

\* A frame that is no event of the mouse is pushed on one that waits.
LEMMA StackPush ==
  ASSUME NEW s \in Seq(FrameType), Aims(s, Known), Order(s, held_mouse_move_, dispatched, arrived),
         arrived \in Nat, NEW f \in FrameType, stack' = Append(s, f),
         s # <<>> => Last(s).pc \notin Busy,
         f.kind = "dispatch" => f.pc \notin {"exiting", "enter"},
         f.kind = "capture" => f.target \in Known \cup {NULL},
         ~f.held, f.event.id = 0,
         Known' = Known, arrived' = arrived, dispatched' = dispatched
  PROVE  /\ stack' \in Seq(FrameType) /\ stack' # <<>> /\ Aims(stack', Known')
         /\ Order(stack', held_mouse_move_, dispatched', arrived')
         /\ \A e : HeldFrame(s, e) => HeldFrame(stack', e)
         /\ \A v, w : Here(s, v, w, Len(s)) => Here(stack', v, w, Len(stack'))
<1>1. /\ Len(s) \in Nat /\ stack' \in Seq(FrameType) /\ Len(stack') = Len(s) + 1 /\ stack' # <<>>
      /\ stack'[Len(stack')] = f /\ \A i \in 1 .. Len(s) : stack'[i] = s[i]
  BY PushedFrame
<1>2. s # <<>> => s[Len(s)].pc \notin TopOnly /\ s[Len(s)].pc # "begin"
  BY DEF Last, Busy
<1>3. Aims(stack', Known)
  BY <1>2, AimsPush
<1>4. Order(stack', held_mouse_move_, dispatched, arrived)
  BY <1>2, OrderPush
<1>5. \A e : HeldFrame(s, e) => HeldFrame(stack', e)
  BY <1>1 DEF HeldFrame
<1>6. ASSUME NEW v, NEW w, Here(s, v, w, Len(s)) PROVE Here(stack', v, w, Len(stack'))
  <2>1. \A i \in 1 .. Len(s) : s[i].kind = "hidden" =>
          stack'[i].kind = "hidden" /\ stack'[i].window = s[i].window
    BY <1>1
  <2>2. Here(stack', v, w, Len(stack'))
    <3>1. Len(stack') \in Nat /\ Len(s) <= Len(stack')
      BY <1>1
    <3> QED
      BY <1>1, <1>6, <2>1, <3>1, HereKept
  <2> QED
    BY <2>2
<1> QED
  BY <1>1, <1>3, <1>4, <1>5, <1>6

\* The top frame is popped.
LEMMA StackPop ==
  ASSUME MouseInv, stack # <<>>, stack' = Front(stack),
         Known' = Known, arrived' = arrived, dispatched' = dispatched
  PROVE  /\ stack' \in Seq(FrameType) /\ Aims(stack', Known')
         /\ \A h2 : h2.id = 0 \/ (h2 = held_mouse_move_ /\ ~Last(stack).held)
              => Order(stack', h2, dispatched', arrived')
         /\ \A e : HeldFrame(stack, e) /\ ~Last(stack).held => HeldFrame(stack', e)
         /\ \A v, w : Here(stack, v, w, Len(stack))
                     /\ (Last(stack).kind # "hidden" \/ Last(stack).window # w)
                       => Here(stack', v, w, Len(stack'))
         /\ Last(stack) \in FrameType
<1>1. /\ stack \in Seq(FrameType) /\ Aims(stack, Known)
      /\ Order(stack, held_mouse_move_, dispatched, arrived)
  BY DEF MouseInv
<1>2. /\ Len(stack) \in Nat /\ Len(stack) > 0 /\ Last(stack) = stack[Len(stack)]
      /\ Last(stack) \in FrameType
      /\ stack' \in Seq(FrameType) /\ Len(stack') = Len(stack) - 1
      /\ \A i \in 1 .. Len(stack) - 1 : stack'[i] = stack[i]
  BY <1>1, PoppedFrame
<1>3. Aims(stack', Known)
  BY <1>1, AimsPop
<1>4. ASSUME NEW h2, h2.id = 0 \/ (h2 = held_mouse_move_ /\ ~Last(stack).held)
      PROVE  Order(stack', h2, dispatched, arrived)
  BY <1>1, <1>2, <1>4, OrderPop
<1>5. \A e : HeldFrame(stack, e) /\ ~Last(stack).held => HeldFrame(stack', e)
  <2> SUFFICES ASSUME NEW e, HeldFrame(stack, e), ~Last(stack).held PROVE HeldFrame(stack', e)
    OBVIOUS
  <2>1. PICK i \in 1 .. Len(stack) : stack[i].held /\ stack[i].event = e
    BY DEF HeldFrame
  <2>2. i # Len(stack)
    BY <1>2, <2>1
  <2> DEFINE k == Len(stack)
  <2>3. i \in 1 .. k /\ k \in Nat
    BY <1>2
  <2> HIDE DEF k
  <2>4. i # k => i \in 1 .. k - 1
    BY <2>3
  <2>5. i \in 1 .. Len(stack) - 1
    BY <2>2, <2>4 DEF k
  <2> QED
    BY <1>2, <2>1, <2>5 DEF HeldFrame
<1>6. ASSUME NEW v, NEW w, Here(stack, v, w, Len(stack)),
             Last(stack).kind # "hidden" \/ Last(stack).window # w
      PROVE  Here(stack', v, w, Len(stack'))
  <2>1. Here(stack, v, w, Len(stack) - 1)
    BY <1>2, <1>6, HerePop
  <2>2. \A i \in 1 .. Len(stack) - 1 : stack[i].kind = "hidden" =>
          stack'[i].kind = "hidden" /\ stack'[i].window = stack[i].window
    BY <1>2
  <2>3. Len(stack) - 1 \in Nat /\ Len(stack') \in Nat
    BY <1>2
  <2> QED
    BY <1>2, <2>1, <2>2, <2>3, HereKept
<1> QED
  BY <1>2, <1>3, <1>4, <1>5, <1>6

-----------------------------------------------------------------------------
-----------------------------------------------------------------------------
(* Steps that leave the stack alone *)

\* Nothing that the handlers, the frames and the order of events depend on changes.
Still == UNCHANGED <<visible, stale, capture_window_, mouse_pressed_handler_, mouse_moved_handler_,
                     stack, arrived, dispatched>>

\* The windows that are visible or stale stay what they are.
LEMMA KnownKept ==
  ASSUME visible' = visible, stale' = stale
  PROVE  Known' = Known
BY DEF Known

\* A hold cancels the task of the held event, and is what will post the next.
LEMMA HoldStep ==
  ASSUME MouseInv, HoldMouseMoves
  PROVE  MouseInv'
<1>1. /\ Still /\ held_mouse_move_' = held_mouse_move_ /\ buttons' = buttons
      /\ synthesize_mouse_move_' = synthesize_mouse_move_ /\ synthesize_tasks' = synthesize_tasks
      /\ mouse_move_hold_count_ < MaxHolds /\ mouse_move_hold_count_' = mouse_move_hold_count_ + 1
      /\ held_tasks' = IF mouse_move_hold_count_ = 0 THEN 0 ELSE held_tasks
  BY DEF HoldMouseMoves, Invalidated, Still, handlers
<1>2. MouseInv /\ MaxHolds \in Nat
  BY ConstantsAssumption
<1>3. Counts'
  BY <1>1, <1>2 DEF MouseInv, Counts, Still
<1>4. mouse_move_hold_count_' > 0
  BY <1>1, <1>2 DEF MouseInv, Counts
<1>5. HeldMove'
  BY <1>1, <1>2, <1>4 DEF MouseInv, HeldMove, Still
<1>6. Handlers' /\ Aims(stack, Known)' /\ Order(stack, held_mouse_move_, dispatched, arrived)'
  <2>1. Known' = Known
    BY <1>1, KnownKept DEF Still
  <2> QED
    BY <1>1, <1>2, <2>1 DEF MouseInv, Handlers, Still
<1> QED
  BY <1>1, <1>2, <1>3, <1>5, <1>6 DEF MouseInv, Still

\* The last release of a held event posts the task that dispatches it.
LEMMA ReleaseStep ==
  ASSUME MouseInv, ReleaseMouseMoves
  PROVE  MouseInv'
<1>1. /\ Still /\ held_mouse_move_' = held_mouse_move_ /\ buttons' = buttons
      /\ synthesize_mouse_move_' = synthesize_mouse_move_ /\ synthesize_tasks' = synthesize_tasks
      /\ mouse_move_hold_count_ > 0 /\ mouse_move_hold_count_' = mouse_move_hold_count_ - 1
      /\ held_tasks' = IF mouse_move_hold_count_ = 1 /\ held_mouse_move_ # NoEvent
                       THEN held_tasks + 1 ELSE held_tasks
  BY DEF ReleaseMouseMoves, Released, Still, handlers
<1>2. MouseInv /\ MaxHolds \in Nat
  BY ConstantsAssumption
<1>3. Counts'
  BY <1>1, <1>2 DEF MouseInv, Counts, Still
<1>4. held_mouse_move_ # NoEvent => mouse_move_hold_count_' > 0 \/ held_tasks' > 0
  BY <1>1, <1>2 DEF MouseInv, Counts
<1>5. HeldMove'
  BY <1>1, <1>2, <1>4 DEF MouseInv, HeldMove, Still
<1>6. Handlers' /\ Aims(stack, Known)' /\ Order(stack, held_mouse_move_, dispatched, arrived)'
  <2>1. Known' = Known
    BY <1>1, KnownKept DEF Still
  <2> QED
    BY <1>1, <1>2, <2>1 DEF MouseInv, Handlers, Still
<1> QED
  BY <1>1, <1>2, <1>3, <1>5, <1>6 DEF MouseInv, Still

\* A synthesized move is posted, once.
LEMMA PostedCounts ==
  ASSUME Counts, PostMouseMove
  PROVE  /\ synthesize_tasks' \in Nat /\ synthesize_mouse_move_' \in BOOLEAN
         /\ synthesize_mouse_move_' => synthesize_tasks' > 0
<1>1. synthesize_tasks \in Nat /\ synthesize_mouse_move_ \in BOOLEAN /\ (synthesize_mouse_move_ => synthesize_tasks > 0)
  BY DEF Counts
<1>2. CASE synthesize_mouse_move_' = TRUE /\ synthesize_mouse_move_ /\ synthesize_tasks' = synthesize_tasks
  BY <1>1, <1>2
<1>3. CASE synthesize_mouse_move_' = TRUE /\ synthesize_tasks' = synthesize_tasks + 1
  BY <1>1, <1>3
<1>4. CASE UNCHANGED <<synthesize_mouse_move_, synthesize_tasks>>
  BY <1>1, <1>4
<1> QED
  BY <1>2, <1>3, <1>4 DEF PostMouseMove

\* More windows are visible; frames and handlers are not asked.
LEMMA ShowStep ==
  ASSUME MouseInv, NEW w \in Windows, Show(w)
  PROVE  MouseInv'
<1>1. /\ visible' = visible \cup {w} /\ stale' = stale \ {w} /\ PostMouseMove
      /\ capture_window_' = capture_window_ /\ mouse_pressed_handler_' = mouse_pressed_handler_
      /\ mouse_moved_handler_' = mouse_moved_handler_ /\ buttons' = buttons
      /\ mouse_move_hold_count_' = mouse_move_hold_count_ /\ held_mouse_move_' = held_mouse_move_
      /\ held_tasks' = held_tasks /\ stack' = stack /\ arrived' = arrived /\ dispatched' = dispatched
  BY DEF Show, handlers
<1>2. /\ stack \in Seq(FrameType) /\ Counts /\ HeldMove /\ Handlers /\ Aims(stack, Known)
      /\ Order(stack, held_mouse_move_, dispatched, arrived)
  BY DEF MouseInv
<1>3. Counts'
  BY <1>1, <1>2, PostedCounts DEF Counts
<1>4. HeldMove'
  BY <1>1, <1>2 DEF HeldMove
<1>5. Known \subseteq Known'
  BY <1>1 DEF Known
<1>6. Aims(stack', Known')
  <2>1. Aims(stack, Known')
    BY <1>2, <1>5, AimsVisible
  <2> QED
    BY <1>1, <2>1
<1>7. Handlers'
  <2>1. \A x : Here(stack, visible, x, Len(stack)) => Here(stack, visible', x, Len(stack))
    BY <1>1 DEF Here
  <2>2. \A x : Here(stack, Known, x, Len(stack)) => Here(stack, Known', x, Len(stack))
    BY <1>5 DEF Here
  <2> QED
    BY <1>1, <1>2, <2>1, <2>2 DEF Handlers
<1> QED
  BY <1>1, <1>2, <1>3, <1>4, <1>6, <1>7 DEF MouseInv

-----------------------------------------------------------------------------
(* Steps of the top frame *)

\* The facts of the top frame.
LEMMA TopType ==
  ASSUME MouseInv, stack # <<>>
  PROVE  /\ top \in FrameType /\ top = stack[Len(stack)] /\ Len(stack) \in Nat
         /\ Len(stack) > 0
         /\ top.kind \in Kind /\ top.pc \in Pc
         /\ top.event \in [type : Type, id : Nat]
         /\ top.held \in BOOLEAN /\ top.target \in Windows \cup {NULL}
         /\ top.window \in Windows \cup {NULL}
         /\ top.event.id <= arrived
<1>1. stack \in Seq(FrameType) /\ Order(stack, held_mouse_move_, dispatched, arrived)
  BY DEF MouseInv
<1>2. top = stack[Len(stack)] /\ Len(stack) \in 1 .. Len(stack) /\ Len(stack) > 0
  BY <1>1 DEF top, Last
<1>3. top \in FrameType
  BY <1>1, <1>2
<1>4. top.event.id <= arrived
  BY <1>1, <1>2 DEF Order, FrameOrder
<1> QED
  BY <1>1, <1>2, <1>3, <1>4 DEF FrameType

\* Another state of the top frame.
LEMMA GotoFrame ==
  ASSUME MouseInv, stack # <<>>, NEW pc \in Pc, stack' = Goto(pc)
  PROVE  \E f \in FrameType :
           /\ stack' = [stack EXCEPT ![Len(stack)] = f] /\ f.pc = pc
           /\ f.kind = top.kind /\ f.event = top.event /\ f.held = top.held
           /\ f.target = top.target /\ f.window = top.window
<1>1. top \in FrameType /\ top = stack[Len(stack)]
  BY TopType
<1> DEFINE f == [top EXCEPT !.pc = pc]
<1>2. f \in FrameType
  BY <1>1 DEF FrameType
<1>3. /\ f.pc = pc /\ f.kind = top.kind /\ f.event = top.event /\ f.held = top.held
      /\ f.target = top.target /\ f.window = top.window
  BY <1>1 DEF FrameType
<1>4. stack' = [stack EXCEPT ![Len(stack)] = f]
  BY <1>1 DEF Goto
<1> QED
  BY <1>2, <1>3, <1>4

\* What a step of the top frame keeps, if it makes no handler of a window that is not here.
LEMMA TopKeeps ==
  ASSUME MouseInv, stack # <<>>, NEW f \in FrameType, stack' = [stack EXCEPT ![Len(stack)] = f],
         f.kind = top.kind, f.event = top.event, f.held = top.held, f.pc # "begin",
         f.kind # "hidden" \/ f.window = top.window,
         f.kind = "dispatch" /\ f.pc \in {"exiting", "enter"} => Here(stack, Known, f.target, Len(stack)),
         f.kind = "capture" /\ f.pc \in {"losing", "lost"} => f.target \in Known \cup {NULL},
         visible' = visible, stale' = stale, arrived' = arrived, dispatched' = dispatched,
         capture_window_' = capture_window_,
         mouse_pressed_handler_' \in Windows \cup {NULL}, mouse_moved_handler_' \in Windows \cup {NULL},
         Here(stack, visible, mouse_pressed_handler_', Len(stack)),
         Here(stack, Known, mouse_moved_handler_', Len(stack)),
         buttons' = buttons, UNCHANGED moves
  PROVE  MouseInv'
<1>1. /\ stack \in Seq(FrameType) /\ Counts /\ HeldMove /\ Handlers
      /\ Order(stack, held_mouse_move_, dispatched, arrived)
  BY DEF MouseInv
<1>2. /\ stack' \in Seq(FrameType) /\ Aims(stack', Known')
      /\ Order(stack', held_mouse_move_, dispatched', arrived')
      /\ \A e : HeldFrame(stack', e) <=> HeldFrame(stack, e)
      /\ \A v, w : Here(stack, v, w, Len(stack)) => Here(stack', v, w, Len(stack'))
  <2>1. Known' = Known
    BY KnownKept
  <2> QED
    BY <2>1, StackTop DEF top
<1>3. /\ mouse_move_hold_count_' = mouse_move_hold_count_ /\ held_mouse_move_' = held_mouse_move_
      /\ held_tasks' = held_tasks /\ synthesize_mouse_move_' = synthesize_mouse_move_
      /\ synthesize_tasks' = synthesize_tasks
  BY DEF moves
<1>4. Counts'
  BY <1>1, <1>3 DEF Counts
<1>5. HeldMove'
  BY <1>1, <1>2, <1>3 DEF HeldMove
<1>6. Handlers'
  <2>1. Known' = Known
    BY KnownKept
  <2> QED
    BY <1>1, <1>2, <2>1 DEF Handlers
<1> QED
  BY <1>2, <1>3, <1>4, <1>5, <1>6 DEF MouseInv

\* What the frame at the top aims at, and which events it may dispatch.
LEMMA TopAims ==
  ASSUME MouseInv, stack # <<>>
  PROVE  /\ top.kind = "dispatch" /\ top.pc \in {"exiting", "enter"} => Here(stack, Known, top.target, Len(stack))
         /\ top.kind = "capture" /\ top.pc \in {"losing", "lost"} => top.target \in Known \cup {NULL}
         /\ top.kind # "dispatch" => ~top.held /\ top.event.id = 0
         /\ top.event.id # 0 /\ ~top.held => held_mouse_move_.id = 0
         /\ top.pc = "begin" /\ top.held => top.event = held_mouse_move_
<1>1. Aims(stack, Known) /\ Order(stack, held_mouse_move_, dispatched, arrived)
  BY DEF MouseInv
<1> DEFINE n == Len(stack)
<1>2. top = stack[n] /\ n \in 1 .. Len(stack) /\ n \in Nat /\ n > 0
  BY TopType
<1>3. /\ top.kind = "dispatch" /\ top.pc \in {"exiting", "enter"} => Here(stack, Known, top.target, n)
      /\ top.kind = "capture" /\ top.pc \in {"losing", "lost"} => top.target \in Known \cup {NULL}
  BY <1>1, <1>2 DEF Aims
<1>4. FrameOrder(stack, held_mouse_move_, dispatched, arrived, n)
  BY <1>1, <1>2 DEF Order
<1>5. /\ top.kind # "dispatch" => ~Own(top)
      /\ top.pc = "begin" /\ top.held => top.event = held_mouse_move_
  BY <1>2, <1>4 DEF FrameOrder
<1>6. top.event.id # 0 /\ ~top.held => held_mouse_move_.id = 0
  <2> SUFFICES ASSUME top.event.id # 0, ~top.held, held_mouse_move_.id # 0 PROVE FALSE
    OBVIOUS
  <2>1. n = 1
    BY <1>2, <1>4 DEF FrameOrder
  <2>2. Waits(stack[1])
    BY <1>2, <2>1 DEF Waits
  <2>3. Len(stack) >= 2
    BY <1>4, <2>1, <2>2 DEF FrameOrder
  <2> QED
    BY <2>1, <2>3
<1> QED
  BY <1>3, <1>5, <1>6 DEF Own

\* The handlers are here.
LEMMA HandlersHere ==
  ASSUME MouseInv
  PROVE  /\ mouse_pressed_handler_ \in Windows \cup {NULL}
         /\ mouse_moved_handler_ \in Windows \cup {NULL}
         /\ Here(stack, visible, mouse_pressed_handler_, Len(stack))
         /\ Here(stack, Known, mouse_moved_handler_, Len(stack))
         /\ visible \subseteq Windows /\ stale \subseteq Windows /\ visible \subseteq Known
         /\ capture_window_ \in visible \cup {NULL}
BY DEF MouseInv, Handlers, Known

\* The window that the mouse enters becomes a handler: it is here.
LEMMA EnterStep ==
  ASSUME MouseInv, Enter
  PROVE  MouseInv'
<1>1. /\ stack # <<>> /\ top.kind = "dispatch" /\ top.pc = "enter"
      /\ mouse_moved_handler_' = top.target /\ visible' = visible /\ stale' = stale
      /\ capture_window_' = capture_window_
      /\ mouse_pressed_handler_' = mouse_pressed_handler_ /\ buttons' = buttons /\ UNCHANGED moves
      /\ arrived' = arrived /\ dispatched' = dispatched
      /\ \E pc \in {"entering", "deliver"} : stack' = Goto(pc)
  BY DEF Enter, At
<1>2. PICK pc \in {"entering", "deliver"} : stack' = Goto(pc)
  BY <1>1
<1>3. PICK f \in FrameType :
           /\ stack' = [stack EXCEPT ![Len(stack)] = f] /\ f.pc = pc
           /\ f.kind = top.kind /\ f.event = top.event /\ f.held = top.held
           /\ f.target = top.target /\ f.window = top.window
  <2>1. pc \in Pc
    BY DEF Pc
  <2> QED
    BY <1>1, <1>2, <2>1, GotoFrame
<1>4. Here(stack, Known, top.target, Len(stack)) /\ top.target \in Windows \cup {NULL}
  BY <1>1, TopAims, TopType
<1>5. f.pc \notin {"exiting", "enter", "losing", "lost", "begin"}
  BY <1>3
<1> QED
  BY <1>1, <1>3, <1>4, <1>5, TopKeeps, HandlersHere

\* The window of the event is told, or is hidden.
LEMMA DeliverStep ==
  ASSUME MouseInv, Deliver
  PROVE  MouseInv'
<1>1. /\ stack # <<>> /\ top.kind = "dispatch" /\ visible' = visible /\ stale' = stale
      /\ capture_window_' = capture_window_
      /\ mouse_moved_handler_' = mouse_moved_handler_
      /\ mouse_pressed_handler_' = mouse_pressed_handler_ /\ buttons' = buttons /\ UNCHANGED moves
      /\ arrived' = arrived /\ dispatched' = dispatched
      /\ \E pc \in {"delivering", "end"} : stack' = Goto(pc)
  BY DEF Deliver, At, handlers
<1>2. PICK pc \in {"delivering", "end"} : stack' = Goto(pc)
  BY <1>1
<1>3. PICK f \in FrameType :
           /\ stack' = [stack EXCEPT ![Len(stack)] = f] /\ f.pc = pc
           /\ f.kind = top.kind /\ f.event = top.event /\ f.held = top.held
           /\ f.target = top.target /\ f.window = top.window
  <2>1. pc \in Pc
    BY DEF Pc
  <2> QED
    BY <1>1, <1>2, <2>1, GotoFrame
<1>4. f.pc \notin {"exiting", "enter", "losing", "lost", "begin"}
  BY <1>3
<1> QED
  BY <1>1, <1>3, <1>4, TopKeeps, HandlersHere

\* A handler returns: the frame aims at what it aimed at before.
LEMMA HandlerReturnsStep ==
  ASSUME MouseInv, HandlerReturns
  PROVE  MouseInv'
<1>1. /\ stack # <<>> /\ top.pc \in ClientPcs /\ visible' = visible /\ stale' = stale
      /\ capture_window_' = capture_window_
      /\ mouse_moved_handler_' = mouse_moved_handler_
      /\ mouse_pressed_handler_' = mouse_pressed_handler_ /\ buttons' = buttons /\ UNCHANGED moves
      /\ arrived' = arrived /\ dispatched' = dispatched
  BY DEF HandlerReturns, InClient, handlers
<1>2. PICK pc \in {"enter", "deliver", "end", "lost"} :
        /\ stack' = Goto(pc)
        /\ pc = "enter" => top.pc = "exiting"
        /\ pc = "lost" => top.pc = "losing"
  <2>1. CASE top.pc = "exiting"
    BY <2>1 DEF HandlerReturns
  <2>2. CASE top.pc = "entering"
    BY <2>2 DEF HandlerReturns
  <2>3. CASE top.pc = "delivering"
    BY <2>3 DEF HandlerReturns
  <2>4. CASE top.pc = "losing"
    BY <2>4 DEF HandlerReturns
  <2> QED
    BY <1>1, <2>1, <2>2, <2>3, <2>4 DEF ClientPcs
<1>3. PICK f \in FrameType :
           /\ stack' = [stack EXCEPT ![Len(stack)] = f] /\ f.pc = pc
           /\ f.kind = top.kind /\ f.event = top.event /\ f.held = top.held
           /\ f.target = top.target /\ f.window = top.window
  <2>1. pc \in Pc
    BY DEF Pc
  <2> QED
    BY <1>1, <1>2, <2>1, GotoFrame
<1>4. f.kind = "dispatch" /\ f.pc \in {"exiting", "enter"} => Here(stack, Known, f.target, Len(stack))
  BY <1>1, <1>2, <1>3, TopAims
<1>5. f.kind = "capture" /\ f.pc \in {"losing", "lost"} => f.target \in Known \cup {NULL}
  BY <1>1, <1>2, <1>3, TopAims
<1>6. f.pc # "begin"
  BY <1>3
<1> QED
  BY <1>1, <1>3, <1>4, <1>5, <1>6, TopKeeps, HandlersHere

\* An event begins to be dispatched: its target is here, and it is later than all
\* that were dispatched and earlier than what is held or waits.
LEMMA BeginStep ==
  ASSUME MouseInv, NEW t \in Windows \cup {NULL}, Begin(t)
  PROVE  MouseInv'
<1>1. /\ stack # <<>> /\ top.kind = "dispatch" /\ top.pc = "begin" /\ t \in Targets
      /\ synthesize_mouse_move_' = FALSE /\ synthesize_tasks' = synthesize_tasks
      /\ dispatched' = (IF top.event.id = 0 THEN dispatched ELSE top.event.id)
      /\ visible' = visible /\ stale' = stale /\ capture_window_' = capture_window_
      /\ mouse_moved_handler_' = mouse_moved_handler_
      /\ mouse_move_hold_count_' = mouse_move_hold_count_ /\ held_mouse_move_' = held_mouse_move_
      /\ held_tasks' = held_tasks /\ arrived' = arrived
  BY DEF Begin, At
<1>2. /\ mouse_pressed_handler_' \in {t, NULL, mouse_pressed_handler_}
      /\ buttons' \in BOOLEAN \cup {buttons}
  BY DEF Begin
<1>3. PICK pc \in {"deliver", "exiting", "enter"} :
        stack' = [stack EXCEPT ![Len(stack)].target = t, ![Len(stack)].window = mouse_moved_handler_,
                               ![Len(stack)].pc = pc]
  BY DEF Begin
<1>4. /\ top \in FrameType /\ top = stack[Len(stack)] /\ Len(stack) \in 1 .. Len(stack)
      /\ top.event.id <= arrived /\ top.event.id \in Nat /\ stack \in Seq(FrameType)
  BY <1>1, TopType DEF MouseInv, FrameType
<1> DEFINE f == [top EXCEPT !.target = t, !.window = mouse_moved_handler_, !.pc = pc]
<1>5. /\ f \in FrameType /\ f.pc = pc /\ f.kind = top.kind /\ f.event = top.event
      /\ f.held = top.held
      /\ f.target = t
  <2>1. pc \in Pc
    BY DEF Pc
  <2> QED
    BY <1>4, <2>1, HandlersHere DEF FrameType
<1>6. stack' = [stack EXCEPT ![Len(stack)] = f]
  BY <1>3, <1>4
<1> HIDE DEF f
<1>7. /\ Here(stack, visible, t, Len(stack)) /\ Here(stack, visible, NULL, Len(stack))
      /\ Here(stack, Known, t, Len(stack)) /\ Known' = Known
  <2>1. Here(stack, visible, t, Len(stack)) /\ Here(stack, visible, NULL, Len(stack))
    BY <1>1, HandlersHere DEF Targets, Here
  <2> QED
    BY <1>1, <2>1, KnownKept DEF Here, Known
<1>8. /\ stack' \in Seq(FrameType) /\ Aims(stack', Known')
      /\ Order(stack', held_mouse_move_, dispatched', arrived')
      /\ \A e : HeldFrame(stack', e) <=> HeldFrame(stack, e)
      /\ \A v, w : Here(stack, v, w, Len(stack)) => Here(stack', v, w, Len(stack'))
  <2>1. f.pc # "begin" /\ f.kind # "hidden" /\ f.kind # "capture"
    BY <1>1, <1>5
  <2>2. Here(stack, Known, f.target, Len(stack))
    BY <1>5, <1>7
  <2> QED
    BY <1>1, <1>5, <1>6, <1>7, <2>1, <2>2, StackTop DEF top
<1>9. Counts'
  <2>1. Counts
    BY DEF MouseInv
  <2>2. dispatched' \in Nat /\ dispatched' <= arrived
    BY <1>1, <1>4, <2>1 DEF Counts
  <2>3. buttons' \in BOOLEAN
    BY <1>2, <2>1 DEF Counts
  <2> QED
    BY <1>1, <2>1, <2>2, <2>3 DEF Counts
<1>10. HeldMove'
  <2>1. HeldMove
    BY DEF MouseInv
  <2>2. held_mouse_move_.id # 0 => held_mouse_move_.id > dispatched' \/ HeldFrame(stack', held_mouse_move_)
    <3>1. CASE top.event.id = 0
      BY <1>1, <1>8, <2>1, <3>1 DEF HeldMove
    <3>2. CASE top.event.id # 0 /\ top.held
      <4>1. top.event = held_mouse_move_
        BY <1>1, <3>2, TopAims
      <4>2. HeldFrame(stack, held_mouse_move_)
        BY <1>4, <3>2, <4>1 DEF HeldFrame
      <4> QED
        BY <1>8, <4>2
    <3>3. CASE top.event.id # 0 /\ ~top.held
      BY <1>1, <3>3, TopAims
    <3> QED
      BY <3>1, <3>2, <3>3
  <2> QED
    BY <1>1, <1>8, <2>1, <2>2 DEF HeldMove
<1>11. Handlers'
  BY <1>1, <1>2, <1>7, <1>8, HandlersHere DEF Handlers
<1> QED
  BY <1>1, <1>8, <1>9, <1>10, <1>11 DEF MouseInv

-----------------------------------------------------------------------------
(* Frames that end *)

\* What the end of a frame keeps; with the frame of the held event goes the event,
\* and OnWindowHidden must not leave its window a handler.
LEMMA PopKeeps ==
  ASSUME MouseInv, stack # <<>>, stack' = Front(stack),
         visible' = visible, stale' = stale, arrived' = arrived, dispatched' = dispatched, capture_window_' = capture_window_,
         buttons' = buttons, mouse_move_hold_count_' = mouse_move_hold_count_, held_tasks' = held_tasks,
         held_mouse_move_' = (IF top.held THEN NoEvent ELSE held_mouse_move_),
         synthesize_tasks' \in Nat, synthesize_mouse_move_' \in BOOLEAN,
         synthesize_mouse_move_' => synthesize_tasks' > 0,
         mouse_pressed_handler_' \in Windows \cup {NULL}, mouse_moved_handler_' \in Windows \cup {NULL},
         Here(stack, visible, mouse_pressed_handler_', Len(stack)),
         Here(stack, Known, mouse_moved_handler_', Len(stack)),
         top.kind = "hidden" => \A h \in {mouse_pressed_handler_', mouse_moved_handler_'} : h = NULL \/ h # top.window
  PROVE  MouseInv'
<1>1. Counts /\ HeldMove /\ Handlers
  BY DEF MouseInv
<1>2. /\ stack' \in Seq(FrameType) /\ Aims(stack', Known')
      /\ \A h2 : h2.id = 0 \/ (h2 = held_mouse_move_ /\ ~top.held)
           => Order(stack', h2, dispatched', arrived')
      /\ \A e : HeldFrame(stack, e) /\ ~top.held => HeldFrame(stack', e)
      /\ \A v, w : Here(stack, v, w, Len(stack)) /\ (top.kind # "hidden" \/ top.window # w)
                     => Here(stack', v, w, Len(stack'))
  <2>1. Known' = Known
    BY KnownKept
  <2> QED
    BY <2>1, StackPop DEF top
<1>3. Counts'
  BY <1>1 DEF Counts
<1>4. NoEvent \in [type : {"NONE", "MOVED", "DRAGGED"}, id : Nat] /\ NoEvent.id = 0
  BY DEF NoEvent
<1>5. HeldMove'
  <2>1. CASE top.held
    BY <1>1, <1>4, <2>1 DEF HeldMove, Counts
  <2>2. CASE ~top.held
    BY <1>1, <1>2, <2>2 DEF HeldMove
  <2> QED
    BY <2>1, <2>2
<1>6. Order(stack', held_mouse_move_', dispatched', arrived')
  <2>1. held_mouse_move_'.id = 0 \/ (held_mouse_move_' = held_mouse_move_ /\ ~top.held)
    BY <1>4
  <2> QED
    BY <1>2, <2>1
<1>7. Handlers'
  <2>1. Known' = Known /\ Here(stack', visible, NULL, Len(stack')) /\ Here(stack', Known, NULL, Len(stack'))
    BY KnownKept DEF Here
  <2> QED
    BY <1>1, <1>2, <2>1 DEF Handlers
<1> QED
  BY <1>2, <1>3, <1>5, <1>6, <1>7 DEF MouseInv

\* The facts of Counts that the end of a frame keeps.
LEMMA SynthesizeCounts ==
  ASSUME MouseInv
  PROVE  /\ synthesize_tasks \in Nat /\ synthesize_mouse_move_ \in BOOLEAN
         /\ synthesize_mouse_move_ => synthesize_tasks > 0
BY DEF MouseInv, Counts

\* An event is done, and the held event with it.
LEMMA EndDispatchStep ==
  ASSUME MouseInv, EndDispatch
  PROVE  MouseInv'
<1>1. /\ stack # <<>> /\ top.kind = "dispatch" /\ stack' = Front(stack)
      /\ held_mouse_move_' = (IF top.held THEN NoEvent ELSE held_mouse_move_)
      /\ visible' = visible /\ stale' = stale /\ capture_window_' = capture_window_
      /\ mouse_pressed_handler_' = mouse_pressed_handler_
      /\ mouse_moved_handler_' = mouse_moved_handler_
      /\ buttons' = buttons /\ mouse_move_hold_count_' = mouse_move_hold_count_
      /\ held_tasks' = held_tasks
      /\ synthesize_mouse_move_' = synthesize_mouse_move_ /\ synthesize_tasks' = synthesize_tasks
      /\ arrived' = arrived /\ dispatched' = dispatched
  BY DEF EndDispatch, At, handlers
<1> QED
  BY <1>1, PopKeeps, HandlersHere, SynthesizeCounts

\* No window is a handler.
LEMMA NobodyHere ==
  \A v : NULL \in Windows \cup {NULL} /\ Here(stack, v, NULL, Len(stack))
BY DEF Here

\* The window that gets the capture, and becomes a handler, was visible.
LEMMA CaptureGainedStep ==
  ASSUME MouseInv, CaptureGained
  PROVE  MouseInv'
<1>1. /\ stack # <<>> /\ top.kind = "capture" /\ top.pc = "lost"
      /\ stack' = Front(stack)
      /\ mouse_moved_handler_' \in {top.target, mouse_moved_handler_}
      /\ mouse_pressed_handler_' = NULL
      /\ visible' = visible /\ stale' = stale /\ capture_window_' = capture_window_ /\ buttons' = buttons
      /\ mouse_move_hold_count_' = mouse_move_hold_count_ /\ held_tasks' = held_tasks
      /\ held_mouse_move_' = held_mouse_move_
      /\ synthesize_mouse_move_' = synthesize_mouse_move_ /\ synthesize_tasks' = synthesize_tasks
      /\ arrived' = arrived /\ dispatched' = dispatched
  BY DEF CaptureGained, At, moves
<1>2. top.target \in Known \cup {NULL} /\ ~top.held
  BY <1>1, TopAims
<1>3. top.target \in Windows \cup {NULL} /\ Here(stack, Known, top.target, Len(stack))
  BY <1>2, HandlersHere DEF Here, Known
<1>4. /\ mouse_moved_handler_' \in Windows \cup {NULL}
      /\ Here(stack, Known, mouse_moved_handler_', Len(stack))
  BY <1>1, <1>3, HandlersHere
<1> QED
  BY <1>1, <1>2, <1>4, PopKeeps, NobodyHere, SynthesizeCounts

\* UpdateCapture ends without a pressed handler.
LEMMA CaptureEndsStep ==
  ASSUME MouseInv, CaptureEnds
  PROVE  MouseInv'
<1>1. /\ stack # <<>> /\ top.kind = "capture" /\ stack' = Front(stack)
      /\ mouse_moved_handler_' = mouse_moved_handler_ /\ mouse_pressed_handler_' = NULL
      /\ visible' = visible /\ stale' = stale /\ capture_window_' = capture_window_ /\ buttons' = buttons
      /\ mouse_move_hold_count_' = mouse_move_hold_count_ /\ held_tasks' = held_tasks
      /\ held_mouse_move_' = held_mouse_move_
      /\ synthesize_mouse_move_' = synthesize_mouse_move_ /\ synthesize_tasks' = synthesize_tasks
      /\ arrived' = arrived /\ dispatched' = dispatched
  BY DEF CaptureEnds, At, moves
<1>2. ~top.held
  BY <1>1, TopAims
<1> QED
  BY <1>1, <1>2, PopKeeps, NobodyHere, HandlersHere, SynthesizeCounts

\* The hidden window is forgotten as its frame goes.
LEMMA HiddenStep ==
  ASSUME MouseInv, Hidden
  PROVE  MouseInv'
<1>1. /\ stack # <<>> /\ top.kind = "hidden" /\ stack' = Front(stack) /\ PostMouseMove
      /\ mouse_pressed_handler_' = (IF mouse_pressed_handler_ = top.window THEN NULL ELSE mouse_pressed_handler_)
      /\ mouse_moved_handler_' = (IF mouse_moved_handler_ = top.window THEN NULL ELSE mouse_moved_handler_)
      /\ visible' = visible /\ stale' = stale /\ capture_window_' = capture_window_ /\ buttons' = buttons
      /\ mouse_move_hold_count_' = mouse_move_hold_count_ /\ held_tasks' = held_tasks
      /\ held_mouse_move_' = held_mouse_move_ /\ arrived' = arrived /\ dispatched' = dispatched
  BY DEF Hidden, At, Forgets
<1>2. ~top.held /\ Counts
  BY <1>1, TopAims DEF MouseInv
<1>3. /\ synthesize_tasks' \in Nat /\ synthesize_mouse_move_' \in BOOLEAN
      /\ synthesize_mouse_move_' => synthesize_tasks' > 0
  BY <1>1, <1>2, PostedCounts
<1>5. /\ mouse_pressed_handler_' \in Windows \cup {NULL}
      /\ mouse_moved_handler_' \in Windows \cup {NULL}
      /\ Here(stack, visible, mouse_pressed_handler_', Len(stack))
      /\ Here(stack, Known, mouse_moved_handler_', Len(stack))
  BY <1>1, NobodyHere, HandlersHere
<1>6. \A h \in {mouse_pressed_handler_', mouse_moved_handler_'} : h = NULL \/ h # top.window
  BY <1>1
<1> QED
  BY <1>1, <1>2, <1>3, <1>5, <1>6, PopKeeps

\* The host has its size: the frame below goes on.
LEMMA ResizedStep ==
  ASSUME MouseInv, Resized
  PROVE  MouseInv'
<1>1. /\ stack # <<>> /\ top.kind \in {"SetHostBounds", "OnHostResized"}
      /\ stack' = Front(stack)
      /\ \/ synthesize_mouse_move_' = FALSE /\ synthesize_tasks' = synthesize_tasks
         \/ PostMouseMove
      /\ mouse_pressed_handler_' = mouse_pressed_handler_
      /\ mouse_moved_handler_' = mouse_moved_handler_
      /\ visible' = visible /\ stale' = stale /\ capture_window_' = capture_window_ /\ buttons' = buttons
      /\ mouse_move_hold_count_' = mouse_move_hold_count_ /\ held_tasks' = held_tasks
      /\ held_mouse_move_' = held_mouse_move_ /\ arrived' = arrived /\ dispatched' = dispatched
  BY DEF Resized, At, handlers
<1>2. ~top.held /\ Counts
  BY <1>1, TopAims DEF MouseInv
<1>3. /\ synthesize_tasks' \in Nat /\ synthesize_mouse_move_' \in BOOLEAN
      /\ synthesize_mouse_move_' => synthesize_tasks' > 0
  BY <1>1, <1>2, PostedCounts, SynthesizeCounts
<1> QED
  BY <1>1, <1>2, <1>3, PopKeeps, HandlersHere

-----------------------------------------------------------------------------
(* Clients change the capture and hide windows *)

\* While clients run nothing is about to be made a handler.
LEMMA ClientTop ==
  ASSUME MouseInv, InClient
  PROVE  stack # <<>> => Last(stack).pc \notin Busy
BY DEF InClient, ClientPcs, Busy, TopOnly, top

\* The frame of UpdateCapture.
LEMMA CaptureFrameType ==
  ASSUME NEW old \in Windows \cup {NULL}, NEW new \in Windows \cup {NULL}
  PROVE  /\ CaptureFrame(old, new) \in FrameType /\ CaptureFrame(old, new).kind = "capture"
         /\ ~CaptureFrame(old, new).held /\ CaptureFrame(old, new).event.id = 0
         /\ CaptureFrame(old, new).target = new
BY DEF CaptureFrame, FrameType, Kind, Pc, Type, NoEvent

\* The capture goes to a window that is visible, or to none.
LEMMA CaptureStep ==
  ASSUME MouseInv, InClient, NEW w \in visible \cup {NULL}, capture_window_' = w,
         stack' = Append(stack, CaptureFrame(capture_window_, w)),
         visible' = visible, stale' = stale, UNCHANGED <<handlers, moves>>, arrived' = arrived,
         dispatched' = dispatched
  PROVE  MouseInv'
<1> DEFINE f == CaptureFrame(capture_window_, w)
<1>1. /\ stack \in Seq(FrameType) /\ Counts /\ HeldMove /\ Handlers /\ Aims(stack, Known)
      /\ Order(stack, held_mouse_move_, dispatched, arrived) /\ arrived \in Nat
  BY DEF MouseInv, Counts
<1>2. /\ mouse_move_hold_count_' = mouse_move_hold_count_ /\ held_mouse_move_' = held_mouse_move_
      /\ held_tasks' = held_tasks /\ synthesize_mouse_move_' = synthesize_mouse_move_
      /\ synthesize_tasks' = synthesize_tasks /\ buttons' = buttons
      /\ mouse_pressed_handler_' = mouse_pressed_handler_
      /\ mouse_moved_handler_' = mouse_moved_handler_
  BY DEF handlers, moves
<1>3. f \in FrameType /\ f.kind = "capture" /\ ~f.held /\ f.event.id = 0 /\ f.target = w
  <2>1. w \in Windows \cup {NULL} /\ capture_window_ \in Windows \cup {NULL}
    BY <1>1 DEF Handlers
  <2> QED
    BY <2>1, CaptureFrameType
<1> HIDE DEF f
<1>4. /\ stack' \in Seq(FrameType) /\ Aims(stack', Known')
      /\ Order(stack', held_mouse_move_, dispatched', arrived')
      /\ \A e : HeldFrame(stack, e) => HeldFrame(stack', e)
      /\ \A v, x : Here(stack, v, x, Len(stack)) => Here(stack', v, x, Len(stack'))
      /\ Known' = Known
  <2>1. stack' = Append(stack, f) /\ Known' = Known
    BY KnownKept DEF f
  <2>2. w \in Known \cup {NULL}
    BY HandlersHere
  <2> QED
    BY <1>1, <1>3, <2>1, <2>2, StackPush, ClientTop
<1>5. Counts' /\ HeldMove' /\ Handlers'
  BY <1>1, <1>2, <1>4 DEF Counts, HeldMove, Handlers
<1> QED
  BY <1>2, <1>4, <1>5 DEF MouseInv

\* The frame of OnWindowHidden.
LEMMA HiddenFrameType ==
  ASSUME NEW w \in Windows
  PROVE  /\ HiddenFrame(w) \in FrameType /\ HiddenFrame(w).kind = "hidden"
         /\ HiddenFrame(w).window = w
         /\ ~HiddenFrame(w).held /\ HiddenFrame(w).event.id = 0
         /\ HiddenFrame(w).pc = "end"
BY DEF HiddenFrame, FrameType, Kind, Pc, Type, NoEvent

\* A window is hidden: it goes from the handlers when its frame goes, and a frame that
\* is about to make it a handler makes it stale.
LEMMA HideStep ==
  ASSUME MouseInv, NEW w \in Windows, Hide(w)
  PROVE  MouseInv'
<1>1. /\ InClient /\ visible' = visible \ {w}
      /\ stale' = IF Expected(w) THEN stale \cup {w} ELSE stale
      /\ mouse_move_hold_count_' = mouse_move_hold_count_ /\ held_mouse_move_' = held_mouse_move_
      /\ held_tasks' = held_tasks /\ synthesize_mouse_move_' = synthesize_mouse_move_
      /\ synthesize_tasks' = synthesize_tasks /\ buttons' = buttons
      /\ mouse_pressed_handler_' = mouse_pressed_handler_
      /\ mouse_moved_handler_' = mouse_moved_handler_
      /\ arrived' = arrived /\ dispatched' = dispatched
  BY DEF Hide, Call, handlers, moves
<1>2. /\ stack \in Seq(FrameType) /\ Counts /\ HeldMove /\ Handlers /\ Aims(stack, Known)
      /\ Order(stack, held_mouse_move_, dispatched, arrived) /\ arrived \in Nat
  BY DEF MouseInv, Counts
<1> DEFINE v == visible \ {w}
           k == Known'
           f == HiddenFrame(w)
           s == Append(stack, f)
<1>3. /\ f \in FrameType /\ f.kind = "hidden" /\ f.window = w /\ ~f.held /\ f.event.id = 0
      /\ f.pc = "end"
  BY HiddenFrameType
<1>4. k = v \cup stale' /\ Known \ {w} \subseteq k /\ v \cup {NULL} \subseteq k \cup {NULL}
  BY <1>1 DEF Known
<1>5. stack # <<>> => stack[Len(stack)].pc \notin TopOnly /\ stack[Len(stack)].pc # "begin"
  BY <1>1, ClientTop DEF Last, Busy
<1> HIDE DEF f
<1>6. /\ Len(stack) \in Nat /\ s \in Seq(FrameType) /\ Len(s) = Len(stack) + 1 /\ s # <<>>
      /\ s[Len(s)] = f /\ \A i \in 1 .. Len(stack) : s[i] = stack[i]
  BY <1>2, <1>3, PushedFrame
<1>7. Aims(s, k)
  <2>1. \A i \in 1 .. Len(stack) :
          stack[i].pc \in {"exiting", "losing"} /\ stack[i].target \in Known => stack[i].target \in k
    <3> SUFFICES ASSUME NEW i \in 1 .. Len(stack), stack[i].pc \in {"exiting", "losing"},
                        stack[i].target \in Known
                 PROVE  stack[i].target \in k
      OBVIOUS
    <3>1. i \in DOMAIN stack
      BY <1>2
    <3>2. stack[i].target = w => w \in stale'
      BY <1>1, <3>1 DEF Expected
    <3> HIDE DEF k
    <3> QED
      BY <1>4, <3>2
  <2> HIDE DEF k
  <2>2. Aims(stack, k)
    BY <1>2, <1>4, <1>5, <2>1, AimsHide
  <2> QED
    BY <1>2, <1>3, <1>5, <2>2, AimsPush
<1>8. Order(s, held_mouse_move_, dispatched, arrived)
  BY <1>2, <1>3, <1>5, OrderPush
<1>9. \A e : HeldFrame(stack, e) => HeldFrame(s, e)
  BY <1>6 DEF HeldFrame
<1>10. ASSUME NEW u, NEW u2, u \ {w} \subseteq u2, NEW x, Here(stack, u, x, Len(stack))
       PROVE  Here(s, u2, x, Len(s))
  <2>1. CASE x = w
    BY <1>3, <1>6, <2>1 DEF Here, Going
  <2>2. CASE x # w /\ x \in u \cup {NULL}
    BY <1>10, <2>2 DEF Here
  <2>3. CASE Going(stack, x, Len(stack))
    BY <1>6, <2>3 DEF Here, Going
  <2> QED
    BY <1>10, <2>1, <2>2, <2>3 DEF Here
<1> HIDE DEF s, k
<1>11. s[Len(s)].pc \notin TopOnly /\ s[Len(s)].pc # "begin"
  BY <1>3, <1>6 DEF TopOnly
<1>12. /\ stack' \in Seq(FrameType) /\ Aims(stack', k)
       /\ Order(stack', held_mouse_move_, dispatched, arrived)
       /\ \A e : HeldFrame(s, e) => HeldFrame(stack', e)
       /\ \A u, x : Here(s, u, x, Len(s)) => Here(stack', u, x, Len(stack'))
       /\ capture_window_' \in v \cup {NULL}
  <2>1. CASE capture_window_ = w
    <3> DEFINE g == CaptureFrame(w, NULL)
    <3>1. g \in FrameType /\ g.kind = "capture" /\ ~g.held /\ g.event.id = 0 /\ g.target = NULL
      BY CaptureFrameType
    <3> HIDE DEF g
    <3>2. stack' = stack \o <<f, g>> /\ capture_window_' = NULL
      BY <2>1 DEF Hide, f, g
    <3>3. stack' = Append(s, g)
      BY <1>2, <1>3, <3>1, <3>2 DEF s
    <3>4. /\ stack' \in Seq(FrameType) /\ Len(stack') = Len(s) + 1
          /\ stack'[Len(stack')] = g /\ \A i \in 1 .. Len(s) : stack'[i] = s[i]
      BY <1>6, <3>1, <3>3, PushedFrame
    <3>5. Aims(stack', k)
      BY <1>6, <1>7, <1>11, <3>1, <3>3, AimsPush
    <3>6. Order(stack', held_mouse_move_, dispatched, arrived)
      BY <1>2, <1>6, <1>8, <1>11, <3>1, <3>3, OrderPush
    <3>7. \A e : HeldFrame(s, e) => HeldFrame(stack', e)
      BY <1>6, <3>4 DEF HeldFrame
    <3>8. ASSUME NEW u, NEW x, Here(s, u, x, Len(s)) PROVE Here(stack', u, x, Len(stack'))
      BY <1>6, <3>4, <3>8 DEF Here, Going
    <3> QED
      BY <3>2, <3>4, <3>5, <3>6, <3>7, <3>8
  <2>2. CASE capture_window_ # w
    <3>1. stack' = s /\ capture_window_' = capture_window_
      BY <2>2 DEF Hide, f, s
    <3>2. capture_window_ \in v \cup {NULL}
      BY <2>2, HandlersHere
    <3> QED
      BY <1>6, <1>7, <1>8, <3>1, <3>2
  <2> QED
    BY <2>1, <2>2
<1>13. Counts' /\ HeldMove'
  BY <1>1, <1>2, <1>9, <1>12 DEF Counts, HeldMove
<1>14. Handlers'
  <2>1. /\ Here(stack, visible, mouse_pressed_handler_, Len(stack))
        /\ Here(stack, Known, mouse_moved_handler_, Len(stack))
    BY HandlersHere
  <2>2. Here(s, visible', mouse_pressed_handler_', Len(s))
    BY <1>1, <1>10, <2>1
  <2>3. Here(s, Known', mouse_moved_handler_', Len(s))
    BY <1>1, <1>4, <1>10, <2>1 DEF k
  <2>4. /\ Here(stack', visible', mouse_pressed_handler_', Len(stack'))
        /\ Here(stack', Known', mouse_moved_handler_', Len(stack'))
    BY <1>12, <2>2, <2>3
  <2> QED
    BY <1>1, <1>2, <1>12, <2>4 DEF Handlers
<1> QED
  BY <1>1, <1>12, <1>13, <1>14 DEF MouseInv, k

-----------------------------------------------------------------------------
(* Synthesized moves *)

\* The frame of an event.
LEMMA DispatchFrameType ==
  ASSUME NEW e \in [type : Type, id : Nat], NEW b \in BOOLEAN
  PROVE  /\ DispatchFrame(e, b) \in FrameType /\ DispatchFrame(e, b).kind = "dispatch"
         /\ DispatchFrame(e, b).held = b /\ DispatchFrame(e, b).event = e
         /\ DispatchFrame(e, b).pc = "begin"
BY DEF DispatchFrame, FrameType, Kind, Pc

\* The events that no device made.
LEMMA EventTypes ==
  /\ Synthesized \in [type : Type, id : Nat] /\ Synthesized.id = 0
  /\ Synthesized \in [type : {"NONE", "MOVED", "DRAGGED"}, id : Nat]
  /\ NoEvent \in [type : Type, id : Nat] /\ NoEvent.id = 0
  /\ NoEvent \in [type : {"NONE", "MOVED", "DRAGGED"}, id : Nat]
BY DEF Synthesized, NoEvent, Type

\* SynthesizeMouseMoveEvent above the frames of s: the synthesized move is held while
\* moves are held, and otherwise replaces the held one.
LEMMA SynthesizeKeeps ==
  ASSUME MouseInv, NEW s \in Seq(FrameType), Aims(s, Known),
         Order(s, held_mouse_move_, dispatched, arrived), s # <<>> => Last(s).pc \notin Busy,
         \A e : HeldFrame(stack, e) => HeldFrame(s, e),
         \A v, w : Here(stack, v, w, Len(stack)) => Here(s, v, w, Len(s)),
         Synthesize(s), synthesize_tasks' \in Nat,
         visible' = visible, stale' = stale, capture_window_' = capture_window_, UNCHANGED handlers,
         mouse_move_hold_count_' = mouse_move_hold_count_, held_tasks' = held_tasks,
         arrived' = arrived, dispatched' = dispatched
  PROVE  MouseInv'
<1>1. /\ Counts /\ HeldMove /\ Handlers /\ arrived \in Nat
  BY DEF MouseInv, Counts
<1>2. /\ buttons' = buttons /\ mouse_pressed_handler_' = mouse_pressed_handler_
      /\ mouse_moved_handler_' = mouse_moved_handler_
      /\ Known' = Known
  BY KnownKept DEF handlers
<1>3. synthesize_mouse_move_' = FALSE
  BY <1>1 DEF Synthesize, Counts
<1>4. Counts'
  BY <1>1, <1>2, <1>3 DEF Counts
<1>5. CASE stack' = s /\ (held_mouse_move_' = held_mouse_move_
                           \/ (held_mouse_move_' = Synthesized /\ mouse_move_hold_count_ > 0))
  <2>1. held_mouse_move_'.id = 0 \/ held_mouse_move_' = held_mouse_move_
    BY <1>5, EventTypes
  <2>2. Order(stack', held_mouse_move_', dispatched', arrived')
    <3>1. Order(s, held_mouse_move_', dispatched, arrived)
      <4>1. s # <<>> => s[Len(s)].pc # "begin"
        BY DEF Last, Busy
      <4> QED
        BY <2>1, <4>1, OrderHeld
    <3> QED
      BY <1>5, <3>1
  <2>3. HeldMove'
    <3>1. CASE held_mouse_move_' = held_mouse_move_
      BY <1>1, <1>5, <3>1 DEF HeldMove
    <3>2. CASE held_mouse_move_' = Synthesized /\ mouse_move_hold_count_ > 0
      BY <1>1, <1>5, <3>2, EventTypes DEF HeldMove
    <3> QED
      BY <1>5, <3>1, <3>2
  <2>4. Handlers' /\ Aims(stack', Known')
    BY <1>1, <1>2, <1>5 DEF Handlers
  <2> QED
    BY <1>4, <1>5, <2>2, <2>3, <2>4 DEF MouseInv
<1>6. CASE held_mouse_move_' = NoEvent /\ stack' = s \o <<DispatchFrame(Synthesized, FALSE)>>
  <2> DEFINE f == DispatchFrame(Synthesized, FALSE)
  <2>1. f \in FrameType /\ f.kind = "dispatch" /\ ~f.held /\ f.event.id = 0 /\ f.pc = "begin"
    BY DispatchFrameType, EventTypes
  <2> HIDE DEF f
  <2>2. stack' = Append(s, f)
    <3>1. stack' = s \o <<f>>
      BY <1>6 DEF f
    <3> QED
      BY <2>1, <3>1
  <2>3. /\ stack' \in Seq(FrameType) /\ Aims(stack', Known')
        /\ \A v, w : Here(s, v, w, Len(s)) => Here(stack', v, w, Len(stack'))
    BY <1>1, <1>2, <2>1, <2>2, StackPush
  <2>4. Order(stack', held_mouse_move_', dispatched', arrived')
    <3>1. s # <<>> => s[Len(s)].pc # "begin"
      BY DEF Last, Busy
    <3>2. held_mouse_move_'.id = 0
      BY <1>6, EventTypes
    <3>3. Order(s, held_mouse_move_', dispatched, arrived)
      BY <3>1, <3>2, OrderHeld
    <3>4. Order(stack', held_mouse_move_', dispatched, arrived)
      BY <1>1, <2>1, <2>2, <3>1, <3>3, OrderPush
    <3> QED
      BY <3>4
  <2>5. HeldMove'
    BY <1>1, <1>6, EventTypes DEF HeldMove
  <2>6. Handlers'
    BY <1>1, <1>2, <2>3 DEF Handlers
  <2> QED
    BY <1>4, <2>3, <2>4, <2>5, <2>6 DEF MouseInv
<1>7. \/ stack' = s /\ (held_mouse_move_' = held_mouse_move_
                         \/ (held_mouse_move_' = Synthesized /\ mouse_move_hold_count_ > 0))
      \/ held_mouse_move_' = NoEvent /\ stack' = s \o <<DispatchFrame(Synthesized, FALSE)>>
  <2>1. CASE ~synthesize_mouse_move_
    BY <2>1 DEF Synthesize
  <2>2. CASE synthesize_mouse_move_
    <3>1. DispatchMouseEvent(Synthesized, s)
      BY <2>2 DEF Synthesize
    <3> QED
      BY <3>1, EventTypes DEF DispatchMouseEvent, Replaces
  <2> QED
    BY <2>1, <2>2
<1> QED
  BY <1>5, <1>6, <1>7

\* The posted SynthesizeMouseMoveEvent.
LEMMA SynthesizeTaskStep ==
  ASSUME MouseInv, SynthesizeTask
  PROVE  MouseInv'
<1> DEFINE s == <<>>
<1>1. /\ stack = s /\ synthesize_tasks > 0 /\ synthesize_tasks' = synthesize_tasks - 1
      /\ Synthesize(s)
      /\ visible' = visible /\ stale' = stale /\ capture_window_' = capture_window_ /\ UNCHANGED handlers
      /\ mouse_move_hold_count_' = mouse_move_hold_count_ /\ held_tasks' = held_tasks
      /\ arrived' = arrived /\ dispatched' = dispatched
  BY DEF SynthesizeTask
<1>2. stack \in Seq(FrameType) /\ Aims(stack, Known) /\ Order(stack, held_mouse_move_, dispatched, arrived)
  BY DEF MouseInv
<1>3. s # <<>> => Last(s).pc \notin Busy
  OBVIOUS
<1> HIDE DEF s
<1>4. synthesize_tasks' \in Nat
  BY <1>1, SynthesizeCounts
<1> QED
  BY <1>1, <1>2, <1>3, <1>4, SynthesizeKeeps

\* UpdateCapture goes on above the frame of the capture, which waits.
LEMMA CaptureReleasedStep ==
  ASSUME MouseInv, CaptureReleased
  PROVE  MouseInv'
<1>1. /\ stack # <<>> /\ top.kind = "capture" /\ Synthesize(Goto("end"))
      /\ visible' = visible /\ stale' = stale /\ capture_window_' = capture_window_ /\ UNCHANGED handlers
      /\ mouse_move_hold_count_' = mouse_move_hold_count_ /\ held_tasks' = held_tasks
      /\ synthesize_tasks' = synthesize_tasks
      /\ arrived' = arrived /\ dispatched' = dispatched
  BY DEF CaptureReleased, At
<1>2. stack \in Seq(FrameType) /\ Aims(stack, Known) /\ Order(stack, held_mouse_move_, dispatched, arrived)
  BY DEF MouseInv
<1>3. top \in FrameType /\ top = stack[Len(stack)]
  BY <1>1, TopType
<1> DEFINE f == [top EXCEPT !.pc = "end"]
           s == Goto("end")
<1>4. /\ f \in FrameType /\ f.pc = "end" /\ f.kind = "capture" /\ f.event = top.event
      /\ f.held = top.held
  BY <1>1, <1>3 DEF FrameType, Pc
<1>5. s = [stack EXCEPT ![Len(stack)] = f]
  BY <1>3 DEF Goto
<1> HIDE DEF f, s
<1>6. /\ Len(stack) \in Nat /\ Len(stack) > 0
      /\ s \in Seq(FrameType) /\ Len(s) = Len(stack) /\ s # <<>>
      /\ s[Len(stack)] = f /\ \A i \in 1 .. Len(stack) : i # Len(stack) => s[i] = stack[i]
  BY <1>1, <1>2, <1>4, <1>5, TopFrame
<1>7. Aims(s, Known)
  <2>1. stack[Len(stack)].kind # "hidden"
    BY <1>1, <1>3
  <2>2. f.pc \notin {"exiting", "enter", "losing", "lost"}
    BY <1>4
  <2> QED
    BY <1>1, <1>2, <1>4, <1>5, <2>1, <2>2, AimsTop
<1>8. Order(s, held_mouse_move_, dispatched, arrived)
  <2>1. f.kind = stack[Len(stack)].kind /\ f.event = stack[Len(stack)].event /\ f.held = stack[Len(stack)].held
        /\ f.pc # "begin"
    BY <1>1, <1>3, <1>4
  <2> QED
    BY <1>1, <1>2, <1>4, <1>5, <2>1, OrderTop
<1>9. Last(s).pc \notin Busy
  BY <1>4, <1>6 DEF Last, Busy, TopOnly
<1>10. \A e : HeldFrame(stack, e) => HeldFrame(s, e)
  <2>1. \A i \in 1 .. Len(stack) : s[i].held = stack[i].held /\ s[i].event = stack[i].event
    BY <1>3, <1>4, <1>6
  <2> QED
    BY <1>6, <2>1 DEF HeldFrame
<1>11. ASSUME NEW v, NEW w, Here(stack, v, w, Len(stack)) PROVE Here(s, v, w, Len(s))
  <2>1. \A i \in 1 .. Len(stack) : stack[i].kind = "hidden" => s[i].kind = "hidden" /\ s[i].window = stack[i].window
    BY <1>1, <1>3, <1>6
  <2>2. Here(s, v, w, Len(stack))
    BY <1>11, <2>1 DEF Here, Going
  <2> QED
    BY <1>6, <2>2
<1>12. Synthesize(s) /\ synthesize_tasks' \in Nat
  BY <1>1, SynthesizeCounts DEF s
<1> QED
  BY <1>1, <1>6, <1>7, <1>8, <1>9, <1>10, <1>11, <1>12, SynthesizeKeeps

-----------------------------------------------------------------------------
(* Clients take the capture and give it up *)

\* A visible window takes the capture.
LEMMA SetCaptureStep ==
  ASSUME MouseInv, NEW w \in Windows, SetCapture(w)
  PROVE  MouseInv'
<1>1. /\ InClient /\ w \in visible \cup {NULL} /\ capture_window_' = w
      /\ stack' = Append(stack, CaptureFrame(capture_window_, w))
      /\ visible' = visible /\ stale' = stale /\ UNCHANGED <<handlers, moves>> /\ arrived' = arrived
      /\ dispatched' = dispatched
  BY DEF SetCapture, Call
<1> QED
  BY <1>1, CaptureStep

\* The capture goes to no window.
LEMMA ReleaseCaptureStep ==
  ASSUME MouseInv, ReleaseCapture
  PROVE  MouseInv'
<1>1. /\ InClient /\ NULL \in visible \cup {NULL} /\ capture_window_' = NULL
      /\ stack' = Append(stack, CaptureFrame(capture_window_, NULL))
      /\ visible' = visible /\ stale' = stale /\ UNCHANGED <<handlers, moves>> /\ arrived' = arrived
      /\ dispatched' = dispatched
  BY DEF ReleaseCapture, Call
<1> QED
  BY <1>1, CaptureStep

-----------------------------------------------------------------------------
(* What begins on an empty stack *)

\* Nothing is on an empty stack: no window that is hidden, no frame of the held event.
LEMMA NothingHidden ==
  ASSUME stack = <<>>
  PROVE  /\ \A v, w : Here(stack, v, w, Len(stack)) => w \in v \cup {NULL}
         /\ \A e : ~HeldFrame(stack, e)
<1> DEFINE n == Len(stack)
<1>1. n = 0
  OBVIOUS
<1> HIDE DEF n
<1>2. \A i : i \notin 1 .. n
  BY <1>1
<1> QED
  BY <1>2 DEF Here, Going, HeldFrame, n

\* Events start from an empty stack: the held event is dropped, is dispatched by a frame,
\* or is a new one that a hold will release.
LEMMA StartKeeps ==
  ASSUME MouseInv, stack = <<>>, stack' \in Seq(FrameType), Aims(stack', Known),
         arrived' \in Nat, arrived <= arrived',
         Order(stack', held_mouse_move_', dispatched, arrived'),
         \/ held_mouse_move_' = NoEvent
         \/ held_mouse_move_' = held_mouse_move_ /\ HeldFrame(stack', held_mouse_move_)
         \/ /\ mouse_move_hold_count_ > 0
            /\ held_mouse_move_' \in [type : {"NONE", "MOVED", "DRAGGED"}, id : Nat]
            /\ held_mouse_move_'.id <= arrived'
            /\ held_mouse_move_'.id # 0 => held_mouse_move_'.id > dispatched,
         held_tasks' \in 0 .. 1, mouse_move_hold_count_ > 0 => held_tasks' = 0,
         mouse_move_hold_count_' = mouse_move_hold_count_,
         visible' = visible, stale' = stale, capture_window_' = capture_window_, UNCHANGED handlers,
         synthesize_mouse_move_' = synthesize_mouse_move_, synthesize_tasks' = synthesize_tasks,
         dispatched' = dispatched
  PROVE  MouseInv'
<1>1. /\ Counts /\ HeldMove /\ Handlers
      /\ buttons' = buttons /\ mouse_pressed_handler_' = mouse_pressed_handler_
      /\ mouse_moved_handler_' = mouse_moved_handler_ /\ Known' = Known
  BY KnownKept DEF MouseInv, handlers
<1>2. Counts'
  BY <1>1 DEF Counts
<1>3. HeldMove'
  <2>1. CASE held_mouse_move_' = NoEvent
    BY <1>2, <2>1, EventTypes DEF HeldMove, Counts
  <2>2. CASE held_mouse_move_' = held_mouse_move_ /\ HeldFrame(stack', held_mouse_move_)
    <3>1. held_mouse_move_.id \in Nat /\ held_mouse_move_.id <= arrived /\ arrived \in Nat
      BY <1>1 DEF HeldMove, Counts
    <3>2. held_mouse_move_.id <= arrived'
      BY <3>1
    <3> QED
      BY <1>1, <2>2, <3>2 DEF HeldMove
  <2>3. CASE /\ mouse_move_hold_count_ > 0
             /\ held_mouse_move_' \in [type : {"NONE", "MOVED", "DRAGGED"}, id : Nat]
             /\ held_mouse_move_'.id <= arrived'
             /\ held_mouse_move_'.id # 0 => held_mouse_move_'.id > dispatched
    BY <2>3 DEF HeldMove
  <2> QED
    BY <2>1, <2>2, <2>3
<1>4. Handlers'
  <2>1. /\ mouse_pressed_handler_ \in visible \cup {NULL}
        /\ mouse_moved_handler_ \in Known \cup {NULL}
    BY <1>1, NothingHidden DEF Handlers
  <2> QED
    BY <1>1, <2>1 DEF Handlers, Here
<1> QED
  BY <1>1, <1>2, <1>3, <1>4 DEF MouseInv
\* The frame of the held event.
LEMMA HeldEvent ==
  ASSUME MouseInv, stack = <<>>
  PROVE  /\ held_mouse_move_.id \in Nat /\ held_mouse_move_.id <= arrived
         /\ held_mouse_move_.id # 0 => held_mouse_move_.id > dispatched
         /\ DispatchFrame(held_mouse_move_, TRUE) \in FrameType
         /\ DispatchFrame(held_mouse_move_, TRUE).kind = "dispatch"
         /\ DispatchFrame(held_mouse_move_, TRUE).pc = "begin"
         /\ DispatchFrame(held_mouse_move_, TRUE).held
         /\ DispatchFrame(held_mouse_move_, TRUE).event = held_mouse_move_
<1>1. HeldMove
  BY DEF MouseInv
<1>2. held_mouse_move_ \in [type : Type, id : Nat]
  BY <1>1 DEF HeldMove, Type
<1> QED
  BY <1>1, <1>2, NothingHidden, DispatchFrameType DEF HeldMove

\* The held event alone begins, if there is one to dispatch.
LEMMA HeldStarts ==
  ASSUME MouseInv, stack = <<>>, DropHeld, stack' = WithHeld(<<>>)
  PROVE  /\ stack' \in Seq(FrameType) /\ Aims(stack', Known)
         /\ Order(stack', held_mouse_move_', dispatched, arrived)
         /\ held_mouse_move_' = NoEvent \/ (held_mouse_move_' = held_mouse_move_ /\ HeldFrame(stack', held_mouse_move_))
<1> DEFINE g == DispatchFrame(held_mouse_move_, TRUE)
<1>1. /\ held_mouse_move_.id \in Nat /\ held_mouse_move_.id <= arrived
      /\ held_mouse_move_.id # 0 => held_mouse_move_.id > dispatched
      /\ g \in FrameType /\ g.kind = "dispatch" /\ g.pc = "begin" /\ g.held
      /\ g.event = held_mouse_move_
  BY HeldEvent
<1>2. CASE held_mouse_move_ # NoEvent /\ ~synthesize_mouse_move_
  <2>1. held_mouse_move_' = held_mouse_move_
    BY <1>2 DEF DropHeld
  <2>2. stack' = <<g>>
    <3>1. stack' = <<>> \o <<g>>
      BY <1>2 DEF WithHeld
    <3> HIDE DEF g
    <3> QED
      BY <1>1, <3>1
  <2> HIDE DEF g
  <2>3. /\ stack' \in Seq(FrameType) /\ Aims(stack', Known)
        /\ Order(stack', held_mouse_move_, dispatched, arrived) /\ HeldFrame(stack', held_mouse_move_)
    BY <1>1, <2>2, OneFrame
  <2> QED
    BY <2>1, <2>3
<1>3. CASE ~(held_mouse_move_ # NoEvent /\ ~synthesize_mouse_move_)
  <2>1. held_mouse_move_' = NoEvent /\ stack' = stack
    BY <1>3 DEF DropHeld, WithHeld
  <2>2. /\ stack \in Seq(FrameType) /\ Aims(stack, Known)
        /\ Order(stack, held_mouse_move_, dispatched, arrived)
    BY DEF MouseInv
  <2>3. Order(stack, held_mouse_move_', dispatched, arrived)
    BY <2>1, <2>2, EventTypes, OrderHeld
  <2> QED
    BY <2>1, <2>2, <2>3
<1> QED
  BY <1>2, <1>3

\* A frame f begins, after the held event, if there is one to dispatch.
LEMMA FrameStarts ==
  ASSUME MouseInv, stack = <<>>, DropHeld, NEW f \in FrameType, stack' = WithHeld(<<f>>),
         f.pc \in {"begin", "end"}, f.kind # "capture", ~f.held, f.kind # "dispatch" => ~Own(f),
         arrived' \in Nat, arrived <= arrived', f.event.id <= arrived',
         f.event.id # 0 => f.event.id > arrived
  PROVE  /\ stack' \in Seq(FrameType) /\ Aims(stack', Known)
         /\ Order(stack', held_mouse_move_', dispatched, arrived')
         /\ held_mouse_move_' = NoEvent \/ (held_mouse_move_' = held_mouse_move_ /\ HeldFrame(stack', held_mouse_move_))
<1> DEFINE g == DispatchFrame(held_mouse_move_, TRUE)
<1>1. /\ held_mouse_move_.id \in Nat /\ held_mouse_move_.id <= arrived
      /\ held_mouse_move_.id # 0 => held_mouse_move_.id > dispatched
      /\ g \in FrameType /\ g.kind = "dispatch" /\ g.pc = "begin" /\ g.held
      /\ g.event = held_mouse_move_
  BY HeldEvent
<1> DEFINE e == f.event.id
           m == held_mouse_move_.id
<1>2. /\ e \in Nat /\ arrived \in Nat /\ dispatched \in Nat /\ dispatched <= arrived
      /\ m \in Nat /\ m <= arrived
      /\ e # 0 => e > arrived
  BY <1>1 DEF FrameType, MouseInv, Counts
<1>3. m <= arrived' /\ (e # 0 => e > dispatched /\ m < e)
  <2> HIDE DEF e, m
  <2> QED
    BY <1>2
<1>4. CASE held_mouse_move_ # NoEvent /\ ~synthesize_mouse_move_
  <2>1. held_mouse_move_' = held_mouse_move_
    BY <1>4 DEF DropHeld
  <2>2. stack' = <<f, g>>
    <3>1. stack' = <<f>> \o <<g>>
      BY <1>4 DEF WithHeld
    <3> HIDE DEF g
    <3> QED
      BY <1>1, <3>1
  <2> HIDE DEF g
  <2>3. /\ stack' \in Seq(FrameType) /\ Aims(stack', Known)
        /\ Order(stack', held_mouse_move_, dispatched, arrived') /\ HeldFrame(stack', held_mouse_move_)
    BY <1>1, <1>3, <2>2, TwoFrames
  <2> QED
    BY <2>1, <2>3
<1>5. CASE ~(held_mouse_move_ # NoEvent /\ ~synthesize_mouse_move_)
  <2>1. held_mouse_move_' = NoEvent /\ stack' = <<f>> /\ NoEvent.id = 0
    BY <1>5, EventTypes DEF DropHeld, WithHeld
  <2>2. /\ stack' \in Seq(FrameType) /\ Aims(stack', Known)
        /\ Order(stack', NoEvent, dispatched, arrived')
    BY <1>3, <2>1, OneFrame
  <2> QED
    BY <2>1, <2>2
<1> QED
  BY <1>4, <1>5

\* A key event dispatches the held event first.
LEMMA KeyEventStep ==
  ASSUME MouseInv, KeyEvent
  PROVE  MouseInv'
<1>1. /\ stack = <<>> /\ DropHeld /\ stack' = WithHeld(<<>>)
      /\ mouse_move_hold_count_' = mouse_move_hold_count_ /\ held_tasks' = held_tasks
      /\ visible' = visible /\ stale' = stale /\ capture_window_' = capture_window_ /\ UNCHANGED handlers
      /\ synthesize_mouse_move_' = synthesize_mouse_move_ /\ synthesize_tasks' = synthesize_tasks
      /\ arrived' = arrived /\ dispatched' = dispatched
  BY DEF KeyEvent
<1>2. arrived \in Nat /\ arrived <= arrived /\ held_tasks \in 0 .. 1 /\ (mouse_move_hold_count_ > 0 => held_tasks = 0)
  BY DEF MouseInv, Counts
<1>3. /\ stack' \in Seq(FrameType) /\ Aims(stack', Known)
      /\ Order(stack', held_mouse_move_', dispatched, arrived')
      /\ held_mouse_move_' = NoEvent \/ (held_mouse_move_' = held_mouse_move_ /\ HeldFrame(stack', held_mouse_move_))
  BY <1>1, HeldStarts
<1> QED
  BY <1>1, <1>2, <1>3, StartKeeps

\* The posted DispatchHeldMouseMove: the held event goes, or is dropped.
LEMMA HeldTaskStep ==
  ASSUME MouseInv, HeldTask
  PROVE  MouseInv'
<1>1. /\ stack = <<>> /\ DropHeld /\ stack' = WithHeld(<<>>)
      /\ held_tasks > 0 /\ held_tasks' = held_tasks - 1
      /\ mouse_move_hold_count_' = mouse_move_hold_count_
      /\ visible' = visible /\ stale' = stale /\ capture_window_' = capture_window_ /\ UNCHANGED handlers
      /\ synthesize_mouse_move_' = synthesize_mouse_move_ /\ synthesize_tasks' = synthesize_tasks
      /\ arrived' = arrived /\ dispatched' = dispatched
  BY DEF HeldTask
<1>2. /\ arrived \in Nat /\ arrived <= arrived /\ held_tasks' \in 0 .. 1
      /\ mouse_move_hold_count_ > 0 => held_tasks' = 0
  BY <1>1 DEF MouseInv, Counts
<1>3. /\ stack' \in Seq(FrameType) /\ Aims(stack', Known)
      /\ Order(stack', held_mouse_move_', dispatched, arrived')
      /\ held_mouse_move_' = NoEvent \/ (held_mouse_move_' = held_mouse_move_ /\ HeldFrame(stack', held_mouse_move_))
  BY <1>1, HeldStarts
<1> QED
  BY <1>1, <1>2, <1>3, StartKeeps

\* The host is resized while events are dispatched: the held event is dispatched first,
\* perhaps inside its own dispatch.
LEMMA NestedResize ==
  ASSUME MouseInv, stack # <<>>, InClient, NEW f \in FrameType, f.kind \notin {"capture", "dispatch"},
         f.pc = "end", ~f.held, f.event.id = 0, DropHeld, stack' = WithHeld(Append(stack, f)),
         mouse_move_hold_count_' = mouse_move_hold_count_, held_tasks' = held_tasks,
         visible' = visible, stale' = stale, capture_window_' = capture_window_, UNCHANGED handlers,
         synthesize_mouse_move_' = synthesize_mouse_move_, synthesize_tasks' = synthesize_tasks,
         arrived' = arrived, dispatched' = dispatched
  PROVE  MouseInv'
<1> DEFINE s == Append(stack, f)
           g == DispatchFrame(held_mouse_move_, TRUE)
           e == held_mouse_move_
<1>1. /\ stack \in Seq(FrameType) /\ Counts /\ HeldMove /\ Handlers /\ Aims(stack, Known)
      /\ Order(stack, held_mouse_move_, dispatched, arrived) /\ arrived \in Nat
      /\ buttons' = buttons /\ mouse_pressed_handler_' = mouse_pressed_handler_
      /\ mouse_moved_handler_' = mouse_moved_handler_ /\ Known' = Known
  BY KnownKept DEF MouseInv, Counts, handlers
<1>2. stack[Len(stack)].pc \notin TopOnly /\ stack[Len(stack)].pc # "begin"
  BY ClientTop DEF Last, Busy
<1>3. /\ Len(stack) \in Nat /\ s \in Seq(FrameType) /\ Len(s) = Len(stack) + 1 /\ s # <<>>
      /\ s[Len(s)] = f /\ \A i \in 1 .. Len(stack) : s[i] = stack[i]
  BY <1>1, PushedFrame
<1>4. Aims(s, Known) /\ Order(s, e, dispatched, arrived)
  BY <1>1, <1>2, AimsPush, OrderPush
<1>5. HeldFrame(stack, e) => HeldFrame(s, e)
  BY <1>3 DEF HeldFrame
<1>6. \A v, w : Here(stack, v, w, Len(stack)) => Here(s, v, w, Len(s))
  BY <1>3 DEF Here, Going
<1>7. /\ e.id \in Nat /\ e.id <= arrived
      /\ g \in FrameType /\ g.kind = "dispatch" /\ g.pc = "begin" /\ g.held /\ g.event = e
  <2>1. e \in [type : Type, id : Nat]
    BY <1>1 DEF HeldMove, Type
  <2> QED
    BY <1>1, <2>1, DispatchFrameType DEF HeldMove
<1>8. s[Len(s)].pc \notin TopOnly /\ s[Len(s)].pc # "begin"
  BY <1>3 DEF TopOnly
<1>9. e # NoEvent /\ ~synthesize_mouse_move_ => held_mouse_move_' = e /\ stack' = s \o <<g>>
  BY DEF DropHeld, WithHeld
<1>10. ~(e # NoEvent /\ ~synthesize_mouse_move_) => held_mouse_move_' = NoEvent /\ stack' = s
  BY DEF DropHeld, WithHeld
<1> HIDE DEF s, g
<1>11. Counts'
  BY <1>1 DEF Counts
<1>12. CASE e # NoEvent /\ ~synthesize_mouse_move_
  <2>1. stack' = Append(s, g) /\ held_mouse_move_' = e
    BY <1>3, <1>7, <1>9, <1>12
  <2>2. /\ stack' \in Seq(FrameType) /\ Len(stack') = Len(s) + 1
        /\ stack'[Len(stack')] = g /\ \A i \in 1 .. Len(s) : stack'[i] = s[i]
    BY <1>3, <1>7, <2>1, PushedFrame
  <2>3. Aims(stack', Known)
    BY <1>3, <1>4, <1>7, <1>8, <2>1, AimsPush
  <2>4. Order(stack', e, dispatched, arrived)
    <3>1. e.id # 0 => e.id > dispatched \/ HeldFrame(s, e)
      BY <1>1, <1>5 DEF HeldMove
    <3> QED
      BY <1>1, <1>3, <1>4, <1>7, <1>8, <2>1, <3>1, OrderPushHeld
  <2>5. HeldFrame(stack', e)
    <3>1. Len(stack') \in 1 .. Len(stack')
      BY <1>3, <2>2
    <3> QED
      BY <1>7, <2>2, <3>1 DEF HeldFrame
  <2>6. HeldMove'
    BY <1>1, <2>1, <2>5 DEF HeldMove
  <2>7. \A v, w : Here(s, v, w, Len(s)) => Here(stack', v, w, Len(stack'))
    BY <1>3, <2>2 DEF Here, Going
  <2>8. Handlers'
    BY <1>1, <1>6, <2>7 DEF Handlers
  <2> QED
    BY <1>1, <1>11, <2>1, <2>2, <2>3, <2>4, <2>6, <2>8 DEF MouseInv
<1>13. CASE ~(e # NoEvent /\ ~synthesize_mouse_move_)
  <2>1. stack' = s /\ held_mouse_move_' = NoEvent /\ NoEvent.id = 0
    BY <1>10, <1>13, EventTypes
  <2>2. Order(stack', held_mouse_move_', dispatched, arrived)
    BY <1>3, <1>4, <1>8, <2>1, OrderHeld
  <2>3. HeldMove'
    BY <1>11, <2>1, EventTypes DEF HeldMove, Counts
  <2>4. Handlers'
    BY <1>1, <1>6, <2>1 DEF Handlers
  <2> QED
    BY <1>1, <1>3, <1>4, <1>11, <2>1, <2>2, <2>3, <2>4 DEF MouseInv
<1> QED
  BY <1>12, <1>13

\* The host is resized, from the message loop or by a handler.
LEMMA ResizeStep ==
  ASSUME MouseInv, NEW kind \in {"SetHostBounds", "OnHostResized"}, Resize(kind)
  PROVE  MouseInv'
<1> DEFINE f == ResizeFrame(kind)
<1>1. /\ InClient /\ DropHeld /\ stack' = WithHeld(Append(stack, f))
      /\ mouse_move_hold_count_' = mouse_move_hold_count_ /\ held_tasks' = held_tasks
      /\ visible' = visible /\ stale' = stale /\ capture_window_' = capture_window_
      /\ UNCHANGED handlers
      /\ synthesize_mouse_move_' = synthesize_mouse_move_ /\ synthesize_tasks' = synthesize_tasks
      /\ arrived' = arrived /\ dispatched' = dispatched
  BY DEF Resize, Call
<1>2. /\ f \in FrameType /\ f.kind \notin {"capture", "dispatch"} /\ f.pc = "end" /\ ~f.held
      /\ f.event.id = 0
  BY DEF ResizeFrame, FrameType, Kind, Pc, Type, NoEvent
<1> HIDE DEF f
<1>3. CASE stack # <<>>
  BY <1>1, <1>2, <1>3, NestedResize
<1>4. CASE stack = <<>>
  <2>1. /\ arrived \in Nat /\ arrived <= arrived /\ 0 <= arrived /\ held_tasks \in 0 .. 1
        /\ mouse_move_hold_count_ > 0 => held_tasks = 0
    BY DEF MouseInv, Counts
  <2>2. stack' = WithHeld(<<f>>)
    <3>1. Append(stack, f) = <<f>>
      BY <1>2, <1>4
    <3> QED
      BY <1>1, <3>1
  <2>3. /\ stack' \in Seq(FrameType) /\ Aims(stack', Known)
        /\ Order(stack', held_mouse_move_', dispatched, arrived')
        /\ held_mouse_move_' = NoEvent
             \/ (held_mouse_move_' = held_mouse_move_ /\ HeldFrame(stack', held_mouse_move_))
    BY <1>1, <1>2, <1>4, <2>1, <2>2, FrameStarts DEF Own
  <2> QED
    BY <1>1, <1>4, <2>1, <2>3, StartKeeps
<1> QED
  BY <1>3, <1>4

\* A new event of the mouse: it is held, replaces the held event, or goes after it.
LEMMA MouseEventStep ==
  ASSUME MouseInv, NEW type \in {"MOVED", "DRAGGED", "PRESSED", "RELEASED"}, MouseEvent(type)
  PROVE  MouseInv'
<1> DEFINE e == [type |-> type, id |-> arrived + 1]
           f == DispatchFrame(e, FALSE)
           none == <<>>
<1>1. /\ stack = <<>> /\ arrived' = arrived + 1 /\ DispatchMouseEvent(e, none)
      /\ mouse_move_hold_count_' = mouse_move_hold_count_ /\ held_tasks' = held_tasks
      /\ visible' = visible /\ stale' = stale /\ capture_window_' = capture_window_ /\ UNCHANGED handlers
      /\ synthesize_mouse_move_' = synthesize_mouse_move_ /\ synthesize_tasks' = synthesize_tasks
      /\ dispatched' = dispatched
  BY DEF MouseEvent
<1>2. /\ arrived \in Nat /\ dispatched \in Nat /\ dispatched <= arrived /\ held_tasks \in 0 .. 1
      /\ mouse_move_hold_count_ > 0 => held_tasks = 0
  BY DEF MouseInv, Counts
<1>3. /\ arrived' \in Nat /\ arrived <= arrived' /\ arrived' # 0 /\ arrived' > arrived
      /\ arrived' > dispatched
      /\ arrived' <= arrived'
  BY <1>1, <1>2
<1>4. e.type = type /\ e.id = arrived' /\ e \in [type : Type, id : Nat]
  BY <1>1, <1>3 DEF Type
<1>5. f \in FrameType /\ f.kind = "dispatch" /\ ~f.held /\ f.event = e /\ f.pc = "begin"
  BY <1>4, DispatchFrameType
<1>6. \/ held_mouse_move_' = e /\ stack' = none /\ mouse_move_hold_count_ > 0 /\ type = "DRAGGED"
      \/ held_mouse_move_' = NoEvent /\ stack' = none \o <<f>>
      \/ DropHeld /\ stack' = WithHeld(none \o <<f>>)
  BY <1>1, <1>3, <1>4 DEF DispatchMouseEvent, Replaces
<1>7. none \o <<f>> = <<f>>
  BY <1>5
<1> HIDE DEF e, f
<1>8. CASE held_mouse_move_' = e /\ stack' = none /\ mouse_move_hold_count_ > 0 /\ type = "DRAGGED"
  <2>1. /\ held_mouse_move_' \in [type : {"NONE", "MOVED", "DRAGGED"}, id : Nat]
        /\ held_mouse_move_'.id = arrived'
    BY <1>4, <1>8 DEF Type, e
  <2>2. /\ stack' \in Seq(FrameType) /\ Aims(stack', Known)
        /\ Order(stack', held_mouse_move_', dispatched, arrived')
    <3>1. stack' = stack /\ stack' \in Seq(FrameType) /\ Len(stack) = 0
      BY <1>1, <1>8
    <3> HIDE DEF none
    <3>2. \A i : i \notin 1 .. Len(stack')
      BY <3>1
    <3> QED
      BY <3>1, <3>2 DEF Aims, Order
  <2>3. held_mouse_move_'.id <= arrived' /\ held_mouse_move_'.id > dispatched
    BY <1>3, <2>1
  <2> QED
    BY <1>1, <1>2, <1>3, <1>8, <2>1, <2>2, <2>3, StartKeeps
<1>9. CASE held_mouse_move_' = NoEvent /\ stack' = none \o <<f>>
  <2>1. stack' = <<f>> /\ held_mouse_move_'.id = 0
    BY <1>7, <1>9, EventTypes
  <2>2. /\ stack' \in Seq(FrameType) /\ Aims(stack', Known)
        /\ Order(stack', held_mouse_move_', dispatched, arrived')
    BY <1>3, <1>4, <1>5, <2>1, OneFrame
  <2> QED
    BY <1>1, <1>2, <1>3, <1>9, <2>2, StartKeeps
<1>10. CASE DropHeld /\ stack' = WithHeld(none \o <<f>>)
  <2>1. stack' = WithHeld(<<f>>) /\ DropHeld
    BY <1>7, <1>10
  <2>2. /\ stack' \in Seq(FrameType) /\ Aims(stack', Known)
        /\ Order(stack', held_mouse_move_', dispatched, arrived')
        /\ held_mouse_move_' = NoEvent \/ (held_mouse_move_' = held_mouse_move_ /\ HeldFrame(stack', held_mouse_move_))
    BY <1>1, <1>3, <1>4, <1>5, <2>1, FrameStarts
  <2> QED
    BY <1>1, <1>2, <1>3, <2>2, StartKeeps
<1> QED
  BY <1>6, <1>8, <1>9, <1>10

-----------------------------------------------------------------------------
(* The theorem *)

\* The invariant holds of a new root window.
LEMMA InitMouse ==
  ASSUME MouseInit
  PROVE  MouseInv
<1> DEFINE n == Len(stack)
<1>1. stack \in Seq(FrameType) /\ n = 0
  BY DEF MouseInit
<1>2. Counts
  <2>1. /\ MaxHolds \in Nat /\ mouse_move_hold_count_ = 0 /\ arrived = 0 /\ dispatched = 0
        /\ held_tasks = 0 /\ synthesize_tasks = 0 /\ buttons = FALSE /\ synthesize_mouse_move_ = FALSE
    BY ConstantsAssumption DEF MouseInit
  <2>2. mouse_move_hold_count_ \in 0 .. MaxHolds
    BY <2>1
  <2>3. buttons \in BOOLEAN /\ synthesize_mouse_move_ \in BOOLEAN
    BY <2>1, Zenon
  <2>4. synthesize_mouse_move_ => synthesize_tasks > 0
    BY <2>1, Zenon
  <2> QED
    BY <2>1, <2>2, <2>3, <2>4 DEF Counts
<1>3. HeldMove
  BY EventTypes DEF MouseInit, HeldMove
<1>4. Handlers
  BY DEF MouseInit, Handlers, Here
<1> HIDE DEF n
<1>5. \A i : i \notin 1 .. n
  BY <1>1
<1>6. Aims(stack, Known) /\ Order(stack, held_mouse_move_, dispatched, arrived)
  BY <1>5 DEF Aims, Order, n
<1> QED
  BY <1>1, <1>2, <1>3, <1>4, <1>6 DEF MouseInv

\* Every step keeps the invariant, one lemma for each action.
LEMMA NextMouse ==
  ASSUME MouseInv, [MouseNext]_mouse_vars
  PROVE  MouseInv'
<1>1. CASE Proceed
  <2>1. ASSUME NEW t \in Windows \cup {NULL}, Begin(t) PROVE MouseInv'
    BY <2>1, BeginStep
  <2> QED
    BY <1>1, <2>1, EnterStep, DeliverStep, EndDispatchStep, HandlerReturnsStep, CaptureGainedStep,
       CaptureReleasedStep, CaptureEndsStep, HiddenStep, ResizedStep DEF Proceed
<1>2. ASSUME NEW type \in {"MOVED", "DRAGGED", "PRESSED", "RELEASED"}, MouseEvent(type) PROVE MouseInv'
  BY <1>2, MouseEventStep
<1>3. ASSUME NEW kind \in {"SetHostBounds", "OnHostResized"}, Resize(kind) PROVE MouseInv'
  BY <1>3, ResizeStep
<1>4. ASSUME NEW w \in Windows, SetCapture(w) \/ Hide(w) \/ Show(w) PROVE MouseInv'
  BY <1>4, SetCaptureStep, HideStep, ShowStep
<1>5. CASE KeyEvent \/ HeldTask \/ SynthesizeTask \/ HoldMouseMoves \/ ReleaseMouseMoves \/ ReleaseCapture
  BY <1>5, KeyEventStep, HeldTaskStep, SynthesizeTaskStep, HoldStep, ReleaseStep, ReleaseCaptureStep
<1>6. CASE UNCHANGED mouse_vars
  BY <1>6 DEF mouse_vars, handlers, moves, MouseInv, Counts, HeldMove, Handlers, Known
<1> QED
  BY <1>1, <1>2, <1>3, <1>4, <1>5, <1>6 DEF MouseNext

\* The invariant is stronger than what the run checks.
LEMMA MouseInvSound ==
  ASSUME MouseInv
  PROVE  MovesSound
<1>1. /\ stack \in Seq(FrameType) /\ Counts /\ HeldMove /\ Handlers
      /\ Order(stack, held_mouse_move_, dispatched, arrived)
  BY DEF MouseInv
<1>2. MouseTypeOK
  <2>1. held_mouse_move_.type \in {"NONE", "MOVED", "DRAGGED"}
    BY <1>1 DEF HeldMove
  <2> QED
    BY <1>1, <2>1 DEF MouseTypeOK, Counts, Handlers
<1>3. HandlersVisible
  BY <1>1, NothingHidden DEF HandlersVisible, Handlers, Known
<1>4. PendingHasTask
  BY <1>1, NothingHidden DEF PendingHasTask, HeldMove, Counts
<1>5. InOrder
  <2>1. ASSUME NEW i \in DOMAIN stack, stack[i].pc = "begin", stack[i].event.id # 0
        PROVE  stack[i].event.id > dispatched \/ Again(i)
    <3>1. FrameOrder(stack, held_mouse_move_, dispatched, arrived, i)
      BY <1>1 DEF Order
    <3> QED
      BY <2>1, <3>1 DEF FrameOrder, Repeats, Again
  <2> QED
    BY <2>1 DEF InOrder
<1> QED
  BY <1>2, <1>3, <1>4, <1>5 DEF MovesSound

\* For any windows, whatever handlers and clients do, and any bounds: between events no
\* hidden window is the pressed handler, or the moved one but for a window that was hidden
\* by the handler of the window that the mouse or the capture was leaving for it; a move
\* that is held or to be synthesized has a task or a hold; and the events of the mouse are
\* dispatched in order and once, but for a held event whose own handler resizes the host.
THEOREM MovesSoundAlways == MouseSpec => []MovesSound
<1>1. MouseInit => MouseInv
  BY InitMouse
<1>2. MouseInv /\ [MouseNext]_mouse_vars => MouseInv'
  BY NextMouse
<1>3. MouseInv => MovesSound
  BY MouseInvSound
<1> QED
  BY <1>1, <1>2, <1>3, PTL DEF MouseSpec
=============================================================================
