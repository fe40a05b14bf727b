--------------------------- MODULE RootWindowMouse --------------------------
(***************************************************************************)
(* The mouse side of ui/aura/root_window.cc: which window gets a mouse     *)
(* event, mouse moves that are held or synthesized, and what the handlers  *)
(* of an event may do meanwhile: hide windows, take and give up the        *)
(* capture, hold and release mouse moves, resize the host.                 *)
(* Where the mouse is, and so the window under it, is a choice.            *)
(***************************************************************************)
EXTENDS Integers, SequencesExt

CONSTANTS
  Windows, NULL,
  Calls,          \* what clients do: a subset of ClientCalls
  MaxEvents,      \* bound: events of the mouse
  MaxCalls,       \* bound: what clients do
  MaxHolds        \* bound: mouse_move_hold_count_

ClientCalls ==
  {"Hide", "Show", "Hold", "Release", "SetCapture", "ReleaseCapture", "SetHostBounds", "OnHostResized"}

ASSUME ConstantsAssumption ==
  /\ NULL \notin Windows /\ Calls \subseteq ClientCalls
  /\ MaxEvents \in Nat /\ MaxCalls \in Nat /\ MaxHolds \in Nat

VARIABLES
  visible, capture_window_, mouse_pressed_handler_, mouse_moved_handler_,
  buttons,                   \* mouse_button_flags_ != 0
  mouse_move_hold_count_,
  held_mouse_move_,          \* an event, or NoEvent
  held_tasks,                \* DispatchHeldMouseMove tasks whose weak pointer is valid
  synthesize_mouse_move_, synthesize_tasks,
  stack,                     \* frames of what is going on
  arrived, calls,
  dispatched,                \* history: the last event of the mouse that was dispatched
  stale                      \* history: the windows that were hidden when a frame was to
                             \* make them the moved handler later, and not shown since

handlers == <<mouse_pressed_handler_, mouse_moved_handler_, buttons>>
moves == <<mouse_move_hold_count_, held_mouse_move_, held_tasks, synthesize_mouse_move_, synthesize_tasks>>
mouse_vars == <<visible, capture_window_, handlers, moves, stack, arrived, calls, dispatched,
                stale>>

\* An event and its number, in the order in which the mouse made them; 0 if synthesized.
NoEvent == [type |-> "NONE", id |-> 0]
Synthesized == [type |-> "MOVED", id |-> 0]

\* DispatchMouseEventImpl of an event, the held one perhaps.
DispatchFrame(e, held) ==
  [kind |-> "dispatch", pc |-> "begin", event |-> e, held |-> held, target |-> NULL, window |-> NULL]
\* UpdateCapture of RootWindow: the window that loses the capture, the one that gets it.
CaptureFrame(old, new) ==
  [kind |-> "capture", pc |-> IF old = NULL THEN "lost" ELSE "losing", event |-> NoEvent, held |-> FALSE,
   target |-> new, window |-> old]
\* OnWindowHidden, after the release of the capture.
HiddenFrame(w) ==
  [kind |-> "hidden", pc |-> "end", event |-> NoEvent, held |-> FALSE, target |-> NULL, window |-> w]
\* SetHostBounds or OnHostResized, after the held event.
ResizeFrame(kind) ==
  [kind |-> kind, pc |-> "end", event |-> NoEvent, held |-> FALSE, target |-> NULL, window |-> NULL]

top == Last(stack)
Goto(pc) == [stack EXCEPT ![Len(stack)].pc = pc]
At(kind, pc) == stack # <<>> /\ top.kind = kind /\ top.pc = pc

\* Code of clients runs: outside of all events, or in a handler.
ClientPcs == {"exiting", "entering", "delivering", "losing"}
InClient == stack # <<>> => top.pc \in ClientPcs
\* The mouse or the capture goes to w, and the handler of the window that it leaves
\* has not returned.
Expected(w) == \E i \in DOMAIN stack : stack[i].pc \in {"exiting", "losing"} /\ stack[i].target = w

-----------------------------------------------------------------------------
(* Dispatching *)

\* Variant: the held event goes last.
WithHeld_Last(frames) ==
  IF held_mouse_move_ # NoEvent /\ ~synthesize_mouse_move_
  THEN <<DispatchFrame(held_mouse_move_, TRUE)>> \o frames ELSE frames

\* The frames for event e, after the held event, which is dropped if its place is suspect.
WithHeld(frames) ==
  IF held_mouse_move_ # NoEvent /\ ~synthesize_mouse_move_
  THEN frames \o <<DispatchFrame(held_mouse_move_, TRUE)>> ELSE frames
DropHeld ==
  held_mouse_move_' = IF held_mouse_move_ # NoEvent /\ synthesize_mouse_move_ THEN NoEvent ELSE held_mouse_move_

\* "Since we're going to dispatch the new event directly below, we can reset the old one."
Replaces(e) == e.type = "DRAGGED" \/ e.id = 0

\* DispatchMouseEvent, below the frames of s.
DispatchMouseEvent(e, s) ==
  IF (e.type = "DRAGGED" \/ e.id = 0) /\ mouse_move_hold_count_ > 0
  THEN held_mouse_move_' = e /\ stack' = s
  ELSE IF Replaces(e)
  THEN held_mouse_move_' = NoEvent /\ stack' = s \o <<DispatchFrame(e, FALSE)>>
  ELSE DropHeld /\ stack' = WithHeld(s \o <<DispatchFrame(e, FALSE)>>)

\* The mouse moves, is dragged, pressed or released.
MouseEvent(type) ==
  /\ stack = <<>> /\ arrived < MaxEvents
  /\ (type = "DRAGGED") => buttons
  /\ arrived' = arrived + 1
  /\ DispatchMouseEvent([type |-> type, id |-> arrived + 1], <<>>)
  /\ UNCHANGED <<visible, capture_window_, handlers, mouse_move_hold_count_, held_tasks,
                 synthesize_mouse_move_, synthesize_tasks, calls, dispatched, stale>>

\* DispatchKeyEvent; what its handlers do is what clients do outside of mouse events.
KeyEvent ==
  /\ stack = <<>> /\ held_mouse_move_ # NoEvent
  /\ DropHeld /\ stack' = WithHeld(<<>>)
  /\ UNCHANGED <<visible, capture_window_, handlers, mouse_move_hold_count_, held_tasks,
                 synthesize_mouse_move_, synthesize_tasks, arrived, calls, dispatched, stale>>

\* DispatchMouseEventImpl's target.
Targets ==
  IF mouse_pressed_handler_ # NULL THEN {mouse_pressed_handler_}
  ELSE IF capture_window_ # NULL THEN {capture_window_} ELSE visible \cup {NULL}

\* DispatchMouseEventToTarget, up to the first handler.
Begin(t) ==
  /\ At("dispatch", "begin") /\ t \in Targets
  /\ synthesize_mouse_move_' = FALSE
  /\ dispatched' = IF top.event.id = 0 THEN dispatched ELSE top.event.id
  /\ mouse_pressed_handler_' =
       CASE top.event.type = "PRESSED" /\ mouse_pressed_handler_ = NULL -> t
         [] top.event.type = "RELEASED" -> NULL
         [] OTHER -> mouse_pressed_handler_
  /\ buttons' \in CASE top.event.type = "PRESSED"  -> {TRUE}
                     [] top.event.type = "RELEASED" -> BOOLEAN    \* other buttons may be down
                     [] OTHER                       -> {buttons}
  /\ stack' = [stack EXCEPT ![Len(stack)].target = t,
                            ![Len(stack)].window = mouse_moved_handler_,
                            ![Len(stack)].pc =
                 IF top.event.type # "MOVED" \/ t = mouse_moved_handler_ THEN "deliver"
                 ELSE IF mouse_moved_handler_ \in visible THEN "exiting" ELSE "enter"]
  /\ UNCHANGED <<visible, capture_window_, mouse_moved_handler_, mouse_move_hold_count_, held_mouse_move_,
                 held_tasks, synthesize_tasks, arrived, calls, stale>>

\* HandleMouseMoved, once the window that the mouse leaves has been told.
Enter ==
  /\ At("dispatch", "enter")
  /\ mouse_moved_handler_' = top.target
  /\ stack' = Goto(IF top.target \in visible THEN "entering" ELSE "deliver")
  /\ UNCHANGED <<visible, capture_window_, mouse_pressed_handler_, buttons, moves, arrived, calls, dispatched, stale>>

\* The event's own window is told, if it is visible.
Deliver ==
  /\ At("dispatch", "deliver")
  /\ stack' = Goto(IF top.target \in visible THEN "delivering" ELSE "end")
  /\ UNCHANGED <<visible, capture_window_, handlers, moves, arrived, calls, dispatched, stale>>

\* The held event goes when it has been dispatched.
EndDispatch ==
  /\ At("dispatch", "end")
  /\ stack' = Front(stack)
  /\ held_mouse_move_' = IF top.held THEN NoEvent ELSE held_mouse_move_
  /\ UNCHANGED <<visible, capture_window_, handlers, mouse_move_hold_count_, held_tasks,
                 synthesize_mouse_move_, synthesize_tasks, arrived, calls, dispatched, stale>>

\* A handler returns.
HandlerReturns ==
  /\ stack # <<>> /\ InClient
  /\ stack' = Goto(CASE top.pc = "exiting" -> "enter" [] top.pc = "entering" -> "deliver"
                     [] top.pc = "delivering" -> "end" [] top.pc = "losing" -> "lost")
  /\ UNCHANGED <<visible, capture_window_, handlers, moves, arrived, calls, dispatched, stale>>

-----------------------------------------------------------------------------
(* Held and synthesized moves *)

\* The first hold cancels the task that would dispatch the held move.
Invalidated == IF mouse_move_hold_count_ = 0 THEN 0 ELSE held_tasks

Call(name) == InClient /\ name \in Calls /\ calls < MaxCalls /\ calls' = calls + 1

HoldMouseMoves ==
  /\ Call("Hold") /\ mouse_move_hold_count_ < MaxHolds
  /\ held_tasks' = Invalidated
  /\ mouse_move_hold_count_' = mouse_move_hold_count_ + 1
  /\ UNCHANGED <<visible, capture_window_, handlers, held_mouse_move_, synthesize_mouse_move_,
                 synthesize_tasks, stack, arrived, dispatched, stale>>

Released == mouse_move_hold_count_ = 1 /\ held_mouse_move_ # NoEvent

\* Variant: the last hold is not released.
ReleaseMouseMoves_NotLast ==
  /\ InClient /\ "Release" \in Calls /\ mouse_move_hold_count_ > 1
  /\ mouse_move_hold_count_' = mouse_move_hold_count_ - 1
  /\ UNCHANGED <<visible, capture_window_, handlers, held_mouse_move_, held_tasks,
                 synthesize_mouse_move_, synthesize_tasks, stack, arrived, calls, dispatched, stale>>

\* Clients release what they hold: no bound on the calls.
ReleaseMouseMoves ==
  /\ InClient /\ "Release" \in Calls /\ mouse_move_hold_count_ > 0
  /\ mouse_move_hold_count_' = mouse_move_hold_count_ - 1
  /\ held_tasks' = IF Released THEN held_tasks + 1 ELSE held_tasks
  /\ UNCHANGED <<visible, capture_window_, handlers, held_mouse_move_, synthesize_mouse_move_,
                 synthesize_tasks, stack, arrived, calls, dispatched, stale>>

\* The posted DispatchHeldMouseMove.
HeldTask ==
  /\ stack = <<>> /\ held_tasks > 0
  /\ held_tasks' = held_tasks - 1
  /\ DropHeld /\ stack' = WithHeld(<<>>)
  /\ UNCHANGED <<visible, capture_window_, handlers, mouse_move_hold_count_, synthesize_mouse_move_,
                 synthesize_tasks, arrived, calls, dispatched, stale>>

\* SetHostBounds and OnHostResized dispatch the held event first.
Resize(kind) ==
  /\ Call(kind)
  /\ DropHeld /\ stack' = WithHeld(Append(stack, ResizeFrame(kind)))
  /\ UNCHANGED <<visible, capture_window_, handlers, mouse_move_hold_count_, held_tasks,
                 synthesize_mouse_move_, synthesize_tasks, arrived, dispatched, stale>>

\* PostMouseMoveEventAfterWindowChange, if the mouse was in the window.
PostMouseMove ==
  \/ /\ synthesize_mouse_move_' = TRUE
     /\ synthesize_tasks' = IF synthesize_mouse_move_ THEN synthesize_tasks ELSE synthesize_tasks + 1
  \/ UNCHANGED <<synthesize_mouse_move_, synthesize_tasks>>

\* SetHostBounds forgets the synthesized move; the new bounds of OnHostResized may post one.
Resized ==
  /\ \/ At("SetHostBounds", "end") /\ synthesize_mouse_move_' = FALSE /\ UNCHANGED synthesize_tasks
     \/ At("OnHostResized", "end") /\ PostMouseMove
  /\ stack' = Front(stack)
  /\ UNCHANGED <<visible, capture_window_, handlers, mouse_move_hold_count_, held_mouse_move_, held_tasks,
                 arrived, calls, dispatched, stale>>

\* SynthesizeMouseMoveEvent: as a task, or from UpdateCapture.
Synthesize(s) ==
  IF synthesize_mouse_move_
  THEN synthesize_mouse_move_' = FALSE /\ DispatchMouseEvent(Synthesized, s)
  ELSE UNCHANGED <<synthesize_mouse_move_, held_mouse_move_>> /\ stack' = s

SynthesizeTask ==
  /\ stack = <<>> /\ synthesize_tasks > 0
  /\ synthesize_tasks' = synthesize_tasks - 1
  /\ Synthesize(<<>>)
  /\ UNCHANGED <<visible, capture_window_, handlers, mouse_move_hold_count_, held_tasks, arrived, calls, dispatched, stale>>

-----------------------------------------------------------------------------
(* Windows and the capture *)

SetCapture(w) ==
  /\ Call("SetCapture") /\ w \in visible /\ capture_window_ # w
  /\ capture_window_' = w
  /\ stack' = Append(stack, CaptureFrame(capture_window_, w))
  /\ UNCHANGED <<visible, handlers, moves, arrived, dispatched, stale>>

ReleaseCapture ==
  /\ Call("ReleaseCapture") /\ capture_window_ # NULL
  /\ capture_window_' = NULL
  /\ stack' = Append(stack, CaptureFrame(capture_window_, NULL))
  /\ UNCHANGED <<visible, handlers, moves, arrived, dispatched, stale>>

\* UpdateCapture, once the old window has been told.
CaptureGained ==
  /\ At("capture", "lost") /\ top.target # NULL
  /\ mouse_moved_handler_' = IF mouse_moved_handler_ # NULL \/ buttons THEN top.target ELSE mouse_moved_handler_
  /\ mouse_pressed_handler_' = NULL
  /\ stack' = Front(stack)
  /\ UNCHANGED <<visible, capture_window_, buttons, moves, arrived, calls, dispatched, stale>>

CaptureReleased ==
  /\ At("capture", "lost") /\ top.target = NULL
  /\ Synthesize(Goto("end"))
  /\ UNCHANGED <<visible, capture_window_, handlers, mouse_move_hold_count_, held_tasks, synthesize_tasks,
                 arrived, calls, dispatched, stale>>

CaptureEnds ==
  /\ At("capture", "end")
  /\ mouse_pressed_handler_' = NULL
  /\ stack' = Front(stack)
  /\ UNCHANGED <<visible, capture_window_, mouse_moved_handler_, buttons, moves, arrived, calls, dispatched, stale>>

Hide(w) ==
  /\ Call("Hide") /\ w \in visible
  /\ visible' = visible \ {w}
  /\ stale' = IF Expected(w) THEN stale \cup {w} ELSE stale
  /\ IF capture_window_ = w
     THEN capture_window_' = NULL /\ stack' = stack \o <<HiddenFrame(w), CaptureFrame(w, NULL)>>
     ELSE stack' = Append(stack, HiddenFrame(w)) /\ UNCHANGED capture_window_
  /\ UNCHANGED <<handlers, moves, arrived, dispatched>>

\* "release the pointer to those windows".
Forgets(w, h) == IF h = w THEN NULL ELSE h

Hidden ==
  /\ At("hidden", "end")
  /\ mouse_pressed_handler_' = Forgets(top.window, mouse_pressed_handler_)
  /\ mouse_moved_handler_' = Forgets(top.window, mouse_moved_handler_)
  /\ PostMouseMove
  /\ stack' = Front(stack)
  /\ UNCHANGED <<visible, capture_window_, buttons, mouse_move_hold_count_, held_mouse_move_, held_tasks,
                 arrived, calls, dispatched, stale>>

Show(w) ==
  /\ Call("Show") /\ w \notin visible
  /\ visible' = visible \cup {w} /\ stale' = stale \ {w}
  /\ PostMouseMove
  /\ UNCHANGED <<capture_window_, handlers, mouse_move_hold_count_, held_mouse_move_, held_tasks, stack,
                 arrived, dispatched>>

-----------------------------------------------------------------------------

MouseInit ==
  /\ visible = Windows /\ capture_window_ = NULL
  /\ mouse_pressed_handler_ = NULL /\ mouse_moved_handler_ = NULL /\ buttons = FALSE
  /\ mouse_move_hold_count_ = 0 /\ held_mouse_move_ = NoEvent /\ held_tasks = 0
  /\ synthesize_mouse_move_ = FALSE /\ synthesize_tasks = 0
  /\ stack = <<>> /\ arrived = 0 /\ calls = 0 /\ dispatched = 0 /\ stale = {}

\* What the window does by itself; handlers return.
Proceed ==
  \/ \E t \in Windows \cup {NULL} : Begin(t)
  \/ Enter \/ Deliver \/ EndDispatch \/ HandlerReturns
  \/ CaptureGained \/ CaptureReleased \/ CaptureEnds \/ Hidden \/ Resized

MouseNext ==
  \/ Proceed
  \/ \E type \in {"MOVED", "DRAGGED", "PRESSED", "RELEASED"} : MouseEvent(type)
  \/ KeyEvent \/ HeldTask \/ SynthesizeTask
  \/ HoldMouseMoves \/ ReleaseMouseMoves \/ ReleaseCapture
  \/ \E kind \in {"SetHostBounds", "OnHostResized"} : Resize(kind)
  \/ \E w \in Windows : SetCapture(w) \/ Hide(w) \/ Show(w)

MouseSpec == MouseInit /\ [][MouseNext]_mouse_vars

\* Handlers return, tasks run, and who holds mouse moves releases them.
FairMouseSpec ==
  /\ MouseSpec
  /\ WF_mouse_vars(Proceed) /\ WF_mouse_vars(HeldTask) /\ WF_mouse_vars(SynthesizeTask)
  /\ SF_mouse_vars(ReleaseMouseMoves)

-----------------------------------------------------------------------------
(* Properties *)

MouseTypeOK ==
  /\ visible \subseteq Windows /\ capture_window_ \in visible \cup {NULL}
  /\ {mouse_pressed_handler_, mouse_moved_handler_} \subseteq Windows \cup {NULL}
  /\ held_mouse_move_.type \in {"NONE", "MOVED", "DRAGGED"}
  /\ mouse_move_hold_count_ \in 0 .. MaxHolds /\ held_tasks \in 0 .. 1 /\ synthesize_tasks \in Nat
  /\ {buttons, synthesize_mouse_move_} \subseteq BOOLEAN

\* "If the ancestor of any event handler windows are invisible, release the pointer to
\* those windows": between events no handler is a window that is hidden, or destroyed,
\* but for one: a window that is hidden by the handler of the window that the mouse or
\* the capture is leaving for it.
HandlersVisible ==
  stack = <<>> =>
    /\ mouse_pressed_handler_ \in visible \cup {NULL}
    /\ mouse_moved_handler_ \in visible \cup {NULL} \cup stale

\* A move that is held, or to be synthesized, has a task that dispatches it, or a hold
\* whose release will post one.
PendingHasTask ==
  /\ stack = <<>> /\ held_mouse_move_ # NoEvent => mouse_move_hold_count_ > 0 \/ held_tasks > 0
  /\ synthesize_mouse_move_ => synthesize_tasks > 0

\* Frame i dispatches the held event again, inside the dispatch of that same event.
Again(i) == stack[i].held /\ \E j \in 1 .. i - 1 : stack[j].held /\ stack[j].event = stack[i].event

\* The mouse's events are dispatched in their order and once, those that are held
\* before the later ones; but a held event may be dispatched again, by a handler of its
\* own that resizes the host.
InOrder ==
  \A i \in DOMAIN stack :
    stack[i].kind = "dispatch" /\ stack[i].pc = "begin" /\ stack[i].event.id # 0 =>
      stack[i].event.id > dispatched \/ Again(i)

\* What the comments promise without exception, and what the exceptions above refute.
HandlersAlwaysVisible ==
  stack = <<>> => {mouse_pressed_handler_, mouse_moved_handler_} \subseteq visible \cup {NULL}
DispatchedOnce == \A i \in DOMAIN stack : ~Again(i)

\* A held move is dispatched, replaced or dropped, once the holds are released.
HeldMoveGoes == held_mouse_move_ # NoEvent ~> held_mouse_move_ = NoEvent

\* Handlers, held and synthesized moves and the tasks that dispatch them agree,
\* and what goes out keeps the order of what came in.
MovesSound == MouseTypeOK /\ HandlersVisible /\ PendingHasTask /\ InOrder
=============================================================================
