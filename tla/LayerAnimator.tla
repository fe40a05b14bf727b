---------------------------- MODULE LayerAnimator ----------------------------
(***************************************************************************)
(* ui/compositor/layer_animator.cc with layer_animation_sequence.cc: the   *)
(* sequences of a layer, running and queued.  Everything happens on one    *)
(* thread, but when a sequence ends or is aborted its observers are called *)
(* in the middle of the animator's loops, and they start, schedule and     *)
(* stop animations.  The calls in progress are a stack of frames, the      *)
(* innermost first; between two calls of observers nothing can intervene,  *)
(* and a frame's step is what its function does up to its next inner call. *)
(***************************************************************************)
EXTENDS Integers, FiniteSets, SequencesExt

CONSTANTS
  Addresses,    \* where LayerAnimationSequences are allocated
  Kinds,        \* the sequences clients make: [props, duration]
  Strategies,   \* of PreemptionStrategy
  MaxCalls,     \* bound: calls by clients and observers
  MaxDepth,     \* bound: an observer's call happens on a stack no deeper
  MaxTime,      \* bound: time
  MaxLag,       \* bound: how late the timer may be
  CallsUntil,   \* bound: no calls later, so that what they start can end
  Null

ASSUME ConstantsAssumption ==
  /\ MaxCalls \in Nat /\ MaxDepth \in Nat /\ MaxTime \in Nat \ {0} /\ CallsUntil \in Nat /\ MaxLag \in Nat \ {0}
  /\ \A k \in Kinds : k.props # {} /\ k.duration \in Nat
  /\ Strategies \subseteq {"set", "animate", "enqueue", "replace"}
  /\ Null \notin Addresses \cup Kinds

VARIABLES
  heap,                 \* the sequence at each address, or Null
  animation_queue_,     \* all sequences the animator owns, the running ones too
  running_animations_,  \* [sequence, start_time]
  last_step_time_, is_started_,
  now, stack, calls,
  died                  \* TRUE when running_animations_[0] of none was read

vars == <<heap, animation_queue_, running_animations_, last_step_time_, is_started_,
          now, stack, calls, died>>

animator == <<animation_queue_, running_animations_, last_step_time_, is_started_>>

-----------------------------------------------------------------------------
(* Queries *)

is_animating == animation_queue_ # <<>>
HasAnimation(s) == s \in Range(animation_queue_)
Running == {r.sequence : r \in Range(running_animations_)}
Props(S) == UNION {heap[s].props : s \in S}

\* Some running sequence animates one of these properties.
Conflict(props) == Props(Running) \cap props # {}

\* ProcessQueue: the first sequence that shares no property with a running one
\* or with one before it in the queue; 0 if there is none.
Startable ==
  LET free == {i \in 1 .. Len(animation_queue_) :
        ~ \E s \in Running \cup Range(SubSeq(animation_queue_, 1, i - 1)) :
            heap[s].props \cap heap[animation_queue_[i]].props # {}}
  IN  IF free = {} THEN 0 ELSE Min(free)

-----------------------------------------------------------------------------
(* The stack *)

Frame(function, s, copy, time) ==
  [function |-> function, s |-> s, copy |-> copy, time |-> time]
Call(function) == Frame(function, Null, <<>>, 0)
On(function, s) == Frame(function, s, <<>>, 0)

Top == Head(stack)
At(function) == ~died /\ stack # <<>> /\ Top.function = function
\* The frame goes on as these frames, the first of them first.
Go(frames) == stack' = frames \o Tail(stack)
\* The frame is done with the first of its copy.
NextOne == [Top EXCEPT !.copy = Tail(@)]

-----------------------------------------------------------------------------
(* The clients' calls; an observer that is called may make one, too *)

\* An observer that is told of an abort starts nothing.
May(callbacks) ==
  /\ ~died /\ now <= CallsUntil /\ calls < MaxCalls /\ calls' = calls + 1
  /\ stack # <<>> => Top.function \in callbacks /\ Len(stack) <= MaxDepth
  /\ UNCHANGED <<animator, now, died>>

Idle == UNCHANGED <<heap, animator, now, calls, died>>

New(s, k) == heap[s] = Null /\ heap' = [heap EXCEPT ![s] = k]

StartAnimation(s, k, strategy) ==
  /\ May({"Ended"}) /\ New(s, k)
  /\ stack' =
       <<IF ~Conflict(k.props) THEN On("StartSequence", s)
         ELSE Frame(strategy, s, <<>>, 0),
         Call("Zero"), Call("Update")>> \o stack

ScheduleAnimation(s, k) ==
  /\ May({"Ended"}) /\ New(s, k)
  /\ stack' = <<On("Schedule", s), Call("Update")>> \o stack

StopAnimating ==
  /\ May({"Ended", "Aborted"}) /\ UNCHANGED heap
  /\ stack' = <<Call("Stop")>> \o stack

StopAnimatingProperty(p) ==
  /\ May({"Ended", "Aborted"}) /\ UNCHANGED heap
  /\ stack' = <<Frame("StopProperty", p, <<>>, 0)>> \o stack

-----------------------------------------------------------------------------
(* Starting *)

Schedule ==
  /\ At("Schedule")
  /\ IF is_animating
     THEN /\ animation_queue_' = Append(animation_queue_, Top.s)
          /\ Go(<<Call("ProcessQueue")>>)
     ELSE /\ UNCHANGED animation_queue_
          /\ Go(<<On("StartSequence", Top.s)>>)
  /\ UNCHANGED <<heap, running_animations_, last_step_time_, is_started_, now, calls, died>>

AddToQueueIfNotPresent(s) ==
  IF HasAnimation(s) THEN animation_queue_ ELSE <<s>> \o animation_queue_

\* StartSequenceImmediately, with the start of Step.
StartSequenceImmediately ==
  /\ At("StartSequence")
  /\ IF Conflict(heap[Top.s].props)
     THEN Go(<<>>) /\ UNCHANGED animator
     ELSE LET time == IF is_animating THEN last_step_time_ ELSE now IN
          /\ running_animations_' = Append(running_animations_,
                                           [sequence |-> Top.s, start_time |-> time])
          /\ animation_queue_' = AddToQueueIfNotPresent(Top.s)
          /\ last_step_time_' = time
          /\ UNCHANGED is_started_
          /\ Go(<<Frame("Step", Null, running_animations_', time)>>)
  /\ UNCHANGED <<heap, now, calls, died>>

\* One turn of the loop.
ProcessQueue ==
  /\ At("ProcessQueue")
  /\ Go(IF Startable = 0 THEN <<>>
        ELSE <<On("StartSequence", animation_queue_[Startable]), Top>>)
  /\ Idle

UpdateAnimationState ==
  /\ At("Update")
  /\ is_started_' = is_animating
  /\ Go(<<>>)
  /\ UNCHANGED <<heap, animation_queue_, running_animations_, last_step_time_, now,
                 calls, died>>

-----------------------------------------------------------------------------
(* Removing and finishing *)

\* Where s runs, and where it is queued; the first place of some is erased.
Plays(s) == {i \in DOMAIN running_animations_ : running_animations_[i].sequence = s}
Waits(s) == {i \in DOMAIN animation_queue_ : animation_queue_[i] = s}
Erased(list, places) == IF places = {} THEN list ELSE RemoveAt(list, Min(places))

\* Variant: taken from the running animations only.
RemoveAnimation_Running(s) ==
  /\ running_animations_' = Erased(running_animations_, Plays(s))
  /\ UNCHANGED <<animation_queue_, last_step_time_, is_started_>>

RemoveAnimation(s) ==
  /\ running_animations_' = Erased(running_animations_, Plays(s))
  /\ animation_queue_' = Erased(animation_queue_, Waits(s))
  /\ UNCHANGED <<last_step_time_, is_started_>>

Delete(S) == heap' = [s \in Addresses |-> IF s \in S THEN Null ELSE heap[s]]

\* FinishAnimation: removed, progressed to its end, deleted; then the queue.
FinishAnimation ==
  /\ At("Finish")
  /\ RemoveAnimation(Top.s)
  /\ Go(<<On("Ended", Top.s), On("Delete", Top.s), Call("ProcessQueue"), Call("Update")>>)
  /\ UNCHANGED <<heap, now, calls, died>>

\* NotifyEnded, NotifyAborted: the observers have been called.
Notified == (At("Ended") \/ At("Aborted")) /\ Go(<<>>) /\ Idle

\* A scoped_ptr goes out of scope.
DeleteRemoved ==
  /\ At("Delete")
  /\ Delete({Top.s})
  /\ Go(<<>>)
  /\ UNCHANGED <<animator, now, calls, died>>

\* Step: one turn of the loop over the copy of the running animations.
StepOne ==
  /\ At("Step")
  /\ Go(IF Top.copy = <<>> THEN <<>>
        ELSE LET r == Head(Top.copy) IN
             IF /\ HasAnimation(r.sequence)
                /\ Top.time - r.start_time >= heap[r.sequence].duration
             THEN <<On("Finish", r.sequence), NextOne>> ELSE <<NextOne>>)
  /\ Idle

\* FinishAnyAnimationWithZeroDuration: a copy is made, then one turn at a time;
\* here the sequence is progressed before it is removed.
Zero ==
  /\ At("Zero")
  /\ Go(<<Frame("ZeroOne", Null, running_animations_, 0), Call("ProcessQueue"),
          Call("Update")>>)
  /\ Idle

ZeroOne ==
  /\ At("ZeroOne")
  /\ Go(IF Top.copy = <<>> THEN <<>>
        ELSE LET s == Head(Top.copy).sequence IN
             IF HasAnimation(s) /\ heap[s].duration = 0
             THEN <<On("Ended", s), On("RemoveDelete", s), NextOne>> ELSE <<NextOne>>)
  /\ Idle

\* scoped_ptr removed(RemoveAnimation(s)): null if it is gone already.
RemoveDelete ==
  /\ At("RemoveDelete")
  /\ RemoveAnimation(Top.s)
  /\ Delete({Top.s} \cap Range(animation_queue_))
  /\ Go(<<>>)
  /\ UNCHANGED <<now, calls, died>>

\* StopAnimating: one turn of the loop; there may be nothing at [0].
Stop ==
  /\ At("Stop")
  /\ Go(IF is_animating /\ running_animations_ # <<>>
        THEN <<On("Finish", running_animations_[1].sequence), Top>> ELSE <<>>)
  /\ died' = (died \/ (is_animating /\ running_animations_ = <<>>))
  /\ UNCHANGED <<heap, animator, now, calls>>

StopProperty ==
  LET with == {i \in 1 .. Len(running_animations_) :
                 Top.s \in heap[running_animations_[i].sequence].props} IN
  /\ At("StopProperty")
  /\ Go(IF with = {} THEN <<>>
        ELSE <<On("Finish", running_animations_[Min(with)].sequence), Top>>)
  /\ Idle

-----------------------------------------------------------------------------
(* Preemption, when StartAnimation met a running animation *)

\* RemoveAllAnimationsWithACommonProperty: over copies of the running ones, then
\* of the queue; they are progressed to their end, or aborted.
RemoveAll(abort) == <<Frame("RemoveRunning", Top.s, running_animations_, abort),
                      Frame("CopyQueue", Top.s, <<>>, abort)>>

ImmediatelySetNewTarget ==
  /\ At("set")
  /\ Go(RemoveAll(0) \o <<On("Ended", Top.s), On("Delete", Top.s)>>)
  /\ Idle

ImmediatelyAnimateToNewTarget ==
  /\ At("animate")
  /\ Go(RemoveAll(1) \o <<On("AddStart", Top.s)>>)
  /\ Idle

CopyQueue ==
  /\ At("CopyQueue")
  /\ Go(<<Frame("RemoveRunning", Top.s,
                [i \in DOMAIN animation_queue_ |->
                   [sequence |-> animation_queue_[i], start_time |-> 0]], Top.time)>>)
  /\ Idle

\* The next of the copy is still there and animates a common property.
RemoveOne(r) ==
  HasAnimation(r.sequence) /\ heap[r.sequence].props \cap heap[Top.s].props # {}

RemoveRunning ==
  /\ At("RemoveRunning")
  /\ IF Top.copy = <<>> THEN Go(<<>>) /\ UNCHANGED animator
     ELSE LET r == Head(Top.copy) IN
          IF RemoveOne(r)
          THEN /\ RemoveAnimation(r.sequence)
               /\ Go(<<On(IF Top.time = 1 THEN "Aborted" ELSE "Ended", r.sequence),
                       On("Delete", r.sequence), NextOne>>)
          ELSE Go(<<NextOne>>) /\ UNCHANGED animator
  /\ UNCHANGED <<heap, now, calls, died>>

AddStart ==
  /\ At("AddStart")
  /\ animation_queue_' = AddToQueueIfNotPresent(Top.s)
  /\ Go(<<On("StartSequence", Top.s)>>)
  /\ UNCHANGED <<heap, running_animations_, last_step_time_, is_started_, now, calls, died>>

EnqueueNewAnimation ==
  /\ At("enqueue")
  /\ animation_queue_' = Append(animation_queue_, Top.s)
  /\ Go(<<Call("ProcessQueue")>>)
  /\ UNCHANGED <<heap, running_animations_, last_step_time_, is_started_, now, calls, died>>

\* One turn of the loop: the first sequence that is not running is deleted, or
\* there is none.
ReplaceQueuedAnimations ==
  LET idle == {i \in DOMAIN animation_queue_ : animation_queue_[i] \notin Running} IN
  /\ At("replace")
  /\ animation_queue_' = IF idle = {} THEN Append(animation_queue_, Top.s)
                          ELSE RemoveAt(animation_queue_, Min(idle))
  /\ Delete(IF idle = {} THEN {} ELSE {animation_queue_[Min(idle)]})
  /\ Go(IF idle = {} THEN <<Call("ProcessQueue")>> ELSE <<Top>>)
  /\ UNCHANGED <<running_animations_, last_step_time_, is_started_, now, calls, died>>

-----------------------------------------------------------------------------
(* Time, and the AnimationContainer's timer *)

Tick ==
  /\ ~died /\ stack = <<>> /\ now < MaxTime
  /\ is_started_ => now - last_step_time_ < MaxLag
  /\ now' = now + 1
  /\ UNCHANGED <<heap, animator, stack, calls, died>>

\* Variant: Step is given the time of the last step.
Run_Stale ==
  /\ ~died /\ stack = <<>> /\ is_started_
  /\ stack' = <<Frame("Step", Null, running_animations_, last_step_time_)>>
  /\ UNCHANGED <<heap, animator, now, calls, died>>

\* AnimationContainer::Run: Step(now).
Run ==
  /\ ~died /\ stack = <<>> /\ is_started_
  /\ last_step_time_' = now
  /\ stack' = <<Frame("Step", Null, running_animations_, now)>>
  /\ UNCHANGED <<heap, animation_queue_, running_animations_, is_started_, now, calls, died>>

-----------------------------------------------------------------------------

Init ==
  /\ heap = [s \in Addresses |-> Null]
  /\ animation_queue_ = <<>> /\ running_animations_ = <<>>
  /\ last_step_time_ = 0 /\ is_started_ = FALSE
  /\ now = 1 /\ stack = <<>> /\ calls = 0 /\ died = FALSE

Client ==
  \/ \E s \in Addresses, k \in Kinds :
       ScheduleAnimation(s, k) \/ \E p \in Strategies : StartAnimation(s, k, p)
  \/ StopAnimating
  \/ \E p \in UNION {k.props : k \in Kinds} : StopAnimatingProperty(p)

Code ==
  \/ Schedule \/ StartSequenceImmediately \/ ProcessQueue \/ UpdateAnimationState
  \/ FinishAnimation \/ Notified \/ DeleteRemoved
  \/ StepOne \/ Zero \/ ZeroOne \/ RemoveDelete \/ Stop \/ StopProperty
  \/ ImmediatelySetNewTarget \/ ImmediatelyAnimateToNewTarget \/ CopyQueue
  \/ RemoveRunning \/ AddStart \/ EnqueueNewAnimation \/ ReplaceQueuedAnimations

Next == Client \/ Code \/ Tick \/ Run

Spec == Init /\ [][Next]_vars

\* The timer fires while the animator is started, time goes on, and calls return.
FairSpec == Spec /\ WF_vars(Code) /\ WF_vars(Run) /\ SF_vars(Tick)

-----------------------------------------------------------------------------
(* Properties *)

\* What frames hold: the sequence exists where the frame's step reads it.
Reads == {"StartSequence", "Schedule", "Finish", "Delete", "set", "animate", "enqueue",
          "replace", "RemoveRunning", "CopyQueue", "AddStart"}

TypeOK ==
  /\ heap \in [Addresses -> Kinds \cup {Null}]
  /\ animation_queue_ \in Seq(Addresses) /\ IsInjective(animation_queue_)
  /\ Running \subseteq Addresses
  /\ now \in 0 .. MaxTime /\ calls \in 0 .. MaxCalls
  /\ is_started_ \in BOOLEAN /\ died \in BOOLEAN

\* Nobody uses a sequence that has been deleted: the queued and running ones
\* exist, and so does the one each call in progress is about to use.
NoUseAfterDelete ==
  /\ \A s \in Range(animation_queue_) \cup Running : heap[s] # Null
  /\ stack # <<>> /\ Top.function \in Reads => heap[Top.s] # Null

\* StartSequenceImmediately: no property is animated by two running sequences,
\* and the running ones are owned, whatever observers do in between.
OneAnimationPerProperty ==
  /\ Running \subseteq Range(animation_queue_)
  /\ \A i, j \in 1 .. Len(running_animations_) : i # j =>
       heap[running_animations_[i].sequence].props
         \cap heap[running_animations_[j].sequence].props = {}

\* Between calls nothing that could run waits, the timer runs if and only if
\* there is something to animate, and the sequences that exist are the animator's.
Settled ==
  stack = <<>> /\ ~died =>
    /\ Startable = 0
    /\ is_started_ = is_animating
    /\ {s \in Addresses : heap[s] # Null} = Range(animation_queue_)

\* Every animation comes to its end, queued, preempted or started by an observer:
\* when nobody calls any more (CallsUntil), the animator comes to have none left.
AllEnd == []<>(died \/ \A s \in Addresses : heap[s] = Null)

\* StopAnimating "Stops all animation and clears any queued animations": it finds
\* a running animation as long as there is any.
StopFindsRunning == ~died

\* Step: an animation that it finishes has run for its duration.
FinishedInTime ==
  At("Step") /\ Top.copy # <<>> =>
    LET r == Head(Top.copy) IN
    r.sequence \in Running /\ Top.time - r.start_time >= heap[r.sequence].duration
      => r \in Range(running_animations_)

\* The animator, its queue, its running animations and the sequences on the heap
\* agree, in the middle of its loops and between calls.
AnimatorSound == TypeOK /\ NoUseAfterDelete /\ OneAnimationPerProperty /\ Settled
=============================================================================
