------------------------ MODULE WaitableEventWatcher ------------------------
(***************************************************************************)
(* base/synchronization/waitable_event_watcher_posix.cc: an AsyncWaiter in *)
(* the wait-list of an event posts a callback to the watcher's MessageLoop *)
(* when another thread signals the event; a Flag, one per watch, tells     *)
(* everybody on the way that the watch is over.                            *)
(*                                                                         *)
(* The watchers live on one loop thread.  Signals come from another one,   *)
(* which holds the kernel's lock while it fires the waiters.  Waiters are  *)
(* heap objects: an address is free again once its waiter is deleted, and  *)
(* may then be that of another watcher's waiter.                           *)
(***************************************************************************)
EXTENDS Integers, SequencesExt

CONSTANTS
  Events, ManualReset,
  Watchers,
  Addresses,    \* where AsyncWaiters are allocated
  MaxWatches,   \* bound: calls of StartWatching; a watch is known by its Flag
  MaxSignals,   \* bound: calls of Signal
  None

ASSUME ConstantsAssumption ==
  /\ ManualReset \subseteq Events
  /\ MaxWatches \in Nat /\ MaxSignals \in Nat
  /\ None \notin Events \cup Addresses \cup Nat

Flags == 1 .. MaxWatches

VARIABLES
  kernel,    \* of each event: its lock_, signaled_ and waiters_ (addresses)
  deleted,   \* the events whose WaitableEvent is gone; kernels are counted
  heap,      \* the AsyncWaiter at each address: its flag_, or None
  flag_,     \* the flags that are set
  watcher,   \* the fields of each WaitableEventWatcher
  loop,      \* its state, the callbacks posted to it, its destruction observers
  signaler,  \* the thread in Signal
  watches, signals,  \* calls so far
  stopped,   \* history: the watches StopWatching has ended
  called     \* history: the watches whose delegate was called

vars == <<kernel, deleted, heap, flag_, watcher, loop, signaler, watches, signals,
          stopped, called>>

NoWatch == [cancel_flag_ |-> None, waiter_ |-> None, kernel_ |-> None,
            observing |-> FALSE]
Quiet == [pc |-> "idle", event |-> None]

-----------------------------------------------------------------------------
(* The signalling thread *)

Signal(e) ==
  /\ signaler.pc = "idle" /\ signals < MaxSignals
  /\ e \notin deleted /\ ~kernel[e].signaled_
  /\ signals' = signals + 1
  /\ IF kernel[e].waiters_ = <<>>
     THEN /\ kernel' = [kernel EXCEPT ![e].signaled_ = TRUE]
          /\ UNCHANGED signaler
     ELSE /\ kernel' = [kernel EXCEPT ![e].lock_ = TRUE]
          /\ signaler' = [pc |-> "Fire", event |-> e]
  /\ UNCHANGED <<deleted, heap, flag_, watcher, loop, watches, stopped, called>>

\* AsyncWaiter::Fire reads the flag: a watch that is over posts nothing.  The
\* loop thread goes on between the test and the post.
FireCheck ==
  LET a == Head(kernel[signaler.event].waiters_) IN
  /\ signaler.pc = "Fire"
  /\ signaler' = [signaler EXCEPT !.pc = IF heap[a] \in flag_ THEN "delete" ELSE "PostTask"]
  /\ UNCHANGED <<kernel, deleted, heap, flag_, watcher, loop, watches, signals,
                 stopped, called>>

FirePost ==
  LET e == signaler.event
      a == Head(kernel[e].waiters_) IN
  /\ signaler.pc = "PostTask"
  /\ loop' = [loop EXCEPT !.queue = Append(@, [flag |-> heap[a], event |-> e])]
  /\ signaler' = [signaler EXCEPT !.pc = "delete"]
  /\ UNCHANGED <<kernel, deleted, heap, flag_, watcher, watches, signals, stopped, called>>

\* The waiter deletes itself, leaves the list and has accepted the signal: an
\* automatic-reset event is done, a manual-reset one goes on to the next waiter.
FireDelete ==
  LET e == signaler.event
      rest == Tail(kernel[e].waiters_)
      more == e \in ManualReset /\ rest # <<>> IN
  /\ signaler.pc = "delete"
  /\ heap' = [heap EXCEPT ![Head(kernel[e].waiters_)] = None]
  /\ kernel' = [kernel EXCEPT ![e] =
       [lock_ |-> more, waiters_ |-> rest, signaled_ |-> ~more /\ e \in ManualReset]]
  /\ signaler' = IF more THEN [signaler EXCEPT !.pc = "Fire"] ELSE Quiet
  /\ UNCHANGED <<deleted, flag_, watcher, loop, watches, signals, stopped, called>>

\* Reset, by any thread.
Reset(e) ==
  /\ e \notin deleted /\ ~kernel[e].lock_ /\ kernel[e].signaled_
  /\ kernel' = [kernel EXCEPT ![e].signaled_ = FALSE]
  /\ UNCHANGED <<deleted, heap, flag_, watcher, loop, signaler, watches, signals,
                 stopped, called>>

\* The event may go while it is watched; the watchers keep its kernel.
DeleteEvent(e) ==
  /\ e \notin deleted /\ ~kernel[e].lock_
  /\ deleted' = deleted \cup {e}
  /\ UNCHANGED <<kernel, heap, flag_, watcher, loop, signaler, watches, signals,
                 stopped, called>>

-----------------------------------------------------------------------------
(* The loop thread *)

\* The watch of w is over, or there is none: StartWatching may be called.
Finished(w) == watcher[w].cancel_flag_ = None \/ watcher[w].cancel_flag_ \in flag_

\* StartWatching on a signaled event posts the callback at once.  kernel_ and
\* waiter_ are left as an earlier watch set them.
StartSignaled(w, e) ==
  LET f == watches + 1 IN
  /\ loop.state = "alive" /\ Finished(w) /\ watches < MaxWatches
  /\ e \notin deleted /\ ~kernel[e].lock_ /\ kernel[e].signaled_
  /\ watches' = f
  /\ watcher' = [watcher EXCEPT ![w].cancel_flag_ = f, ![w].observing = FALSE]
  /\ kernel' = [kernel EXCEPT ![e].signaled_ = e \in ManualReset]
  /\ loop' = [loop EXCEPT !.queue = Append(@, [flag |-> f, event |-> e]),
                          !.observers = @ \ {w}]
  /\ UNCHANGED <<deleted, heap, flag_, signaler, signals, stopped, called>>

\* Otherwise an AsyncWaiter, at any free address, enters the wait-list.
StartEnqueue(w, e, a) ==
  LET f == watches + 1 IN
  /\ loop.state = "alive" /\ Finished(w) /\ watches < MaxWatches
  /\ e \notin deleted /\ ~kernel[e].lock_ /\ ~kernel[e].signaled_
  /\ heap[a] = None
  /\ watches' = f
  /\ heap' = [heap EXCEPT ![a] = f]
  /\ watcher' = [watcher EXCEPT ![w] =
       [cancel_flag_ |-> f, waiter_ |-> a, kernel_ |-> e, observing |-> TRUE]]
  /\ kernel' = [kernel EXCEPT ![e].waiters_ = Append(@, a)]
  /\ loop' = [loop EXCEPT !.observers = @ \cup {w}]
  /\ UNCHANGED <<deleted, flag_, signaler, signals, stopped, called>>

\* Variant: the address alone decides.
Matches_Address(w) ==
  watcher[w].waiter_ \in Range(kernel[watcher[w].kernel_].waiters_)

\* Dequeue finds a waiter at this address, and Compare finds this flag in it.
Matches(w) ==
  LET self == watcher[w] IN
  /\ self.waiter_ \in Range(kernel[self.kernel_].waiters_)
  /\ heap[self.waiter_] = self.cancel_flag_

\* StopWatching: of a watch whose flag is set, or of none, nothing is left to do;
\* without a kernel the callback is in the queue; a waiter that is in the list
\* is taken off and deleted; one that is not has been fired.
StopCompleted(w) == Finished(w) /\ UNCHANGED <<kernel, heap, flag_>>

StopPosted(w) ==
  /\ ~Finished(w) /\ watcher[w].kernel_ = None
  /\ flag_' = flag_ \cup {watcher[w].cancel_flag_}
  /\ UNCHANGED <<kernel, heap>>

StopDequeue(w) ==
  LET self == watcher[w] IN
  /\ ~Finished(w) /\ self.kernel_ # None
  /\ ~kernel[self.kernel_].lock_ /\ Matches(w)
  /\ kernel' = [kernel EXCEPT ![self.kernel_].waiters_ = RemoveFirst(@, self.waiter_)]
  /\ heap' = [heap EXCEPT ![self.waiter_] = None]
  /\ UNCHANGED flag_

\* Variant: the flag is forgotten.
StopFired_NoSet(w) ==
  LET self == watcher[w] IN
  /\ ~Finished(w) /\ self.kernel_ # None
  /\ ~kernel[self.kernel_].lock_ /\ ~Matches(w)
  /\ UNCHANGED <<kernel, heap, flag_>>

StopFired(w) ==
  LET self == watcher[w] IN
  /\ ~Finished(w) /\ self.kernel_ # None
  /\ ~kernel[self.kernel_].lock_ /\ ~Matches(w)
  /\ flag_' = flag_ \cup {self.cancel_flag_}
  /\ UNCHANGED <<kernel, heap>>

StopWatching(w) ==
  /\ StopCompleted(w) \/ StopPosted(w) \/ StopDequeue(w) \/ StopFired(w)
  /\ watcher' = [watcher EXCEPT ![w].cancel_flag_ = None, ![w].observing = FALSE]
  /\ loop' = [loop EXCEPT !.observers = @ \ {w}]
  /\ stopped' = stopped \cup ({watcher[w].cancel_flag_} \ {None})

\* Called by the user, or by ~WaitableEventWatcher (a new watcher then takes w).
UserStop(w) ==
  /\ loop.state # "destroying"
  /\ watcher[w].cancel_flag_ # None \/ watcher[w].observing
  /\ StopWatching(w)
  /\ UNCHANGED <<deleted, signaler, watches, signals, called>>

DestroyWatcher(w) ==
  /\ loop.state # "destroying"
  /\ StopCompleted(w) \/ StopPosted(w) \/ StopDequeue(w) \/ StopFired(w)
  /\ watcher[w] # NoWatch
  /\ watcher' = [watcher EXCEPT ![w] = NoWatch]
  /\ loop' = [loop EXCEPT !.observers = @ \ {w}]
  /\ stopped' = stopped \cup ({watcher[w].cancel_flag_} \ {None})
  /\ UNCHANGED <<deleted, signaler, watches, signals, called>>

\* Variant: the flag is set before it is tested.
AsyncCallbackHelper_SetFirst ==
  LET task == Head(loop.queue) IN
  /\ loop.state = "alive" /\ loop.queue # <<>>
  /\ loop' = [loop EXCEPT !.queue = Tail(@)]
  /\ flag_' = flag_ \cup {task.flag}
  /\ called' = IF task.flag \in flag_' THEN called ELSE called \cup {task.flag}
  /\ UNCHANGED <<kernel, deleted, heap, watcher, signaler, watches, signals, stopped>>

\* The posted callback: AsyncCallbackHelper.
AsyncCallbackHelper ==
  LET task == Head(loop.queue) IN
  /\ loop.state = "alive" /\ loop.queue # <<>>
  /\ loop' = [loop EXCEPT !.queue = Tail(@)]
  /\ flag_' = flag_ \cup {task.flag}
  /\ called' = IF task.flag \in flag_ THEN called ELSE called \cup {task.flag}
  /\ UNCHANGED <<kernel, deleted, heap, watcher, signaler, watches, signals, stopped>>

\* ~MessageLoop deletes what is queued, tells the observers, one by one, and
\* is gone.
DestroyLoop ==
  /\ loop.state = "alive"
  /\ loop' = [loop EXCEPT !.state = "destroying", !.queue = <<>>]
  /\ UNCHANGED <<kernel, deleted, heap, flag_, watcher, signaler, watches, signals,
                 stopped, called>>

WillDestroyCurrentMessageLoop(w) ==
  /\ loop.state = "destroying" /\ w \in loop.observers
  /\ StopWatching(w)
  /\ UNCHANGED <<deleted, signaler, watches, signals, called>>

LoopGone ==
  /\ loop.state = "destroying" /\ loop.observers = {}
  /\ loop' = [loop EXCEPT !.state = "gone", !.queue = <<>>]
  /\ UNCHANGED <<kernel, deleted, heap, flag_, watcher, signaler, watches, signals,
                 stopped, called>>

-----------------------------------------------------------------------------

Init ==
  /\ kernel = [e \in Events |-> [lock_ |-> FALSE, signaled_ |-> FALSE, waiters_ |-> <<>>]]
  /\ deleted = {}
  /\ heap = [a \in Addresses |-> None]
  /\ flag_ = {}
  /\ watcher = [w \in Watchers |-> NoWatch]
  /\ loop = [state |-> "alive", queue |-> <<>>, observers |-> {}]
  /\ signaler = Quiet
  /\ watches = 0 /\ signals = 0
  /\ stopped = {} /\ called = {}

Fire == FireCheck \/ FirePost \/ FireDelete

Next ==
  \/ Fire
  \/ AsyncCallbackHelper
  \/ \E e \in Events : Signal(e) \/ Reset(e) \/ DeleteEvent(e)
  \/ \E w \in Watchers, e \in Events : StartSignaled(w, e)
  \/ \E w \in Watchers, e \in Events, a \in Addresses : StartEnqueue(w, e, a)
  \/ \E w \in Watchers : \/ UserStop(w) \/ DestroyWatcher(w)
                         \/ WillDestroyCurrentMessageLoop(w)
  \/ DestroyLoop \/ LoopGone

Spec == Init /\ [][Next]_vars

\* The signalling thread goes on, and the loop runs what is posted to it.
FairSpec == Spec /\ WF_vars(Fire) /\ WF_vars(AsyncCallbackHelper)

-----------------------------------------------------------------------------
(* Properties *)

TypeOK ==
  /\ \A e \in Events : /\ kernel[e].lock_ \in BOOLEAN /\ kernel[e].signaled_ \in BOOLEAN
                       /\ kernel[e].waiters_ \in Seq(Addresses)
                       /\ kernel[e].lock_ <=> signaler.event = e
  /\ deleted \subseteq Events
  /\ heap \in [Addresses -> Flags \cup {None}]
  /\ flag_ \cup stopped \cup called \subseteq 1 .. watches
  /\ loop.state \in {"alive", "destroying", "gone"}
  /\ loop.observers = {w \in Watchers : watcher[w].observing}
  /\ signaler.pc \in {"idle", "Fire", "PostTask", "delete"}

\* A watch that was stopped, by the user or by the end of its loop, is never
\* reported, whatever the signaller was doing.
NoCallAfterStop ==
  [][\A f \in Flags : f \in called' \ called => f \notin stopped]_vars

Firing(f) ==
  /\ signaler.pc \in {"Fire", "PostTask"}
  /\ heap[Head(kernel[signaler.event].waiters_)] = f

\* A watch that is on is armed: its waiter is in the list, or being fired, or
\* its callback is queued.  In particular nobody else's StopWatching takes its
\* waiter away, although addresses come back.
WatchArmed ==
  \A w \in Watchers :
    loop.state = "alive" /\ ~Finished(w) =>
      LET f == watcher[w].cancel_flag_ IN
      \/ Firing(f)
      \/ \E i \in 1 .. Len(loop.queue) : loop.queue[i].flag = f
      \/ \E e \in Events : \E a \in Range(kernel[e].waiters_) : heap[a] = f

\* An event in whose list a waiter remains is not signaled: no watch sleeps
\* beside its signal.
NoSignalBesideWaiter ==
  \A e \in Events : kernel[e].signaled_ => kernel[e].waiters_ = <<>>

\* The waiters in the lists exist, each in one list and once, and belong to a
\* watch nobody has ended: nothing fires, or keeps, a deleted one.
WaitersLive ==
  \A e \in Events : LET list == kernel[e].waiters_ IN
    /\ IsInjective(list)
    /\ \A a \in Range(list) :
         /\ heap[a] # None
         /\ heap[a] \in flag_ \cup stopped =>
              signaler = [pc |-> "delete", event |-> e] /\ a = Head(list)
         /\ \A d \in Events \ {e} : a \notin Range(kernel[d].waiters_)

\* AsyncWaiter keeps a bare pointer to its loop: it posts while the loop exists.
PostsToLivingLoop == signaler.pc = "PostTask" => loop.state # "gone"

\* A signal that finds a watch reaches its delegate, unless the watch is stopped
\* or its loop destroyed on the way.
SignalReported ==
  \A f \in Flags : Firing(f) ~> f \in called \cup stopped \/ loop.state # "alive"

\* The header: an event deleted while it is watched acts "as if the event was
\* never signaled", so no delegate is handed a deleted event.
DeletedNeverSignals ==
  [][loop.queue # <<>> /\ called' # called => Head(loop.queue).event \notin deleted]_vars

\* Watches, waiters and events agree: a watch that is on can be told of a
\* signal, by a waiter that exists, through a loop that exists.
WatchesSound ==
  TypeOK /\ WatchArmed /\ NoSignalBesideWaiter /\ WaitersLive /\ PostsToLivingLoop
=============================================================================
