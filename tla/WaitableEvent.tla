---------------------------- MODULE WaitableEvent ----------------------------
(***************************************************************************)
(* base/synchronization/waitable_event_posix.cc: events made of a flag, a  *)
(* wait-list and a lock.  A blocked thread has a SyncWaiter on its stack,  *)
(* with a lock of its own, in the list of every event it waits for; a      *)
(* signaller goes through the list and fires waiters until one accepts.    *)
(*                                                                         *)
(* Events are numbered by address.  A step is what a thread does up to the *)
(* next lock it has to take while somebody else may hold it; locks that    *)
(* are held beyond a step are variables.                                   *)
(***************************************************************************)
EXTENDS Integers, FiniteSets, SequencesExt

CONSTANTS
  Events,       \* a set of numbers: the addresses
  ManualReset,  \* the events constructed with manual_reset
  Threads,
  WaitLists,    \* the arrays given to WaitMany
  MaxCalls,     \* bound: calls made in all, and wake-ups of cv_ for no reason
  NoThread, NoEvent

ASSUME ConstantsAssumption ==
  /\ Events \subseteq Nat /\ IsFiniteSet(Events) /\ NoEvent \notin Events
  /\ ManualReset \subseteq Events
  /\ NoThread \notin Threads
  /\ WaitLists \subseteq Seq(Events)
  /\ \A raw \in WaitLists : IsInjective(raw) /\ raw # <<>>
  /\ MaxCalls \in Nat

VARIABLES
  lock_, signaled_, waiters_,   \* of each event's kernel
  sw,                           \* the SyncWaiter of each thread
  thread,                       \* where each thread is, and its arguments
  calls                         \* calls, and wake-ups for no reason, so far

vars == <<lock_, signaled_, waiters_, sw, thread, calls>>

\* pc: "EnqueueMany" takes the kernel locks, "check" holds the waiter's lock,
\* "blocked" is in cv_, "dequeue" leaves the wait-lists.
Points == {"idle", "SignalOne", "SignalAll", "EnqueueMany", "check", "blocked",
           "dequeue"}

\* raw: the array of events; many: WaitMany or TimedWait; finite: max_time >= 0;
\* expired: cv_.TimedWait() ended at the time limit; pos: the waiter to fire or
\* the event to leave next; return_value: of TimedWait.
NoOperation == [pc |-> "idle", event |-> NoEvent, raw |-> <<>>, many |-> FALSE,
                finite |-> FALSE, expired |-> FALSE, pos |-> 0,
                return_value |-> FALSE]
NoWaiter == [fired_ |-> FALSE, signaling_event_ |-> NoEvent, lock_ |-> NoThread,
             broadcast |-> FALSE]

At(t, pc)    == thread[t].pc = pc
Waitables(t) == Range(thread[t].raw)
Locked(t)    == {e \in Events : lock_[e] = t}

Call(t) == At(t, "idle") /\ calls < MaxCalls /\ calls' = calls + 1

-----------------------------------------------------------------------------
(* The kernel *)

Consume(e) == signaled_' = IF e \in ManualReset THEN signaled_
                           ELSE [signaled_ EXCEPT ![e] = FALSE]

\* SyncWaiter::Fire, under the waiter's lock.  Whether it accepts is ~fired_.
Fire(u, event) ==
  /\ sw[u].lock_ = NoThread
  /\ sw' = IF sw[u].fired_ THEN sw
           ELSE [sw EXCEPT ![u].fired_ = TRUE, ![u].signaling_event_ = event,
                           ![u].broadcast = TRUE]

Enqueue(list, t) == Append(list, t)

Dequeue(e, t) == waiters_' = [waiters_ EXCEPT ![e] = RemoveFirst(@, t)]

-----------------------------------------------------------------------------
(* Signal, Reset, IsSignaled *)

Reset(t, e) ==
  /\ Call(t)
  /\ lock_[e] = NoThread
  /\ signaled_' = [signaled_ EXCEPT ![e] = FALSE]
  /\ UNCHANGED <<lock_, waiters_, sw, thread>>

IsSignaled(t, e) ==
  /\ Call(t)
  /\ lock_[e] = NoThread
  /\ signaled_[e]
  /\ Consume(e)
  /\ UNCHANGED <<lock_, waiters_, sw, thread>>

\* Signal takes the lock; a signaled event is left as it is.
Signal(t, e) ==
  /\ Call(t)
  /\ lock_[e] = NoThread
  /\ ~signaled_[e]
  /\ lock_' = [lock_ EXCEPT ![e] = t]
  /\ thread' = [thread EXCEPT ![t] =
       [NoOperation EXCEPT !.pc = IF e \in ManualReset THEN "SignalAll" ELSE "SignalOne",
                           !.event = e, !.pos = 1]]
  /\ UNCHANGED <<signaled_, waiters_, sw>>

\* SignalOne: nobody (left) in the list, the event stays signaled ...
SignalOneNone(t) ==
  LET e == thread[t].event IN
  /\ At(t, "SignalOne") /\ waiters_[e] = <<>>
  /\ signaled_' = [signaled_ EXCEPT ![e] = TRUE]
  /\ lock_' = [lock_ EXCEPT ![e] = NoThread]
  /\ thread' = [thread EXCEPT ![t] = NoOperation]
  /\ UNCHANGED <<waiters_, sw, calls>>

\* ... or the first waiter is fired and popped; the search ends if it accepts.
SignalOneFire(t) ==
  LET e == thread[t].event
      u == Head(waiters_[e]) IN
  /\ At(t, "SignalOne") /\ waiters_[e] # <<>>
  /\ Fire(u, e)
  /\ waiters_' = [waiters_ EXCEPT ![e] = Tail(@)]
  /\ IF sw[u].fired_
     THEN UNCHANGED <<lock_, thread>>
     ELSE /\ lock_' = [lock_ EXCEPT ![e] = NoThread]
          /\ thread' = [thread EXCEPT ![t] = NoOperation]
  /\ UNCHANGED <<signaled_, calls>>

\* SignalAll fires the waiters in turn and clears the list at the end.
SignalAllFire(t) ==
  LET e == thread[t].event IN
  /\ At(t, "SignalAll") /\ thread[t].pos <= Len(waiters_[e])
  /\ Fire(waiters_[e][thread[t].pos], e)
  /\ thread' = [thread EXCEPT ![t].pos = @ + 1]
  /\ UNCHANGED <<lock_, signaled_, waiters_, calls>>

SignalAllDone(t) ==
  LET e == thread[t].event IN
  /\ At(t, "SignalAll") /\ thread[t].pos > Len(waiters_[e])
  /\ waiters_' = [waiters_ EXCEPT ![e] = <<>>]
  /\ signaled_' = [signaled_ EXCEPT ![e] = TRUE]
  /\ lock_' = [lock_ EXCEPT ![e] = NoThread]
  /\ thread' = [thread EXCEPT ![t] = NoOperation]
  /\ UNCHANGED <<sw, calls>>

-----------------------------------------------------------------------------
(* TimedWait, and Wait, which has no time limit *)

TimedWaitSignaled(t, e) ==
  /\ Call(t)
  /\ lock_[e] = NoThread
  /\ signaled_[e]
  /\ Consume(e)
  /\ UNCHANGED <<lock_, waiters_, sw, thread>>

\* The waiter is enqueued with its lock held, and the kernel's lock released.
TimedWaitEnqueue(t, e, finite) ==
  /\ Call(t)
  /\ lock_[e] = NoThread
  /\ ~signaled_[e]
  /\ sw' = [sw EXCEPT ![t] = [NoWaiter EXCEPT !.lock_ = t]]
  /\ waiters_' = [waiters_ EXCEPT ![e] = Enqueue(@, t)]
  /\ thread' = [thread EXCEPT ![t] =
       [NoOperation EXCEPT !.pc = "check", !.raw = <<e>>, !.finite = finite]]
  /\ UNCHANGED <<lock_, signaled_>>

\* Variant: Disable is left out.
TimedWaitEnd_NoDisable(t) ==
  /\ At(t, "check") /\ ~thread[t].many
  /\ sw[t].fired_ \/ thread[t].finite
  /\ sw' = [sw EXCEPT ![t].lock_ = NoThread]
  /\ thread' = [thread EXCEPT ![t].pc = "dequeue", ![t].pos = 1,
                              ![t].return_value = sw[t].fired_]
  /\ UNCHANGED <<lock_, signaled_, waiters_, calls>>

\* Fired, or out of time (max_time may be 0, or have passed meanwhile): Disable makes the waiter refuse a late signal.
TimedWaitEnd(t) ==
  /\ At(t, "check") /\ ~thread[t].many
  /\ sw[t].fired_ \/ thread[t].finite
  /\ sw' = [sw EXCEPT ![t].fired_ = TRUE, ![t].lock_ = NoThread]
  /\ thread' = [thread EXCEPT ![t].pc = "dequeue", ![t].pos = 1,
                              ![t].return_value = sw[t].fired_]
  /\ UNCHANGED <<lock_, signaled_, waiters_, calls>>

\* Variant: a list that a signaller is working on is left alone.
TimedWaitDequeue_Busy(t) ==
  LET e == thread[t].raw[1] IN
  /\ At(t, "dequeue") /\ ~thread[t].many
  /\ IF lock_[e] = NoThread THEN Dequeue(e, t) ELSE UNCHANGED waiters_
  /\ sw' = [sw EXCEPT ![t] = NoWaiter]
  /\ thread' = [thread EXCEPT ![t] = NoOperation]
  /\ UNCHANGED <<lock_, signaled_, calls>>

TimedWaitDequeue(t) ==
  LET e == thread[t].raw[1] IN
  /\ At(t, "dequeue") /\ ~thread[t].many
  /\ lock_[e] = NoThread
  /\ Dequeue(e, t)
  /\ sw' = [sw EXCEPT ![t] = NoWaiter]
  /\ thread' = [thread EXCEPT ![t] = NoOperation]
  /\ UNCHANGED <<lock_, signaled_, calls>>

\* cv_.Wait() or cv_.TimedWait() releases the waiter's lock ...
CvWait(t) ==
  /\ At(t, "check") /\ ~sw[t].fired_ /\ ~thread[t].expired
  /\ sw' = [sw EXCEPT ![t].lock_ = NoThread]
  /\ thread' = [thread EXCEPT ![t].pc = "blocked"]
  /\ UNCHANGED <<lock_, signaled_, waiters_, calls>>

\* ... and returns with it: after a broadcast, a timeout, or for no reason.
CvWake(t, expired) ==
  /\ At(t, "blocked")
  /\ sw[t].lock_ = NoThread
  /\ sw' = [sw EXCEPT ![t].lock_ = t]
  /\ thread' = [thread EXCEPT ![t].pc = "check", ![t].expired = expired]
  /\ UNCHANGED <<lock_, signaled_, waiters_>>

CvWakeBroadcast(t) == sw[t].broadcast /\ CvWake(t, FALSE) /\ UNCHANGED calls
CvWakeTimeout(t)   == thread[t].finite /\ CvWake(t, TRUE) /\ UNCHANGED calls
CvWakeSpurious(t)  == calls < MaxCalls /\ CvWake(t, FALSE) /\ calls' = calls + 1

-----------------------------------------------------------------------------
(* WaitMany *)

WaitMany(t, raw) ==
  /\ Call(t)
  /\ thread' = [thread EXCEPT ![t] =
       [NoOperation EXCEPT !.pc = "EnqueueMany", !.raw = raw, !.many = TRUE]]
  /\ UNCHANGED <<lock_, signaled_, waiters_, sw>>

\* Variant: the locks are taken in the order of the array.
NextLock_Unsorted(t) ==
  thread[t].raw[1 + Cardinality(Locked(t))]

\* The array is sorted by address before the locks are taken.
NextLock(t) ==
  CHOOSE e \in Waitables(t) \ Locked(t) :
    \A d \in Waitables(t) \ Locked(t) : e <= d

\* EnqueueMany takes one more lock; a signaled event ends the wait and every
\* lock is released ...
EnqueueManySignaled(t) ==
  LET e == NextLock(t) IN
  /\ At(t, "EnqueueMany")
  /\ lock_[e] = NoThread
  /\ signaled_[e]
  /\ Consume(e)
  /\ lock_' = [d \in Events |-> IF d \in Locked(t) THEN NoThread ELSE lock_[d]]
  /\ thread' = [thread EXCEPT ![t] = NoOperation]
  /\ UNCHANGED <<waiters_, sw, calls>>

EnqueueManyLock(t) ==
  LET e == NextLock(t) IN
  /\ At(t, "EnqueueMany")
  /\ Waitables(t) \ Locked(t) # {e}
  /\ lock_[e] = NoThread
  /\ ~signaled_[e]
  /\ lock_' = [lock_ EXCEPT ![e] = t]
  /\ UNCHANGED <<signaled_, waiters_, sw, thread, calls>>

\* ... and with the last lock the waiter enters every list, its own lock is
\* taken and the kernels' locks are released.
EnqueueManyLast(t) ==
  LET e == NextLock(t) IN
  /\ At(t, "EnqueueMany")
  /\ Waitables(t) \ Locked(t) = {e}
  /\ lock_[e] = NoThread
  /\ ~signaled_[e]
  /\ waiters_' = [d \in Events |-> IF d \in Waitables(t) THEN Enqueue(waiters_[d], t)
                                   ELSE waiters_[d]]
  /\ lock_' = [d \in Events |-> IF d \in Locked(t) THEN NoThread ELSE lock_[d]]
  /\ sw' = [sw EXCEPT ![t] = [NoWaiter EXCEPT !.lock_ = t]]
  /\ thread' = [thread EXCEPT ![t].pc = "check"]
  /\ UNCHANGED <<signaled_, calls>>

WaitManyFired(t) ==
  /\ At(t, "check") /\ thread[t].many
  /\ sw[t].fired_
  /\ sw' = [sw EXCEPT ![t].lock_ = NoThread]
  /\ thread' = [thread EXCEPT ![t].pc = "dequeue", ![t].pos = 1,
                              ![t].return_value = TRUE]
  /\ UNCHANGED <<lock_, signaled_, waiters_, calls>>

\* The waiter leaves the lists of the other events, one after the other; the
\* signaled event has taken it off its own list.
WaitManyDequeue(t) ==
  LET e == thread[t].raw[thread[t].pos] IN
  /\ At(t, "dequeue") /\ thread[t].many
  /\ thread[t].pos <= Len(thread[t].raw)
  /\ IF e = sw[t].signaling_event_ THEN UNCHANGED waiters_
     ELSE lock_[e] = NoThread /\ Dequeue(e, t)
  /\ thread' = [thread EXCEPT ![t].pos = @ + 1]
  /\ UNCHANGED <<lock_, signaled_, sw, calls>>

WaitManyReturn(t) ==
  /\ At(t, "dequeue") /\ thread[t].many
  /\ thread[t].pos > Len(thread[t].raw)
  /\ sw' = [sw EXCEPT ![t] = NoWaiter]
  /\ thread' = [thread EXCEPT ![t] = NoOperation]
  /\ UNCHANGED <<lock_, signaled_, waiters_, calls>>

-----------------------------------------------------------------------------

Init ==
  /\ lock_ = [e \in Events |-> NoThread]
  /\ signaled_ \in [Events -> BOOLEAN]
  /\ waiters_ = [e \in Events |-> <<>>]
  /\ sw = [t \in Threads |-> NoWaiter]
  /\ thread = [t \in Threads |-> NoOperation]
  /\ calls = 0

NewCall(t) ==
  \/ \E e \in Events : \/ Reset(t, e) \/ IsSignaled(t, e) \/ Signal(t, e)
                       \/ TimedWaitSignaled(t, e)
                       \/ \E finite \in BOOLEAN : TimedWaitEnqueue(t, e, finite)
  \/ \E raw \in WaitLists : WaitMany(t, raw)

Step(t) ==
  \/ SignalOneNone(t) \/ SignalOneFire(t) \/ SignalAllFire(t) \/ SignalAllDone(t)
  \/ TimedWaitEnd(t) \/ TimedWaitDequeue(t)
  \/ CvWait(t) \/ CvWakeBroadcast(t) \/ CvWakeTimeout(t) \/ CvWakeSpurious(t)
  \/ EnqueueManySignaled(t) \/ EnqueueManyLock(t) \/ EnqueueManyLast(t)
  \/ WaitManyFired(t) \/ WaitManyDequeue(t) \/ WaitManyReturn(t)

Next == \E t \in Threads : NewCall(t) \/ Step(t)

Spec == Init /\ [][Next]_vars

-----------------------------------------------------------------------------
(* Properties *)

TypeOK ==
  /\ lock_ \in [Events -> Threads \cup {NoThread}]
  /\ signaled_ \in [Events -> BOOLEAN]
  /\ \A e \in Events : waiters_[e] \in Seq(Threads) /\ IsInjective(waiters_[e])
  /\ sw \in [Threads -> [fired_ : BOOLEAN, signaling_event_ : Events \cup {NoEvent},
                         lock_ : Threads \cup {NoThread}, broadcast : BOOLEAN]]
  /\ \A t \in Threads : thread[t].pc \in Points
  /\ calls \in 0 .. MaxCalls

\* The SyncWaiter of t exists.
Live(t) == thread[t].pc \in {"check", "blocked", "dequeue"}

\* Its wait has not been answered.
Sleeping(t) == thread[t].pc \in {"check", "blocked"} /\ ~sw[t].fired_

\* A blocked thread is in the list of every event it waits for, and a signaled
\* event has no waiter left that would accept: nobody sleeps beside a signal.
NoMissedSignal ==
  \A e \in Events, t \in Threads :
    Sleeping(t) /\ e \in Waitables(t)
      => ~signaled_[e] /\ t \in Range(waiters_[e])

\* A SyncWaiter is on the stack: a signaller fires it only while it exists,
\* although WaitMany returns without the lock of the event that woke it.
FiresLiveWaiters ==
  \A t \in Threads :
    /\ At(t, "SignalOne") /\ waiters_[thread[t].event] # <<>>
         => Live(Head(waiters_[thread[t].event]))
    /\ At(t, "SignalAll") /\ thread[t].pos <= Len(waiters_[thread[t].event])
         => Live(waiters_[thread[t].event][thread[t].pos])

\* No pointer to a SyncWaiter stays behind in a list nobody is working on.
NoStaleWaiter ==
  \A e \in Events, t \in Threads :
    lock_[e] = NoThread /\ t \in Range(waiters_[e]) => Live(t) /\ e \in Waitables(t)

\* The lock a thread needs for its next step, and who has it.
BlockedBy(t) ==
  CASE At(t, "EnqueueMany") -> {lock_[NextLock(t)]}
    [] At(t, "SignalOne") /\ waiters_[thread[t].event] # <<>> ->
         {sw[Head(waiters_[thread[t].event])].lock_}
    [] At(t, "SignalAll") /\ thread[t].pos <= Len(waiters_[thread[t].event]) ->
         {sw[waiters_[thread[t].event][thread[t].pos]].lock_}
    [] At(t, "dequeue") /\ thread[t].pos <= Len(thread[t].raw) ->
         {lock_[thread[t].raw[thread[t].pos]]}
    [] OTHER -> {}

\* The lock orders (kernels by address, then waiters) leave no cycle: no set of
\* threads waits for locks held within the set.
NoLockCycle ==
  \A S \in SUBSET Threads : S # {} => \E t \in S : BlockedBy(t) \cap S = {}

\* The event promised by the header, step by step: no signal is lost, none is
\* given twice, and a wait that times out takes none with it.
Contract == INSTANCE EventContract WITH
  signaled  <- {e \in Events : signaled_[e]},
  signaling <- [t \in Threads |-> thread[t].event],
  waiting   <- [t \in Threads |->
                  IF Sleeping(t) THEN Waitables(t) ELSE {}],
  patient   <- {t \in Threads : Sleeping(t) /\ ~thread[t].finite},
  given     <- [t \in Threads |->
                  IF \/ thread[t].pc \in {"check", "blocked"} /\ sw[t].fired_
                     \/ At(t, "dequeue") /\ thread[t].return_value
                  THEN sw[t].signaling_event_ ELSE NoEvent]

ImplementsContract == Contract!Spec

\* A signal wakes: a thread whose waiter was fired does not sleep on without a
\* broadcast that it has not seen.
FiredIsWoken ==
  \A t \in Threads : At(t, "blocked") /\ sw[t].fired_ => sw[t].broadcast

\* The lists of waiters and the waiters agree at every step of signallers and
\* waiters: nobody sleeps beside a signal or a fired waiter, and no waiter is
\* reached after its thread has left.
WaitersSound ==
  TypeOK /\ NoMissedSignal /\ FiresLiveWaiters /\ NoStaleWaiter /\ FiredIsWoken
=============================================================================
