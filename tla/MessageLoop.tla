----------------------------- MODULE MessageLoop -----------------------------
(***************************************************************************)
(* base/message_loop.cc driven by base/message_pump_default.cc, with the   *)
(* tasks of other threads arriving through base/message_loop_proxy_impl.cc.*)
(*                                                                         *)
(* One loop thread owns the MessageLoop: it runs the pump, runs tasks,     *)
(* enters nested Run() calls from inside a task and finally destroys the   *)
(* loop.  Any number of posters call MessageLoopProxy::Post*Task.  A task  *)
(* of this module is one call of a Post* method; what the closure does     *)
(* when it runs is left open: it may post, quit, or run a nested loop.     *)
(***************************************************************************)
EXTENDS Integers, Sequences, FiniteSets

CONSTANTS
  Tasks,        \* identities of the posts
  Posters,      \* threads other than the loop's
  NoTask,       \* "no PendingTask"
  NoThread,     \* "the lock is free"
  NestedRuns,   \* the ways a task enters a nested Run: [kind, allower] records
  PostKinds,    \* the posts clients make: [delay, nestable] records
  MaxTime,      \* bound: the clock stops here
  MaxDepth,     \* bound: Run() calls on the stack
  SeqMod,       \* range of the int sequence_num (2^32 in the code)
  FirstSeq,     \* next_sequence_num_ of the loop when the model starts
  DtorLimit     \* passes of the loop in ~MessageLoop (100 in the code)

\* Run() or RunAllPending(), with or without a ScopedNestableTaskAllower.
Runs == [kind : {"Run", "RunAllPending"}, allower : BOOLEAN]

ASSUME ConstantsAssumption ==
  /\ NoTask \notin Tasks
  /\ NoThread \notin Posters
  /\ NestedRuns \subseteq Runs
  /\ PostKinds \subseteq [delay : Nat, nestable : BOOLEAN]
  /\ MaxTime \in Nat \ {0}
  /\ MaxDepth \in Nat \ {0}
  /\ SeqMod \in Nat \ {0, 1}
  /\ FirstSeq \in 0 .. SeqMod - 1
  /\ DtorLimit \in Nat \ {0}

VARIABLES
  now,                               \* TimeTicks::Now()
  incoming_queue_,                   \* tasks posted, not yet taken by the loop
  work_queue_,                       \* tasks the loop thread has taken over
  delayed_work_queue_,               \* the priority queue, as a set
  deferred_non_nestable_work_queue_,
  recent_time_,
  next_sequence_num_,
  nestable_tasks_allowed_,
  depth,                             \* state_->run_depth, 0 when state_ is NULL
  state_,                            \* the RunState and pump frame of each Run()
  keep_running_,                     \* MessagePumpDefault
  delayed_work_time_,                \* MessagePumpDefault, 0 is TimeTicks()
  event_,                            \* MessagePumpDefault, auto-reset
  target_message_loop_,              \* MessageLoopProxyImpl: not NULL
  message_loop_lock_,                \* MessageLoopProxyImpl: its holder
  poster,                            \* where each poster is in PostTaskHelper
  dtor,                              \* where ~MessageLoop is
  pending,                           \* the PendingTask of each post
  status,                            \* history: what became of each post
  before                             \* history: posts complete when a post began

queues == <<incoming_queue_, work_queue_, delayed_work_queue_,
            deferred_non_nestable_work_queue_>>
timers == <<recent_time_, next_sequence_num_>>
runs   == <<depth, state_, nestable_tasks_allowed_>>
pump   == <<keep_running_, delayed_work_time_, event_>>
proxy  == <<target_message_loop_, message_loop_lock_, poster>>
posts  == <<pending, status, before>>
vars   == <<now, queues, timers, runs, pump, proxy, dtor, posts>>

-----------------------------------------------------------------------------
(* Types *)

NullTime == 0
Times    == 0 .. MaxTime

PendingTask == [delay : Nat, delayed_run_time : Times,
                nestable : BOOLEAN, sequence_num : 0 .. SeqMod - 1]

\* One Run() on the stack of the loop thread: the AutoRunState, the local
\* did_work and position of MessagePumpDefault::Run, the task this pump is
\* running, and the ScopedNestableTaskAllower around the Run() call.  owed is
\* history: the tasks that were due when quit_received was set.
PumpPoints == {"DoWork", "DoDelayedWork", "DoIdleWork", "Sleep", "Wait",
               "TimedWait", "Exit"}
RunState == [quit_received : BOOLEAN, pc : PumpPoints, did_work : BOOLEAN,
             task : Tasks \cup {NoTask}, allower : BOOLEAN,
             old_state : BOOLEAN, owed : SUBSET Tasks]

NoPending  == [delay |-> 0, delayed_run_time |-> NullTime,
               nestable |-> TRUE, sequence_num |-> 0]
NoRunState == [quit_received |-> FALSE, pc |-> "DoWork", did_work |-> FALSE,
               task |-> NoTask, allower |-> FALSE, old_state |-> FALSE,
               owed |-> {}]

Top          == state_[depth]
Pumping(pc)  == depth > 0 /\ Top.pc = pc /\ Top.task = NoTask
InTask       == depth > 0 /\ Top.task # NoTask
Elements(q)  == {q[i] : i \in DOMAIN q}
IsDelayed(t) == pending[t].delayed_run_time # NullTime
\* The posts whose call has put the task into the incoming queue.
Entered == {t \in Tasks : status[t] \notin {"unposted", "posting", "rejected"}}

\* The part of the client's code that runs on the loop thread and may call
\* the loop: outside every Run(), inside a task, or in what ~MessageLoop runs
\* (destructors of deleted closures, then the destruction observers).
AliveClient == dtor.pc = "none" /\ (depth = 0 \/ InTask)
DtorClient  == \/ dtor.pc \in {"DeleteFirst", "Reload"} /\ dtor.did_work
               \/ dtor.pc = "Observers"

-----------------------------------------------------------------------------
(* pending_task.cc *)

\* Variant: sequence numbers compared as they are.
Precedes_NoRollOver(a, b) ==
  \/ a.delayed_run_time < b.delayed_run_time
  \/ a.delayed_run_time = b.delayed_run_time /\ a.sequence_num < b.sequence_num

\* PendingTask::operator<, read as "a comes out of the priority queue before
\* b": earlier run time first, then the smaller sequence number, compared by
\* the sign of the wrapped difference.
Precedes(a, b) ==
  \/ a.delayed_run_time < b.delayed_run_time
  \/ /\ a.delayed_run_time = b.delayed_run_time
     /\ LET diff == (b.sequence_num - a.sequence_num) % SeqMod
        IN  diff > 0 /\ diff < SeqMod \div 2

\* t is delayed_work_queue_.top() of the tasks in q with the PendingTasks pt.
IsDelayedTop(t, q, pt) == t \in q /\ \A u \in q \ {t} : Precedes(pt[t], pt[u])

-----------------------------------------------------------------------------
(* Posting *)

\* CalculateDelayedRuntime and the PendingTask constructor.  The clock bound
\* keeps every run time within reach of the model.
NewPending(k) ==
  [delay |-> k.delay,
   delayed_run_time |-> IF k.delay > 0 THEN now + k.delay ELSE NullTime,
   nestable |-> k.nestable, sequence_num |-> 0]

\* was_empty in AddToIncomingQueue, before the push.
WasEmpty == incoming_queue_ = <<>>

\* The loop thread posts to its own loop: AddToIncomingQueue up to and
\* including ScheduleWork.  Nobody else can observe the gap between the two
\* calls, since only this thread waits for event_.
LoopThreadPost(t, k) ==
  /\ AliveClient \/ DtorClient
  /\ status[t] = "unposted"
  /\ now + k.delay <= MaxTime
  /\ pending' = [pending EXCEPT ![t] = NewPending(k)]
  /\ status' = [status EXCEPT ![t] = "queued"]
  /\ before' = [before EXCEPT ![t] = Entered]
  /\ incoming_queue_' = Append(incoming_queue_, t)
  /\ event_' = (event_ \/ WasEmpty)
  /\ UNCHANGED <<now, work_queue_, delayed_work_queue_,
                 deferred_non_nestable_work_queue_, timers, runs,
                 keep_running_, delayed_work_time_, proxy, dtor>>

\* MessageLoopProxyImpl::PostTaskHelper takes message_loop_lock_ for the whole
\* call.  With the loop gone it returns false and the closure is dropped.
PostRejected(p, t) ==
  /\ poster[p].pc = "idle"
  /\ message_loop_lock_ = NoThread
  /\ ~target_message_loop_
  /\ status[t] = "unposted"
  /\ status' = [status EXCEPT ![t] = "rejected"]
  /\ UNCHANGED <<now, queues, timers, runs, pump, proxy, dtor, pending, before>>

\* The lock is taken and the run time computed from the clock ...
PostBegin(p, t, k) ==
  /\ poster[p].pc = "idle"
  /\ message_loop_lock_ = NoThread
  /\ target_message_loop_
  /\ status[t] = "unposted"
  /\ now + k.delay <= MaxTime
  /\ message_loop_lock_' = p
  /\ poster' = [poster EXCEPT ![p] = [pc |-> "push", task |-> t]]
  /\ pending' = [pending EXCEPT ![t] = NewPending(k)]
  /\ status' = [status EXCEPT ![t] = "posting"]
  /\ before' = [before EXCEPT ![t] = Entered]
  /\ UNCHANGED <<now, queues, timers, runs, pump, target_message_loop_, dtor>>

\* The return from PostTaskHelper, which releases message_loop_lock_.
PostReturns(p) ==
  /\ poster' = [poster EXCEPT ![p] = [pc |-> "idle", task |-> NoTask]]
  /\ message_loop_lock_' = NoThread

\* ... then AddToIncomingQueue pushes under incoming_queue_lock_.  Only the
\* post that found the queue empty goes on to wake the pump.
AddToIncomingQueue(p) ==
  LET t == poster[p].task IN
  /\ poster[p].pc = "push"
  /\ incoming_queue_' = Append(incoming_queue_, t)
  /\ status' = [status EXCEPT ![t] = "queued"]
  /\ IF WasEmpty
     THEN /\ poster' = [poster EXCEPT ![p].pc = "schedule"]
          /\ UNCHANGED message_loop_lock_
     ELSE PostReturns(p)
  /\ UNCHANGED <<now, work_queue_, delayed_work_queue_,
                 deferred_non_nestable_work_queue_, timers, runs, pump,
                 target_message_loop_, dtor, pending, before>>

\* pump->ScheduleWork() outside incoming_queue_lock_, then the return.
ScheduleWork(p) ==
  /\ poster[p].pc = "schedule"
  /\ event_' = TRUE
  /\ PostReturns(p)
  /\ UNCHANGED <<now, queues, timers, runs, keep_running_, delayed_work_time_,
                 target_message_loop_, dtor, posts>>

-----------------------------------------------------------------------------
(* MessageLoop as the pump's delegate *)

\* Variant: DoDelayedWork's result replaces DoWork's instead of joining it.
DelegateReturns_Overwritten(s, result, keep) ==
  LET next == CASE s.pc = "DoWork"        -> "DoDelayedWork"
                [] s.pc = "DoDelayedWork" -> IF result THEN "DoWork" ELSE "DoIdleWork"
                [] OTHER                  -> IF result THEN "DoWork" ELSE "Sleep"
  IN  [s EXCEPT !.pc = IF keep THEN next ELSE "Exit", !.did_work = FALSE]

\* MessagePumpDefault::Run when a call of the delegate returns result: the
\* checks of keep_running_ after each call, and the three services in order.
\* did_work is local to one pass of the pump's loop.
DelegateReturns(s, result, keep) ==
  LET did  == IF s.pc = "DoDelayedWork" THEN s.did_work \/ result ELSE result
      next == CASE s.pc = "DoWork"        -> "DoDelayedWork"
                [] s.pc = "DoDelayedWork" -> IF did THEN "DoWork" ELSE "DoIdleWork"
                [] OTHER                  -> IF did THEN "DoWork" ELSE "Sleep"
      pc   == IF keep THEN next ELSE "Exit"
  IN  [s EXCEPT !.pc = pc, !.did_work = (did /\ pc = "DoDelayedWork")]

ReturnToPump(result) ==
  state_' = [state_ EXCEPT ![depth] = DelegateReturns(@, result, keep_running_)]

\* RunTask up to task.Run(): no other task may start until it is finished.
RunTask(t) ==
  /\ nestable_tasks_allowed_' = FALSE
  /\ state_' = [state_ EXCEPT ![depth].task = t]
  /\ status' = [status EXCEPT ![t] = "running"]

\* The PendingTasks of S are destroyed.
Forget(S) ==
  /\ pending' = [t \in Tasks |-> IF t \in S THEN NoPending ELSE pending[t]]
  /\ before' = [t \in Tasks |-> IF t \in S THEN {} ELSE before[t] \ S]

\* The end of RunTask, and the return of true from the delegate's method.
FinishTask ==
  /\ InTask
  /\ nestable_tasks_allowed_' = TRUE
  /\ status' = [status EXCEPT ![Top.task] = "done"]
  /\ Forget({Top.task})
  /\ state_' = [state_ EXCEPT ![depth] =
                  DelegateReturns([@ EXCEPT !.task = NoTask], TRUE, keep_running_)]
  /\ UNCHANGED <<now, queues, timers, depth, pump, proxy, dtor>>

\* Variants: every task runs; a task that cannot run is dropped.
DeferOrRunPendingTask_Run(t, deferredState) ==
  RunTask(t) /\ UNCHANGED deferred_non_nestable_work_queue_

DeferOrRunPendingTask_Drop(t, deferredState) ==
  /\ IF pending[t].nestable \/ depth = 1
     THEN RunTask(t)
     ELSE /\ state_' = [state_ EXCEPT ![depth] = deferredState]
          /\ UNCHANGED <<nestable_tasks_allowed_, status>>
  /\ UNCHANGED deferred_non_nestable_work_queue_

\* DeferOrRunPendingTask; a deferred task leaves the frame as deferredState.
DeferOrRunPendingTask(t, deferredState) ==
  IF pending[t].nestable \/ depth = 1
  THEN /\ RunTask(t)
       /\ UNCHANGED deferred_non_nestable_work_queue_
  ELSE /\ deferred_non_nestable_work_queue_' =
            Append(deferred_non_nestable_work_queue_, t)
       /\ state_' = [state_ EXCEPT ![depth] = deferredState]
       /\ UNCHANGED <<nestable_tasks_allowed_, status>>

\* DoWork returns false: tasks are not allowed now, or every queue is empty.
DoWorkNothing ==
  /\ Pumping("DoWork")
  /\ \/ ~nestable_tasks_allowed_
     \/ work_queue_ = <<>> /\ incoming_queue_ = <<>>
  /\ ReturnToPump(FALSE)
  /\ UNCHANGED <<now, queues, timers, depth, nestable_tasks_allowed_, pump,
                 proxy, dtor, posts>>

\* ReloadWorkQueue inside DoWork.
ReloadWorkQueue ==
  /\ Pumping("DoWork")
  /\ nestable_tasks_allowed_
  /\ work_queue_ = <<>>
  /\ incoming_queue_ # <<>>
  /\ work_queue_' = incoming_queue_
  /\ incoming_queue_' = <<>>
  /\ UNCHANGED <<now, delayed_work_queue_, deferred_non_nestable_work_queue_,
                 timers, runs, pump, proxy, dtor, posts>>

NextSequenceNum == (next_sequence_num_ + 1) % SeqMod

\* DoWork pops a delayed task: AddToDelayedWorkQueue numbers it, and the pump
\* is told its time when the closure of the queue's top equals the task's.  That
\* is so when the task is the top; two posts may also carry one closure.
AddToDelayedWorkQueue ==
  LET t == Head(work_queue_)
      q == delayed_work_queue_ \cup {t} IN
  /\ Pumping("DoWork")
  /\ nestable_tasks_allowed_
  /\ work_queue_ # <<>>
  /\ IsDelayed(t)
  /\ work_queue_' = Tail(work_queue_)
  /\ delayed_work_queue_' = q
  /\ pending' = [pending EXCEPT ![t].sequence_num = next_sequence_num_]
  /\ next_sequence_num_' = NextSequenceNum
  /\ \E top \in q, equal \in BOOLEAN :
       /\ IsDelayedTop(top, q, pending')
       /\ top = t => equal
       /\ delayed_work_time_' = IF equal THEN pending[t].delayed_run_time
                                ELSE delayed_work_time_
  /\ UNCHANGED <<now, incoming_queue_, deferred_non_nestable_work_queue_,
                 recent_time_, runs, keep_running_, event_, proxy, dtor,
                 status, before>>

\* DoWork pops a task that is due now.  It runs, or it is set aside and the
\* inner loop of DoWork goes on.
DoWorkTask ==
  /\ Pumping("DoWork")
  /\ nestable_tasks_allowed_
  /\ work_queue_ # <<>>
  /\ ~IsDelayed(Head(work_queue_))
  /\ work_queue_' = Tail(work_queue_)
  /\ DeferOrRunPendingTask(Head(work_queue_), Top)
  /\ UNCHANGED <<now, incoming_queue_, delayed_work_queue_, timers, depth, pump,
                 proxy, dtor, pending, before>>

\* DoDelayedWork with nothing it may run: the pump will not time its sleep.
DoDelayedWorkNothing ==
  /\ Pumping("DoDelayedWork")
  /\ ~nestable_tasks_allowed_ \/ delayed_work_queue_ = {}
  /\ recent_time_' = NullTime
  /\ delayed_work_time_' = NullTime
  /\ ReturnToPump(FALSE)
  /\ UNCHANGED <<now, queues, next_sequence_num_, depth,
                 nestable_tasks_allowed_, keep_running_, event_, proxy, dtor,
                 posts>>

\* The clock is only read again for a task that looks early.
RecentTime(next_run_time) ==
  IF next_run_time > recent_time_ THEN now ELSE recent_time_

\* Variant: the pump is not told when to come back.
DoDelayedWorkEarly_Unscheduled(t) ==
  LET next_run_time == pending[t].delayed_run_time IN
  /\ Pumping("DoDelayedWork")
  /\ nestable_tasks_allowed_
  /\ IsDelayedTop(t, delayed_work_queue_, pending)
  /\ next_run_time > RecentTime(next_run_time)
  /\ recent_time_' = RecentTime(next_run_time)
  /\ ReturnToPump(FALSE)
  /\ UNCHANGED <<now, queues, next_sequence_num_, delayed_work_time_, depth,
                 nestable_tasks_allowed_, keep_running_, event_, proxy, dtor,
                 posts>>

\* DoDelayedWork with the earliest task still in the future.
DoDelayedWorkEarly(t) ==
  LET next_run_time == pending[t].delayed_run_time IN
  /\ Pumping("DoDelayedWork")
  /\ nestable_tasks_allowed_
  /\ IsDelayedTop(t, delayed_work_queue_, pending)
  /\ next_run_time > RecentTime(next_run_time)
  /\ recent_time_' = RecentTime(next_run_time)
  /\ delayed_work_time_' = next_run_time
  /\ ReturnToPump(FALSE)
  /\ UNCHANGED <<now, queues, next_sequence_num_, depth,
                 nestable_tasks_allowed_, keep_running_, event_, proxy, dtor,
                 posts>>

\* DoDelayedWork takes the earliest task, judged by recent_time_ first and by
\* a fresh reading of the clock second.
DoDelayedWorkTask(t) ==
  LET rest == delayed_work_queue_ \ {t}
      next_run_time == pending[t].delayed_run_time IN
  /\ Pumping("DoDelayedWork")
  /\ nestable_tasks_allowed_
  /\ IsDelayedTop(t, delayed_work_queue_, pending)
  /\ next_run_time <= RecentTime(next_run_time)
  /\ recent_time_' = RecentTime(next_run_time)
  /\ delayed_work_queue_' = rest
  /\ IF rest = {} THEN UNCHANGED delayed_work_time_
     ELSE \E top \in rest :
            /\ IsDelayedTop(top, rest, pending)
            /\ delayed_work_time_' = pending[top].delayed_run_time
  /\ DeferOrRunPendingTask(t, DelegateReturns(Top, FALSE, keep_running_))
  /\ UNCHANGED <<now, incoming_queue_, work_queue_, next_sequence_num_, depth,
                 keep_running_, event_, proxy, dtor, pending, before>>

\* DoIdleWork at the outermost Run: ProcessNextDelayedNonNestableTask.
ProcessNextDelayedNonNestableTask ==
  LET q == deferred_non_nestable_work_queue_ IN
  /\ Pumping("DoIdleWork")
  /\ depth = 1
  /\ q # <<>>
  /\ deferred_non_nestable_work_queue_' = Tail(q)
  /\ RunTask(Head(q))
  /\ UNCHANGED <<now, incoming_queue_, work_queue_, delayed_work_queue_, timers,
                 depth, pump, proxy, dtor, pending, before>>

\* DoIdleWork with no deferred task to run: obey Quit().
DoIdleWorkQuit ==
  /\ Pumping("DoIdleWork")
  /\ depth # 1 \/ deferred_non_nestable_work_queue_ = <<>>
  /\ keep_running_' = (keep_running_ /\ ~Top.quit_received)
  /\ state_' = [state_ EXCEPT ![depth] = DelegateReturns(@, FALSE, keep_running_')]
  /\ UNCHANGED <<now, queues, timers, depth, nestable_tasks_allowed_,
                 delayed_work_time_, event_, proxy, dtor, posts>>

-----------------------------------------------------------------------------
(* MessagePumpDefault::Run: sleeping and leaving *)

SetPumpPoint(pc) == state_' = [state_ EXCEPT ![depth].pc = pc]

\* Variant: every sleep is without a deadline.
Sleep_Untimed ==
  /\ Pumping("Sleep")
  /\ SetPumpPoint("Wait")
  /\ UNCHANGED <<now, queues, timers, depth, nestable_tasks_allowed_, pump,
                 proxy, dtor, posts>>

\* The choice between event_.Wait(), event_.TimedWait(delay) and a deadline
\* that has already passed.
Sleep ==
  /\ Pumping("Sleep")
  /\ SetPumpPoint(IF delayed_work_time_ = NullTime THEN "Wait"
                  ELSE IF delayed_work_time_ > now THEN "TimedWait"
                  ELSE "DoWork")
  /\ delayed_work_time_' = IF delayed_work_time_ > now THEN delayed_work_time_
                           ELSE NullTime
  /\ UNCHANGED <<now, queues, timers, depth, nestable_tasks_allowed_,
                 keep_running_, event_, proxy, dtor, posts>>

\* event_ is auto-reset: the wait that returns because of a signal takes it.
WakeBySignal ==
  /\ Pumping("Wait") \/ Pumping("TimedWait")
  /\ event_
  /\ event_' = FALSE
  /\ SetPumpPoint("DoWork")
  /\ UNCHANGED <<now, queues, timers, depth, nestable_tasks_allowed_,
                 keep_running_, delayed_work_time_, proxy, dtor, posts>>

WakeByTimeout ==
  /\ Pumping("TimedWait")
  /\ now >= delayed_work_time_
  /\ SetPumpPoint("DoWork")
  /\ UNCHANGED <<now, queues, timers, depth, nestable_tasks_allowed_, pump,
                 proxy, dtor, posts>>

\* SetNestableTasksAllowed: a change to true starts the native pump.
SetNestableTasksAllowed(allowed) ==
  /\ nestable_tasks_allowed_' = allowed
  /\ event_' = (event_ \/ (allowed /\ ~nestable_tasks_allowed_))

\* MessageLoop::Run and RunAllPending, from client code on the loop thread:
\* the ScopedNestableTaskAllower if there is one, AutoRunState, pump_->Run().
EnterRun(r) ==
  /\ AliveClient
  /\ depth < MaxDepth
  /\ IF depth = 0 THEN ~r.allower ELSE r \in NestedRuns
  /\ depth' = depth + 1
  /\ state_' = [state_ EXCEPT ![depth + 1] =
        [quit_received |-> r.kind = "RunAllPending", pc |-> "DoWork",
         did_work |-> FALSE, task |-> NoTask, allower |-> r.allower,
         old_state |-> nestable_tasks_allowed_,
         owed |-> IF r.kind = "Run" THEN {}
                  ELSE Elements(incoming_queue_) \cup Elements(work_queue_)]]
  /\ IF r.allower THEN SetNestableTasksAllowed(TRUE)
     ELSE UNCHANGED <<nestable_tasks_allowed_, event_>>
  /\ UNCHANGED <<now, queues, timers, keep_running_, delayed_work_time_, proxy,
                 dtor, posts>>

\* The pump leaves its loop, and ~AutoRunState and ~ScopedNestableTaskAllower
\* restore what the caller had.
LeaveRun ==
  /\ Pumping("Exit")
  /\ keep_running_' = TRUE
  /\ depth' = depth - 1
  /\ state_' = [state_ EXCEPT ![depth] = NoRunState]
  /\ IF Top.allower THEN SetNestableTasksAllowed(Top.old_state)
     ELSE UNCHANGED <<nestable_tasks_allowed_, event_>>
  /\ UNCHANGED <<now, queues, timers, delayed_work_time_, proxy, dtor, posts>>

\* Quit: return from the innermost Run() once it is idle.
Quit ==
  /\ InTask
  /\ ~Top.quit_received
  /\ state_' = [state_ EXCEPT ![depth].quit_received = TRUE,
        ![depth].owed = Elements(incoming_queue_) \cup Elements(work_queue_)]
  /\ UNCHANGED <<now, queues, timers, depth, nestable_tasks_allowed_, pump,
                 proxy, dtor, posts>>

\* QuitNow: pump_->Quit().
QuitNow ==
  /\ InTask
  /\ keep_running_' = FALSE
  /\ UNCHANGED <<now, queues, timers, runs, delayed_work_time_, event_, proxy,
                 dtor, posts>>

-----------------------------------------------------------------------------
(* ~MessageLoop *)

DtorStep(from, to) == dtor.pc = from /\ dtor' = to

\* DeletePendingTasks: every task the loop thread holds is destroyed unrun.
Held == Elements(work_queue_) \cup delayed_work_queue_
          \cup Elements(deferred_non_nestable_work_queue_)

\* Delayed tasks pass through the delayed queue and are numbered on the way.
DeletePendingTasks ==
  /\ work_queue_' = <<>>
  /\ delayed_work_queue_' = {}
  /\ deferred_non_nestable_work_queue_' = <<>>
  /\ status' = [t \in Tasks |-> IF t \in Held THEN "deleted" ELSE status[t]]
  /\ Forget(Held)
  /\ next_sequence_num_' =
       (next_sequence_num_
          + Cardinality({i \in DOMAIN work_queue_ : IsDelayed(work_queue_[i])})) % SeqMod
  /\ UNCHANGED <<now, incoming_queue_, recent_time_, runs, pump, proxy>>

DestroyBegin ==
  /\ AliveClient
  /\ depth = 0
  /\ DtorStep("none", [pc |-> "DeleteFirst", i |-> 0, did_work |-> FALSE])
  /\ UNCHANGED <<now, queues, timers, runs, pump, proxy, posts>>

DtorDeleteFirst ==
  /\ DtorStep("DeleteFirst", [dtor EXCEPT !.pc = "Reload", !.did_work = Held # {}])
  /\ DeletePendingTasks

DtorReload ==
  /\ DtorStep("Reload", [dtor EXCEPT !.pc = "DeleteSecond", !.did_work = FALSE])
  /\ work_queue_' = incoming_queue_
  /\ incoming_queue_' = <<>>
  /\ UNCHANGED <<now, delayed_work_queue_, deferred_non_nestable_work_queue_,
                 timers, runs, pump, proxy, posts>>

DtorDeleteSecond ==
  LET did  == Held # {}
      last == ~did \/ dtor.i + 1 = DtorLimit IN
  /\ DtorStep("DeleteSecond",
              [pc |-> IF last THEN "Observers" ELSE "DeleteFirst",
               i |-> IF last THEN dtor.i ELSE dtor.i + 1, did_work |-> did])
  /\ DeletePendingTasks

\* Variant: without the lock.
WillDestroyCurrentMessageLoop_Unlocked ==
  /\ DtorStep("Observers", [dtor EXCEPT !.pc = "Members"])
  /\ target_message_loop_' = FALSE
  /\ UNCHANGED <<now, queues, timers, runs, pump, message_loop_lock_, poster,
                 posts>>

\* MessageLoopProxyImpl::WillDestroyCurrentMessageLoop, under its lock.
WillDestroyCurrentMessageLoop ==
  /\ DtorStep("Observers", [dtor EXCEPT !.pc = "Members"])
  /\ message_loop_lock_ = NoThread
  /\ target_message_loop_' = FALSE
  /\ UNCHANGED <<now, queues, timers, runs, pump, message_loop_lock_, poster,
                 posts>>

\* The member queues are destroyed with what is still in them.
DtorMembers ==
  /\ DtorStep("Members", [dtor EXCEPT !.pc = "Gone"])
  /\ work_queue_' = <<>>
  /\ incoming_queue_' = <<>>
  /\ delayed_work_queue_' = {}
  /\ deferred_non_nestable_work_queue_' = <<>>
  /\ status' = [t \in Tasks |->
                  IF t \in Held \cup Elements(incoming_queue_) THEN "deleted"
                  ELSE status[t]]
  /\ Forget(Held \cup Elements(incoming_queue_))
  /\ UNCHANGED <<now, timers, runs, pump, proxy>>

-----------------------------------------------------------------------------

Tick ==
  /\ now < MaxTime
  /\ now' = now + 1
  /\ UNCHANGED <<queues, timers, runs, pump, proxy, dtor, posts>>

Init ==
  /\ now = 1
  /\ incoming_queue_ = <<>>
  /\ work_queue_ = <<>>
  /\ delayed_work_queue_ = {}
  /\ deferred_non_nestable_work_queue_ = <<>>
  /\ recent_time_ = NullTime
  /\ next_sequence_num_ = FirstSeq
  /\ nestable_tasks_allowed_ = TRUE
  /\ depth = 0
  /\ state_ = [d \in 1 .. MaxDepth |-> NoRunState]
  /\ keep_running_ = TRUE
  /\ delayed_work_time_ = NullTime
  /\ event_ = FALSE
  /\ target_message_loop_ = TRUE
  /\ message_loop_lock_ = NoThread
  /\ poster = [p \in Posters |-> [pc |-> "idle", task |-> NoTask]]
  /\ dtor = [pc |-> "none", i |-> 0, did_work |-> FALSE]
  /\ pending = [t \in Tasks |-> NoPending]
  /\ status = [t \in Tasks |-> "unposted"]
  /\ before = [t \in Tasks |-> {}]

\* What the pump does of its own accord.
PumpStep ==
  \/ DoWorkNothing \/ ReloadWorkQueue \/ AddToDelayedWorkQueue \/ DoWorkTask
  \/ DoDelayedWorkNothing
  \/ \E t \in delayed_work_queue_ : DoDelayedWorkEarly(t) \/ DoDelayedWorkTask(t)
  \/ ProcessNextDelayedNonNestableTask \/ DoIdleWorkQuit
  \/ Sleep \/ WakeBySignal \/ WakeByTimeout \/ LeaveRun

\* What the client's code does on the loop thread.
ClientStep ==
  \/ \E t \in Tasks, k \in PostKinds : LoopThreadPost(t, k)
  \/ \E r \in Runs : EnterRun(r)
  \/ Quit \/ QuitNow \/ FinishTask \/ DestroyBegin

DtorNext ==
  \/ DtorDeleteFirst \/ DtorReload \/ DtorDeleteSecond
  \/ WillDestroyCurrentMessageLoop \/ DtorMembers

PostContinue(p) == AddToIncomingQueue(p) \/ ScheduleWork(p)

PosterStep ==
  \E p \in Posters :
    \/ \E t \in Tasks, k \in PostKinds : PostBegin(p, t, k)
    \/ \E t \in Tasks : PostRejected(p, t)
    \/ PostContinue(p)

Next == PumpStep \/ ClientStep \/ DtorNext \/ PosterStep \/ Tick

Spec == Init /\ [][Next]_vars

\* The loop thread and the posters are scheduled, time passes, and tasks end:
\* a task that keeps entering nested loops is not allowed to do so for ever.
Fairness ==
  /\ WF_vars(PumpStep)
  /\ WF_vars(DtorNext)
  /\ SF_vars(FinishTask)
  /\ \A p \in Posters : WF_vars(PostContinue(p))
  /\ WF_vars(Tick)

FairSpec == Spec /\ Fairness

-----------------------------------------------------------------------------
(* Properties *)

\* Every variable has its type, and the pump's frames are in use exactly up
\* to depth.
TypeOK ==
  /\ now \in Times
  /\ incoming_queue_ \in Seq(Tasks)
  /\ work_queue_ \in Seq(Tasks)
  /\ delayed_work_queue_ \in SUBSET Tasks
  /\ deferred_non_nestable_work_queue_ \in Seq(Tasks)
  /\ recent_time_ \in Times
  /\ next_sequence_num_ \in 0 .. SeqMod - 1
  /\ nestable_tasks_allowed_ \in BOOLEAN
  /\ depth \in 0 .. MaxDepth
  /\ state_ \in [1 .. MaxDepth -> RunState]
  /\ keep_running_ \in BOOLEAN
  /\ delayed_work_time_ \in Times
  /\ event_ \in BOOLEAN
  /\ target_message_loop_ \in BOOLEAN
  /\ message_loop_lock_ \in Posters \cup {NoThread}
  /\ poster \in [Posters -> [pc : {"idle", "push", "schedule"},
                             task : Tasks \cup {NoTask}]]
  /\ dtor \in [pc : {"none", "DeleteFirst", "Reload", "DeleteSecond",
                     "Observers", "Members", "Gone"},
                i : 0 .. DtorLimit, did_work : BOOLEAN]
  /\ pending \in [Tasks -> PendingTask]
  /\ status \in [Tasks -> {"unposted", "posting", "queued", "running", "done",
                           "deleted", "rejected"}]
  /\ before \in [Tasks -> SUBSET Tasks]

\* How often a task occurs in the queues and in the frames of the loop thread.
Occurrences(t) ==
  Cardinality({i \in DOMAIN incoming_queue_ : incoming_queue_[i] = t})
    + Cardinality({i \in DOMAIN work_queue_ : work_queue_[i] = t})
    + (IF t \in delayed_work_queue_ THEN 1 ELSE 0)
    + Cardinality({i \in DOMAIN deferred_non_nestable_work_queue_ :
                     deferred_non_nestable_work_queue_[i] = t})
    + Cardinality({d \in 1 .. depth : state_[d].task = t})

\* No post is lost or run twice on its way through the four queues of the
\* MessageLoop: a task accepted and not yet finished or deleted is in exactly
\* one queue or frame, any other task in none.
EachTaskOnce ==
  \A t \in Tasks :
    Occurrences(t) = IF status[t] \in {"queued", "running"} THEN 1 ELSE 0

\* The pump never blocks on event_ with work waiting: AddToIncomingQueue
\* signals only for the first task in an empty queue, and that signal is not
\* eaten by an earlier wake-up, a nested pump or a reload.
NoLostWakeup ==
  /\ Pumping("Wait") \/ Pumping("TimedWait")
  /\ nestable_tasks_allowed_
  => /\ work_queue_ = <<>>
     /\ \/ incoming_queue_ = <<>>
        \/ event_
        \/ \E p \in Posters : poster[p].pc = "schedule"

\* The pump's sleep is never longer than the earliest delayed task allows,
\* although delayed_work_time_ is also written by DoWork for any task whose
\* closure equals the top's, and left alone when the queue runs empty.
NoOversleep ==
  /\ Pumping("Wait") \/ Pumping("TimedWait")
  /\ nestable_tasks_allowed_
  => \A t \in delayed_work_queue_ :
       /\ delayed_work_time_ # NullTime
       /\ delayed_work_time_ <= pending[t].delayed_run_time

\* A non-nestable task only ever runs from the outermost Run(), whichever
\* queue it went through.
NonNestableNotNested ==
  \A d \in 1 .. depth :
    state_[d].task # NoTask /\ ~pending[state_[d].task].nestable => d = 1

\* RunTask's DCHECK(nestable_tasks_allowed_): whoever is about to run a task,
\* DoIdleWork included, has the reentrancy block open; and inside a task it
\* is closed again once every nested Run() has returned.
ReentrancyBlock ==
  /\ Pumping("DoIdleWork") /\ depth = 1 => nestable_tasks_allowed_
  /\ InTask => ~nestable_tasks_allowed_
  /\ depth = 0 => nestable_tasks_allowed_

\* A delayed task does not start before its time, although the loop compares
\* it with recent_time_, a cached reading of the clock.
NeverEarly ==
  \A d \in 1 .. depth :
    state_[d].task # NoTask => pending[state_[d].task].delayed_run_time <= now

\* A poster that is past the check of target_message_loop_ works on a loop
\* that still exists, and the destroyed loop has disposed of every task.
NoUseAfterDestroy ==
  /\ \A p \in Posters : poster[p].pc # "idle" =>
       message_loop_lock_ = p /\ dtor.pc \notin {"Members", "Gone"}
  /\ dtor.pc = "Gone" =>
       \A t \in Tasks : status[t] \notin {"posting", "queued", "running"}

Starts(t) == status[t] = "queued" /\ status'[t] = "running"

\* The guarantee of sequenced_task_runner.h for a nestable first task: a task
\* does not start while one posted before it with no greater delay waits.
StartOrder ==
  [][\A t \in Tasks : Starts(t) =>
       \A u \in before[t] :
         pending[u].nestable /\ pending[u].delay <= pending[t].delay
           => status[u] # "queued"]_vars

\* The same guarantee for two non-nestable tasks, as sequenced_task_runner.h
\* words it ("T2 is non-nestable or T1 is nestable").
NonNestableStartOrder ==
  [][\A t \in Tasks : Starts(t) =>
       \A u \in before[t] :
         ~pending[t].nestable /\ pending[u].delay <= pending[t].delay
           => status[u] # "queued"]_vars

\* Quit returns "after it is done processing all pending messages": when an
\* idle pump obeys quit_received, no task that was in the incoming or the
\* work queue at that time is still there.
QuitDrains ==
  [][Pumping("DoIdleWork") /\ nestable_tasks_allowed_
       /\ keep_running_ /\ ~keep_running_'
     => Top.owed \cap (Elements(incoming_queue_) \cup Elements(work_queue_)) = {}]_vars

\* DCHECK(keep_running_) on entry to MessagePumpDefault::Run.
RunStartsWithPumpRunning == [][depth' > depth => keep_running_]_vars

\* A waiting task is served as long as somebody runs the loop; a non-nestable
\* one needs the outermost Run().
Served ==
  \A t \in Tasks :
    []<>(\/ status[t] # "queued"
         \/ depth = 0
         \/ ~pending[t].nestable /\ depth > 1)

\* The destructor gets the proxy's lock and ends.
DestructorEnds == dtor.pc # "none" ~> dtor.pc = "Gone"

\* The queues and frames hold what their types say, and every task once.
Consistent == TypeOK /\ EachTaskOnce

\* The pump sleeps neither beside work that waits nor past the earliest delayed
\* task, and no delayed task runs before its time.
SleepsRight == NoLostWakeup /\ NoOversleep /\ NeverEarly

\* Nesting: which tasks a nested Run() may start, and when it may start any.
NestingRules == NonNestableNotNested /\ ReentrancyBlock

\* What the loop promises under fairness: waiting tasks are served as long as
\* somebody runs the loop, and the destructor ends.
Progress == Served /\ DestructorEnds
=============================================================================
