-------------------------- MODULE MessageLoopProofs --------------------------
(***************************************************************************)
(* Proofs about MessageLoop, for any tasks, posters, bounds and nesting:   *)
(* tasks are neither lost nor run twice, the pump does not sleep beside    *)
(* work, nesting follows its rules, quitting drains the queues, and posts  *)
(* never reach a destroyed loop.                                           *)
(***************************************************************************)
EXTENDS MessageLoop, FiniteSetTheorems, TLAPS

-----------------------------------------------------------------------------
(* Types *)

Types ==
  /\ TypeOK
  /\ \A p \in Posters : poster[p].pc # "idle" => poster[p].task \in Tasks
  /\ dtor.pc \in {"DeleteFirst", "Reload", "DeleteSecond"} => dtor.i < DtorLimit

\* A pump frame after a delegate's method: only pc and did_work change.
LEMMA DelegateFrame ==
  ASSUME NEW s \in RunState, NEW result \in BOOLEAN, NEW keep \in BOOLEAN
  PROVE  /\ DelegateReturns(s, result, keep) \in RunState
         /\ DelegateReturns(s, result, keep).task = s.task
         /\ DelegateReturns(s, result, keep).allower = s.allower
         /\ DelegateReturns(s, result, keep).old_state = s.old_state
         /\ DelegateReturns(s, result, keep).owed = s.owed
BY DEF DelegateReturns, RunState, PumpPoints

\* Remainders are in range.
LEMMA ModRange ==
  ASSUME NEW a \in Int
  PROVE  a % SeqMod \in 0 .. SeqMod - 1
BY ConstantsAssumption DEF ConstantsAssumption

\* A new PendingTask, within the bound of the clock.
LEMMA NewPendingType ==
  ASSUME Types, NEW k \in PostKinds, now + k.delay <= MaxTime
  PROVE  NewPending(k) \in PendingTask
<1>1. k \in [delay : Nat, nestable : BOOLEAN] /\ SeqMod \in Nat \ {0, 1} /\ MaxTime \in Nat
  BY ConstantsAssumption DEF ConstantsAssumption
<1>2. 0 \in 0 .. SeqMod - 1
  BY <1>1
<1>3. now \in 0 .. MaxTime
  BY DEF Types, TypeOK, Times
<1>4. (IF k.delay > 0 THEN now + k.delay ELSE NullTime) \in Times
  BY <1>1, <1>3 DEF Times, NullTime
<1> QED
  BY <1>1, <1>2, <1>4 DEF NewPending, PendingTask

\* NoPending is a PendingTask.
LEMMA NoPendingType == NoPending \in PendingTask
<1>1. 0 \in 0 .. SeqMod - 1 /\ NullTime \in Times
  BY ConstantsAssumption DEF ConstantsAssumption, Times, NullTime
<1> QED
  BY <1>1 DEF NoPending, PendingTask

\* What DestroyPendingTasks leaves of the PendingTasks.
LEMMA ForgetType ==
  ASSUME TypeOK, NEW S, Forget(S)
  PROVE  pending' \in [Tasks -> PendingTask] /\ before' \in [Tasks -> SUBSET Tasks]
BY NoPendingType DEF TypeOK, Forget

\* The loop starts with values of the right types.
LEMMA InitTypes == Init => Types
<1> SUFFICES ASSUME Init PROVE Types
  OBVIOUS
<1>1. /\ MaxTime \in Nat \ {0} /\ SeqMod \in Nat \ {0, 1} /\ FirstSeq \in 0 .. SeqMod - 1
      /\ MaxDepth \in Nat \ {0} /\ DtorLimit \in Nat \ {0}
  BY ConstantsAssumption DEF ConstantsAssumption
<1>2. NoRunState \in RunState
  BY DEF NoRunState, RunState, PumpPoints
<1>3. now \in Times /\ recent_time_ \in Times /\ delayed_work_time_ \in Times
  BY <1>1 DEF Init, Times, NullTime
<1>4. pending \in [Tasks -> PendingTask] /\ state_ \in [1 .. MaxDepth -> RunState]
  BY <1>2, NoPendingType DEF Init
<1>5. dtor.i < DtorLimit /\ dtor.i \in 0 .. DtorLimit /\ depth \in 0 .. MaxDepth
  BY <1>1 DEF Init
<1>6. /\ poster \in [Posters -> [pc : {"idle", "push", "schedule"}, task : Tasks \cup {NoTask}]]
      /\ \A p \in Posters : poster[p].pc = "idle"
  BY DEF Init
<1>7. dtor \in [pc : {"none", "DeleteFirst", "Reload", "DeleteSecond", "Observers", "Members",
                      "Gone"}, i : 0 .. DtorLimit, did_work : BOOLEAN]
  BY <1>5 DEF Init
<1>8. /\ incoming_queue_ \in Seq(Tasks) /\ work_queue_ \in Seq(Tasks)
      /\ delayed_work_queue_ \in SUBSET Tasks /\ deferred_non_nestable_work_queue_ \in Seq(Tasks)
      /\ next_sequence_num_ \in 0 .. SeqMod - 1 /\ before \in [Tasks -> SUBSET Tasks]
      /\ status \in [Tasks -> {"unposted", "posting", "queued", "running", "done",
                               "deleted", "rejected"}]
  BY <1>1 DEF Init
<1>9. /\ nestable_tasks_allowed_ \in BOOLEAN /\ keep_running_ \in BOOLEAN /\ event_ \in BOOLEAN
      /\ target_message_loop_ \in BOOLEAN /\ message_loop_lock_ \in Posters \cup {NoThread}
  BY DEF Init
<1> QED
  BY <1>3, <1>4, <1>5, <1>6, <1>7, <1>8, <1>9 DEF Types, TypeOK

\* Posts.
LEMMA PostTypes ==
  ASSUME Types,
         \/ \E t \in Tasks, k \in PostKinds : LoopThreadPost(t, k)
         \/ PosterStep
  PROVE  Types'
<1> USE DEF queues, timers, runs, pump, proxy, posts
<1>1. ASSUME NEW t \in Tasks, NEW k \in PostKinds, LoopThreadPost(t, k) PROVE Types'
  <2>1. NewPending(k) \in PendingTask
    BY <1>1, NewPendingType DEF LoopThreadPost
  <2> QED
    BY <1>1, <2>1 DEF LoopThreadPost, Types, TypeOK, Entered
<1>2. ASSUME NEW p \in Posters, NEW t \in Tasks, NEW k \in PostKinds, PostBegin(p, t, k)
      PROVE  Types'
  <2>1. NewPending(k) \in PendingTask
    BY <1>2, NewPendingType DEF PostBegin
  <2> QED
    BY <1>2, <2>1 DEF PostBegin, Types, TypeOK, Entered
<1>3. ASSUME NEW p \in Posters, NEW t \in Tasks, PostRejected(p, t) PROVE Types'
  BY <1>3 DEF PostRejected, Types, TypeOK
<1>4. ASSUME NEW p \in Posters, AddToIncomingQueue(p) PROVE Types'
  <2>1. poster[p].task \in Tasks
    BY <1>4 DEF AddToIncomingQueue, Types
  <2> QED
    <3>1. /\ incoming_queue_' \in Seq(Tasks)
          /\ status' \in [Tasks -> {"unposted", "posting", "queued", "running", "done",
                                    "deleted", "rejected"}]
      BY <1>4, <2>1 DEF AddToIncomingQueue, Types, TypeOK
    <3> DEFINE P == [pc : {"idle", "push", "schedule"}, task : Tasks \cup {NoTask}]
    <3>2. poster' = [poster EXCEPT ![p].pc = "schedule"]
            \/ poster' = [poster EXCEPT ![p] = [pc |-> "idle", task |-> NoTask]]
      BY <1>4 DEF AddToIncomingQueue, PostReturns
    <3>3. poster \in [Posters -> P]
      BY DEF Types, TypeOK
    <3>4. /\ poster' \in [Posters -> [pc : {"idle", "push", "schedule"},
                                      task : Tasks \cup {NoTask}]]
          /\ \A q \in Posters : poster'[q].pc # "idle" => poster'[q].task \in Tasks
      BY <2>1, <3>2, <3>3 DEF Types
    <3>5. message_loop_lock_' \in Posters \cup {NoThread}
      BY <1>4 DEF AddToIncomingQueue, PostReturns, Types, TypeOK
    <3> QED
      BY <1>4, <3>1, <3>4, <3>5 DEF AddToIncomingQueue, Types, TypeOK
<1>5. ASSUME NEW p \in Posters, ScheduleWork(p) PROVE Types'
  BY <1>5 DEF ScheduleWork, PostReturns, Types, TypeOK
<1> QED
  BY <1>1, <1>2, <1>3, <1>4, <1>5 DEF PosterStep, PostContinue

\* The innermost frame is one of those the type allows.
LEMMA TopType ==
  ASSUME TypeOK, depth > 0
  PROVE  depth \in 1 .. MaxDepth /\ Top \in RunState
<1>1. depth \in 1 .. MaxDepth
  BY ConstantsAssumption DEF ConstantsAssumption, TypeOK
<1> QED
  BY <1>1 DEF TypeOK, Top

\* The steps that change nothing but the innermost frame and plain values.
LEMMA ReturnTypes ==
  ASSUME TypeOK, depth > 0, NEW result \in BOOLEAN, NEW keep \in BOOLEAN,
         NEW pc \in PumpPoints
  PROVE  /\ [state_ EXCEPT ![depth] = DelegateReturns(@, result, keep)]
              \in [1 .. MaxDepth -> RunState]
         /\ [state_ EXCEPT ![depth].pc = pc] \in [1 .. MaxDepth -> RunState]
<1>1. depth \in 1 .. MaxDepth /\ state_[depth] \in RunState
  BY TopType DEF Top
<1>2. state_ \in [1 .. MaxDepth -> RunState]
  BY DEF TypeOK
<1>3. DelegateReturns(state_[depth], result, keep) \in RunState
  BY <1>1, DelegateFrame
<1>4. [state_[depth] EXCEPT !.pc = pc] \in RunState
  BY <1>1 DEF RunState
<1> QED
  BY <1>1, <1>2, <1>3, <1>4

\* A task starts.
LEMMA RunTaskTypes ==
  ASSUME TypeOK, depth > 0, NEW t \in Tasks, RunTask(t)
  PROVE  /\ state_' \in [1 .. MaxDepth -> RunState]
         /\ nestable_tasks_allowed_' \in BOOLEAN
         /\ status' \in [Tasks -> {"unposted", "posting", "queued", "running", "done",
                                   "deleted", "rejected"}]
<1>1. depth \in 1 .. MaxDepth /\ state_[depth] \in RunState
  BY TopType DEF Top
<1>2. [state_[depth] EXCEPT !.task = t] \in RunState
  BY <1>1 DEF RunState
<1> QED
  BY <1>1, <1>2 DEF RunTask, TypeOK

\* A task starts or is deferred.
LEMMA DeferTypes ==
  ASSUME TypeOK, depth > 0, NEW t \in Tasks, NEW r \in RunState, DeferOrRunPendingTask(t, r)
  PROVE  /\ state_' \in [1 .. MaxDepth -> RunState]
         /\ nestable_tasks_allowed_' \in BOOLEAN
         /\ status' \in [Tasks -> {"unposted", "posting", "queued", "running", "done",
                                   "deleted", "rejected"}]
         /\ deferred_non_nestable_work_queue_' \in Seq(Tasks)
<1>1. CASE RunTask(t) /\ UNCHANGED deferred_non_nestable_work_queue_
  BY <1>1, RunTaskTypes DEF TypeOK
<1>2. CASE /\ deferred_non_nestable_work_queue_' = Append(deferred_non_nestable_work_queue_, t)
           /\ state_' = [state_ EXCEPT ![depth] = r]
           /\ UNCHANGED <<nestable_tasks_allowed_, status>>
  BY <1>2, TopType DEF TypeOK
<1> QED
  BY <1>1, <1>2 DEF DeferOrRunPendingTask

\* DoWork, DoDelayedWork, DoIdleWork.
LEMMA DelegateTypes ==
  ASSUME Types,
         \/ DoWorkNothing \/ ReloadWorkQueue \/ AddToDelayedWorkQueue \/ DoWorkTask
         \/ DoDelayedWorkNothing
         \/ \E t \in delayed_work_queue_ : DoDelayedWorkEarly(t) \/ DoDelayedWorkTask(t)
         \/ ProcessNextDelayedNonNestableTask \/ DoIdleWorkQuit
  PROVE  Types'
<1> USE DEF queues, timers, runs, pump, proxy, posts, Pumping
<1>1. NullTime \in Times /\ \A t \in Tasks : pending[t].delayed_run_time \in Times
  BY ConstantsAssumption DEF ConstantsAssumption, Times, NullTime, Types, TypeOK, PendingTask
<1>2. \A t \in Tasks : RecentTime(pending[t].delayed_run_time) \in Times
  BY DEF RecentTime, Types, TypeOK
<1>3. CASE DoWorkNothing
  BY <1>3, ReturnTypes DEF DoWorkNothing, ReturnToPump, Types, TypeOK, PumpPoints
<1>4. CASE ReloadWorkQueue
  BY <1>4 DEF ReloadWorkQueue, Types, TypeOK
<1>5. CASE AddToDelayedWorkQueue
  <2>1. Head(work_queue_) \in Tasks /\ Tail(work_queue_) \in Seq(Tasks)
    BY <1>5 DEF AddToDelayedWorkQueue, Types, TypeOK
  <2>2. next_sequence_num_' \in 0 .. SeqMod - 1
    <3>1. next_sequence_num_ + 1 \in Int
      BY ConstantsAssumption DEF ConstantsAssumption, Types, TypeOK
    <3>2. next_sequence_num_' = (next_sequence_num_ + 1) % SeqMod
      BY <1>5 DEF AddToDelayedWorkQueue, NextSequenceNum
    <3> QED
      BY <3>1, <3>2, ModRange
  <2>3. pending' \in [Tasks -> PendingTask]
    <3> DEFINE t == Head(work_queue_)
    <3>1. pending' = [pending EXCEPT ![t].sequence_num = next_sequence_num_]
      BY <1>5 DEF AddToDelayedWorkQueue
    <3>2. t \in Tasks /\ pending \in [Tasks -> PendingTask] /\ next_sequence_num_ \in 0 .. SeqMod - 1
      BY <2>1 DEF Types, TypeOK
    <3>3. [pending[t] EXCEPT !.sequence_num = next_sequence_num_] \in PendingTask
      BY <3>2 DEF PendingTask
    <3> QED
      BY <3>1, <3>2, <3>3
  <2>4. delayed_work_time_' \in Times
    BY <1>1, <1>5, <2>1 DEF AddToDelayedWorkQueue, Types, TypeOK
  <2> QED
    BY <1>5, <2>1, <2>2, <2>3, <2>4 DEF AddToDelayedWorkQueue, Types, TypeOK
<1>6. CASE DoWorkTask
  <2>1. Head(work_queue_) \in Tasks /\ Tail(work_queue_) \in Seq(Tasks)
    BY <1>6 DEF DoWorkTask, Types, TypeOK
  <2>2. Top \in RunState
    BY <1>6, TopType DEF DoWorkTask, Types
  <2> QED
    BY <1>6, <2>1, <2>2, DeferTypes DEF DoWorkTask, Types, TypeOK
<1>7. CASE DoDelayedWorkNothing
  <2>1. state_' \in [1 .. MaxDepth -> RunState]
    BY <1>7, ReturnTypes DEF DoDelayedWorkNothing, ReturnToPump, Types, TypeOK, PumpPoints
  <2> QED
    BY <1>1, <1>7, <2>1 DEF DoDelayedWorkNothing, Types, TypeOK
<1>8. ASSUME NEW t \in delayed_work_queue_, DoDelayedWorkEarly(t) PROVE Types'
  <2>1. t \in Tasks
    BY DEF Types, TypeOK
  <2> QED
    BY <1>1, <1>2, <1>8, <2>1, ReturnTypes
    DEF DoDelayedWorkEarly, ReturnToPump, Types, TypeOK, PumpPoints
<1>9. ASSUME NEW t \in delayed_work_queue_, DoDelayedWorkTask(t) PROVE Types'
  <2>1. t \in Tasks /\ delayed_work_queue_ \ {t} \subseteq Tasks
    BY DEF Types, TypeOK
  <2>2. DelegateReturns(Top, FALSE, keep_running_) \in RunState
    BY <1>9, TopType, DelegateFrame DEF DoDelayedWorkTask, Types, TypeOK
  <2>3. delayed_work_time_' \in Times
    BY <1>1, <1>9, <2>1 DEF DoDelayedWorkTask, Types, TypeOK
  <2> QED
    BY <1>2, <1>9, <2>1, <2>2, <2>3, DeferTypes DEF DoDelayedWorkTask, Types, TypeOK
<1>10. CASE ProcessNextDelayedNonNestableTask
  <2>1. Head(deferred_non_nestable_work_queue_) \in Tasks
        /\ Tail(deferred_non_nestable_work_queue_) \in Seq(Tasks)
    BY <1>10 DEF ProcessNextDelayedNonNestableTask, Types, TypeOK
  <2> QED
    BY <1>10, <2>1, RunTaskTypes DEF ProcessNextDelayedNonNestableTask, Types, TypeOK
<1>11. CASE DoIdleWorkQuit
  <2>1. keep_running_' \in BOOLEAN
    BY <1>11 DEF DoIdleWorkQuit
  <2>2. state_' \in [1 .. MaxDepth -> RunState]
    BY <1>11, <2>1, ReturnTypes DEF DoIdleWorkQuit, Types, PumpPoints
  <2> QED
    BY <1>11, <2>1, <2>2 DEF DoIdleWorkQuit, Types, TypeOK
<1> QED
  BY <1>3, <1>4, <1>5, <1>6, <1>7, <1>8, <1>9, <1>10, <1>11

\* The rest of the pump.
LEMMA PumpTypes ==
  ASSUME Types, Sleep \/ WakeBySignal \/ WakeByTimeout \/ LeaveRun
  PROVE  Types'
<1> USE DEF queues, timers, runs, pump, proxy, posts, Pumping
<1>1. CASE Sleep
  <2>1. delayed_work_time_' \in Times
    BY <1>1, ConstantsAssumption DEF ConstantsAssumption, Sleep, Types, TypeOK, Times, NullTime
  <2>2. state_' \in [1 .. MaxDepth -> RunState]
    BY <1>1, ReturnTypes DEF Sleep, SetPumpPoint, Types, PumpPoints
  <2> QED
    BY <1>1, <2>1, <2>2 DEF Sleep, Types, TypeOK
<1>2. CASE WakeBySignal \/ WakeByTimeout
  <2>1. state_' \in [1 .. MaxDepth -> RunState]
    BY <1>2, ReturnTypes DEF WakeBySignal, WakeByTimeout, SetPumpPoint, Types, PumpPoints
  <2> QED
    BY <1>2, <2>1 DEF WakeBySignal, WakeByTimeout, Types, TypeOK
<1>3. CASE LeaveRun
  <2>1. Top \in RunState /\ depth \in 1 .. MaxDepth
    BY <1>3, TopType DEF LeaveRun, Types
  <2>2. NoRunState \in RunState
    BY DEF NoRunState, RunState, PumpPoints
  <2>3. state_' \in [1 .. MaxDepth -> RunState]
    BY <1>3, <2>2 DEF LeaveRun, Types, TypeOK
  <2>4. depth' \in 0 .. MaxDepth
    BY <1>3, <2>1, ConstantsAssumption DEF ConstantsAssumption, LeaveRun
  <2>5. nestable_tasks_allowed_' \in BOOLEAN /\ event_' \in BOOLEAN
    BY <1>3, <2>1 DEF LeaveRun, SetNestableTasksAllowed, Types, TypeOK, RunState
  <2> QED
    BY <1>3, <2>3, <2>4, <2>5 DEF LeaveRun, Types, TypeOK
<1> QED
  BY <1>1, <1>2, <1>3
\* What the client does on the loop thread.
LEMMA ClientTypes ==
  ASSUME Types, (\E r \in Runs : EnterRun(r)) \/ Quit \/ QuitNow \/ FinishTask \/ DestroyBegin
  PROVE  Types'
<1> USE DEF queues, timers, runs, pump, proxy, posts
<1>1. ASSUME NEW r \in Runs, EnterRun(r) PROVE Types'
  <2>1. depth + 1 \in 1 .. MaxDepth /\ depth' = depth + 1
    BY <1>1, ConstantsAssumption DEF ConstantsAssumption, EnterRun, Types, TypeOK
  <2> DEFINE f == [quit_received |-> r.kind = "RunAllPending", pc |-> "DoWork",
                   did_work |-> FALSE, task |-> NoTask, allower |-> r.allower,
                   old_state |-> nestable_tasks_allowed_,
                   owed |-> IF r.kind = "Run" THEN {}
                            ELSE Elements(incoming_queue_) \cup Elements(work_queue_)]
  <2>2. r.allower \in BOOLEAN /\ nestable_tasks_allowed_ \in BOOLEAN
        /\ Elements(incoming_queue_) \cup Elements(work_queue_) \subseteq Tasks
    BY DEF Runs, Types, TypeOK, Elements
  <2>3. f \in RunState
    BY <2>2 DEF RunState, PumpPoints
  <2>4. state_' = [state_ EXCEPT ![depth + 1] = f]
    BY <1>1 DEF EnterRun
  <2> HIDE DEF f
  <2>5. state_' \in [1 .. MaxDepth -> RunState]
    BY <2>3, <2>4 DEF Types, TypeOK
  <2>6. nestable_tasks_allowed_' \in BOOLEAN /\ event_' \in BOOLEAN
    BY <1>1, <2>2 DEF EnterRun, SetNestableTasksAllowed, Types, TypeOK
  <2>7. depth' \in 0 .. MaxDepth
    BY <2>1
  <2> QED
    BY <1>1, <2>5, <2>6, <2>7 DEF EnterRun, Types, TypeOK
<1>2. CASE Quit
  <2>1. depth \in 1 .. MaxDepth /\ state_[depth] \in RunState
    BY <1>2, TopType DEF Quit, InTask, Types, Top
  <2> DEFINE o == Elements(incoming_queue_) \cup Elements(work_queue_)
  <2>2. o \subseteq Tasks
    BY DEF Types, TypeOK, Elements
  <2>3. [state_[depth] EXCEPT !.quit_received = TRUE, !.owed = o] \in RunState
    BY <2>1, <2>2 DEF RunState
  <2>4. state_' = [state_ EXCEPT ![depth] = [state_[depth] EXCEPT !.quit_received = TRUE, !.owed = o]]
    BY <1>2, <2>1 DEF Quit, Types, TypeOK
  <2> HIDE DEF o
  <2>5. state_' \in [1 .. MaxDepth -> RunState]
    BY <2>1, <2>3, <2>4 DEF Types, TypeOK
  <2> QED
    BY <1>2, <2>5 DEF Quit, Types, TypeOK
<1>3. CASE QuitNow
  BY <1>3 DEF QuitNow, Types, TypeOK
<1>4. CASE FinishTask
  <2>1. depth \in 1 .. MaxDepth /\ Top \in RunState /\ Top = state_[depth]
    BY <1>4, TopType DEF FinishTask, InTask, Types, Top
  <2>2. [Top EXCEPT !.task = NoTask] \in RunState
    BY <2>1 DEF RunState
  <2>3. DelegateReturns([Top EXCEPT !.task = NoTask], TRUE, keep_running_) \in RunState
    BY <2>2, DelegateFrame DEF Types, TypeOK
  <2>4. state_' \in [1 .. MaxDepth -> RunState]
    BY <1>4, <2>1, <2>3 DEF FinishTask, Types, TypeOK
  <2>5. pending' \in [Tasks -> PendingTask] /\ before' \in [Tasks -> SUBSET Tasks]
    BY <1>4, ForgetType DEF FinishTask, Types
  <2> QED
    BY <1>4, <2>4, <2>5 DEF FinishTask, Types, TypeOK
<1>5. CASE DestroyBegin
  BY <1>5, ConstantsAssumption DEF ConstantsAssumption, DestroyBegin, DtorStep, Types, TypeOK
<1> QED
  BY <1>1, <1>2, <1>3, <1>4, <1>5

\* The destructor's count of passes stays within its limit.
LEMMA DtorStepTypes ==
  ASSUME Types, DtorNext
  PROVE  /\ dtor' \in [pc : {"none", "DeleteFirst", "Reload", "DeleteSecond", "Observers",
                             "Members", "Gone"}, i : 0 .. DtorLimit, did_work : BOOLEAN]
         /\ dtor'.pc \in {"DeleteFirst", "Reload", "DeleteSecond"} => dtor'.i < DtorLimit
<1>1. DtorLimit \in Nat \ {0}
  BY ConstantsAssumption DEF ConstantsAssumption
<1>2. CASE DtorDeleteFirst \/ DtorReload \/ WillDestroyCurrentMessageLoop \/ DtorMembers
  BY <1>1, <1>2 DEF DtorDeleteFirst, DtorReload, WillDestroyCurrentMessageLoop, DtorMembers,
     DtorStep, Types, TypeOK
<1>3. CASE DtorDeleteSecond
  <2>1. dtor.i \in 0 .. DtorLimit /\ dtor.i < DtorLimit
    BY <1>3 DEF DtorDeleteSecond, DtorStep, Types, TypeOK
  <2>2. CASE ~(Held # {}) \/ dtor.i + 1 = DtorLimit
    BY <1>3, <2>1, <2>2 DEF DtorDeleteSecond, DtorStep
  <2>3. CASE ~(~(Held # {}) \/ dtor.i + 1 = DtorLimit)
    <3>1. dtor' = [pc |-> "DeleteFirst", i |-> dtor.i + 1, did_work |-> Held # {}]
      BY <1>3, <2>3 DEF DtorDeleteSecond, DtorStep
    <3>2. dtor.i + 1 \in 0 .. DtorLimit /\ dtor.i + 1 < DtorLimit
      BY <1>1, <2>1, <2>3
    <3> QED
      BY <3>1, <3>2
  <2> QED
    BY <2>2, <2>3
<1> QED
  BY <1>2, <1>3 DEF DtorNext

\* ~MessageLoop.
LEMMA DtorTypes ==
  ASSUME Types, DtorNext
  PROVE  Types'
<1> USE DEF queues, timers, runs, pump, proxy, posts
<1>1. <<>> \in Seq(Tasks)
  OBVIOUS
<1>2. CASE DtorReload \/ WillDestroyCurrentMessageLoop
  <2>1. CASE DtorReload
    BY <1>1, <2>1, DtorStepTypes DEF DtorReload, Types, TypeOK
  <2>2. CASE WillDestroyCurrentMessageLoop
    BY <2>2, DtorStepTypes DEF WillDestroyCurrentMessageLoop, Types, TypeOK
  <2> QED
    BY <1>2, <2>1, <2>2
<1>3. CASE DeletePendingTasks
  <2>1. next_sequence_num_' \in 0 .. SeqMod - 1
    <3> DEFINE delayed == {i \in DOMAIN work_queue_ : IsDelayed(work_queue_[i])}
    <3>1. Cardinality(delayed) \in Nat
      <4>1. IsFiniteSet(DOMAIN work_queue_)
        <5>1. DOMAIN work_queue_ = 1 .. Len(work_queue_) /\ Len(work_queue_) \in Nat
          BY DEF Types, TypeOK
        <5> QED
          BY <5>1, FS_Interval
      <4> QED
        BY <4>1, FS_Subset, FS_CardinalityType
    <3>2. next_sequence_num_' = (next_sequence_num_ + Cardinality(delayed)) % SeqMod
      BY <1>3 DEF DeletePendingTasks
    <3>3. next_sequence_num_ \in Int
      BY ConstantsAssumption DEF ConstantsAssumption, Types, TypeOK
    <3> HIDE DEF delayed
    <3>4. next_sequence_num_ + Cardinality(delayed) \in Int
      BY <3>1, <3>3
    <3> QED
      BY <3>2, <3>4, ModRange
  <2>2. pending' \in [Tasks -> PendingTask] /\ before' \in [Tasks -> SUBSET Tasks]
    BY <1>3, ForgetType DEF DeletePendingTasks, Types
  <2> QED
    BY <1>1, <1>3, <2>1, <2>2, DtorStepTypes DEF DeletePendingTasks, Types, TypeOK
<1>4. CASE DtorMembers
  <2>1. pending' \in [Tasks -> PendingTask] /\ before' \in [Tasks -> SUBSET Tasks]
    BY <1>4, ForgetType DEF DtorMembers, Types
  <2> QED
    BY <1>1, <1>4, <2>1, DtorStepTypes DEF DtorMembers, Types, TypeOK
<1> QED
  BY <1>2, <1>3, <1>4 DEF DtorNext, DtorDeleteFirst, DtorDeleteSecond

\* Every step keeps the types.
LEMMA NextTypes == Types /\ [Next]_vars => Types'
<1> SUFFICES ASSUME Types, [Next]_vars PROVE Types'
  OBVIOUS
<1>1. CASE PumpStep
  BY <1>1, DelegateTypes, PumpTypes DEF PumpStep
<1>2. CASE ClientStep
  BY <1>2, PostTypes, ClientTypes DEF ClientStep
<1>3. CASE Tick
  BY <1>3, ConstantsAssumption DEF ConstantsAssumption, Tick, Types, TypeOK, Times,
     queues, timers, runs, pump, proxy, posts
<1>4. CASE UNCHANGED vars
  BY <1>4 DEF vars, Types, TypeOK, queues, timers, runs, pump, proxy, posts
<1> QED
  BY <1>1, <1>2, <1>3, <1>4, PostTypes, DtorTypes DEF Next

\* Types is inductive.
LEMMA TypesInvariant == Spec => []Types
BY InitTypes, NextTypes, PTL DEF Spec
-----------------------------------------------------------------------------
(* Steps by what they do to the frames of the loop thread *)

\* The head of a queue is in it.
LEMMA HeadElement ==
  ASSUME NEW S, NEW q \in Seq(S), q # <<>>
  PROVE  Head(q) \in Elements(q)
BY DEF Elements

Still == UNCHANGED <<depth, state_, nestable_tasks_allowed_>>

\* The innermost pump goes on, without a task.
Moves ==
  /\ depth > 0 /\ Top.task = NoTask
  /\ UNCHANGED <<depth, nestable_tasks_allowed_>>
  /\ \E r \in RunState :
       /\ state_' = [state_ EXCEPT ![depth] = r]
       /\ r.task = NoTask /\ r.allower = Top.allower
       /\ r.old_state = Top.old_state /\ r.owed = Top.owed

\* The innermost pump starts t, out of one of its queues.
Begins(t) ==
  /\ depth > 0 /\ Top.task = NoTask
  /\ t \in Held
  /\ RunTask(t)
  /\ nestable_tasks_allowed_ \/ depth = 1
  /\ pending[t].nestable \/ depth = 1
  /\ UNCHANGED <<depth, pending, now>>

\* The steps of the pump's delegate.
LEMMA DelegateKinds ==
  ASSUME TypeOK,
         \/ DoWorkNothing \/ DoWorkTask \/ DoDelayedWorkNothing
         \/ \E t \in delayed_work_queue_ : DoDelayedWorkEarly(t) \/ DoDelayedWorkTask(t)
         \/ ProcessNextDelayedNonNestableTask \/ DoIdleWorkQuit
  PROVE  Moves \/ \E t \in Tasks : Begins(t)
<1> USE DEF queues, timers, runs, pump, proxy, posts
<1>1. ASSUME depth > 0, Top.task = NoTask, NEW result \in BOOLEAN, NEW keep \in BOOLEAN,
             state_' = [state_ EXCEPT ![depth] = DelegateReturns(@, result, keep)],
             UNCHANGED <<depth, nestable_tasks_allowed_>>
      PROVE  Moves
  <2>1. Top \in RunState /\ depth \in 1 .. MaxDepth
    BY <1>1, TopType
  <2>2. state_' = [state_ EXCEPT ![depth] = DelegateReturns(Top, result, keep)]
    BY <1>1, <2>1 DEF TypeOK, Top
  <2> QED
    <3> DEFINE r == DelegateReturns(Top, result, keep)
    <3>1. /\ r \in RunState /\ r.task = NoTask /\ r.allower = Top.allower
          /\ r.old_state = Top.old_state /\ r.owed = Top.owed
      BY <1>1, <2>1, DelegateFrame
    <3>2. state_' = [state_ EXCEPT ![depth] = r]
      BY <2>2
    <3> HIDE DEF r
    <3> QED
      BY <1>1, <3>1, <3>2 DEF Moves
<1>2. ASSUME depth > 0, Top.task = NoTask, NEW t \in Tasks, t \in Held, nestable_tasks_allowed_,
             DeferOrRunPendingTask(t, Top)
               \/ DeferOrRunPendingTask(t, DelegateReturns(Top, FALSE, keep_running_)),
             UNCHANGED <<depth, pending, now>>
      PROVE  Moves \/ Begins(t)
  <2>1. Top \in RunState /\ DelegateReturns(Top, FALSE, keep_running_) \in RunState
    BY <1>2, TopType, DelegateFrame DEF TypeOK
  <2>2. CASE pending[t].nestable \/ depth = 1
    BY <1>2, <2>2 DEF DeferOrRunPendingTask, Begins
  <2>3. CASE ~(pending[t].nestable \/ depth = 1)
    <3>1. PICK r \in {Top, DelegateReturns(Top, FALSE, keep_running_)} :
            state_' = [state_ EXCEPT ![depth] = r] /\ UNCHANGED nestable_tasks_allowed_
      BY <1>2, <2>3 DEF DeferOrRunPendingTask
    <3>2. r \in RunState /\ r.task = NoTask /\ r.allower = Top.allower
          /\ r.old_state = Top.old_state /\ r.owed = Top.owed
      <4>1. CASE r = Top
        BY <1>2, <2>1, <4>1
      <4>2. CASE r = DelegateReturns(Top, FALSE, keep_running_)
        BY <1>2, <2>1, <4>2, DelegateFrame DEF TypeOK
      <4> QED
        BY <3>1, <4>1, <4>2
    <3> QED
      BY <1>2, <3>1, <3>2 DEF Moves
  <2> QED
    BY <2>2, <2>3
<1>3. CASE DoWorkNothing \/ DoDelayedWorkNothing
           \/ \E t \in delayed_work_queue_ : DoDelayedWorkEarly(t)
  BY <1>1, <1>3 DEF DoWorkNothing, DoDelayedWorkNothing, DoDelayedWorkEarly, ReturnToPump,
     Pumping, TypeOK
<1>4. CASE DoIdleWorkQuit
  <2>1. keep_running_' \in BOOLEAN
    BY <1>4 DEF DoIdleWorkQuit
  <2> QED
    BY <1>1, <1>4, <2>1 DEF DoIdleWorkQuit, Pumping
<1>5. CASE DoWorkTask
  <2>1. Head(work_queue_) \in Tasks /\ Head(work_queue_) \in Held
    BY <1>5, HeadElement DEF DoWorkTask, TypeOK, Held
  <2> QED
    BY <1>2, <1>5, <2>1 DEF DoWorkTask, Pumping
<1>6. CASE \E t \in delayed_work_queue_ : DoDelayedWorkTask(t)
  <2>1. PICK t \in delayed_work_queue_ : DoDelayedWorkTask(t)
    BY <1>6
  <2>2. t \in Tasks /\ t \in Held
    BY DEF TypeOK, Held
  <2> QED
    BY <1>2, <2>1, <2>2 DEF DoDelayedWorkTask, Pumping
<1>7. CASE ProcessNextDelayedNonNestableTask
  <2>1. Head(deferred_non_nestable_work_queue_) \in Tasks
        /\ Head(deferred_non_nestable_work_queue_) \in Held
    BY <1>7, HeadElement DEF ProcessNextDelayedNonNestableTask, TypeOK, Held
  <2> QED
    BY <1>7, <2>1 DEF ProcessNextDelayedNonNestableTask, Begins, Pumping
<1> QED
  BY <1>3, <1>4, <1>5, <1>6, <1>7

\* Every step, by what it does to the frames.
LEMMA FrameKinds ==
  ASSUME TypeOK, [Next]_vars
  PROVE  \/ Still \/ Moves \/ \E t \in Tasks : Begins(t)
         \/ Quit \/ FinishTask \/ LeaveRun \/ \E r \in Runs : EnterRun(r)
<1> USE DEF queues, timers, runs, pump, proxy, posts
<1>1. CASE Sleep \/ WakeBySignal \/ WakeByTimeout
  <2>1. /\ depth > 0 /\ Top.task = NoTask /\ UNCHANGED <<depth, nestable_tasks_allowed_>>
        /\ \E pc \in PumpPoints : state_' = [state_ EXCEPT ![depth].pc = pc]
    BY <1>1 DEF Sleep, WakeBySignal, WakeByTimeout, SetPumpPoint, Pumping, PumpPoints
  <2>2. PICK pc \in PumpPoints : state_' = [state_ EXCEPT ![depth].pc = pc]
    BY <2>1
  <2>3. Top \in RunState /\ depth \in 1 .. MaxDepth
    BY <2>1, TopType
  <2>4. state_' = [state_ EXCEPT ![depth] = [Top EXCEPT !.pc = pc]]
    BY <2>2, <2>3 DEF TypeOK, Top
  <2>5. /\ [Top EXCEPT !.pc = pc] \in RunState
        /\ [Top EXCEPT !.pc = pc].task = Top.task
        /\ [Top EXCEPT !.pc = pc].allower = Top.allower
        /\ [Top EXCEPT !.pc = pc].old_state = Top.old_state
        /\ [Top EXCEPT !.pc = pc].owed = Top.owed
    BY <2>3 DEF RunState
  <2> QED
    BY <2>1, <2>4, <2>5 DEF Moves
<1>2. CASE ReloadWorkQueue \/ AddToDelayedWorkQueue \/ QuitNow \/ DestroyBegin
           \/ \E t \in Tasks, k \in PostKinds : LoopThreadPost(t, k)
  BY <1>2 DEF ReloadWorkQueue, AddToDelayedWorkQueue, QuitNow, DestroyBegin, LoopThreadPost, Still
<1>3. CASE DtorNext
  BY <1>3 DEF DtorNext, DtorDeleteFirst, DtorReload, DtorDeleteSecond, DeletePendingTasks,
     WillDestroyCurrentMessageLoop, DtorMembers, Still
<1>4. CASE PosterStep
  BY <1>4 DEF PosterStep, PostContinue, PostBegin, PostRejected, AddToIncomingQueue,
     ScheduleWork, Still
<1>5. CASE Tick \/ UNCHANGED vars
  BY <1>5 DEF Tick, vars, Still
<1>6. CASE PumpStep
  BY <1>1, <1>2, <1>6, DelegateKinds DEF PumpStep
<1>7. CASE ClientStep
  BY <1>2, <1>7 DEF ClientStep
<1> QED
  BY <1>3, <1>4, <1>5, <1>6, <1>7 DEF Next

\* A PendingTask keeps its flags and its time from the post to its end.
LEMMA PendingKept ==
  ASSUME TypeOK, [Next]_vars, NEW t \in Tasks, status[t] # "unposted"
  PROVE  /\ status'[t] # "unposted"
         /\ \/ pending'[t] = NoPending /\ status'[t] \in {"done", "deleted"}
            \/ /\ pending'[t].nestable = pending[t].nestable
               /\ pending'[t].delayed_run_time = pending[t].delayed_run_time
<1> USE DEF queues, timers, runs, pump, proxy, posts
<1>1. CASE PosterStep
  <2>1. ASSUME NEW p \in Posters, NEW u \in Tasks, NEW k \in PostKinds, PostBegin(p, u, k)
        PROVE  status'[t] = status[t] /\ pending'[t] = pending[t]
    BY <2>1 DEF PostBegin, TypeOK
  <2>2. ASSUME NEW p \in Posters, NEW u \in Tasks, PostRejected(p, u)
        PROVE  status'[t] = status[t] /\ pending' = pending
    BY <2>2 DEF PostRejected, TypeOK
  <2>3. ASSUME NEW p \in Posters, PostContinue(p)
        PROVE  status'[t] # "unposted" /\ pending' = pending
    BY <2>3 DEF PostContinue, AddToIncomingQueue, ScheduleWork, TypeOK
  <2> QED
    BY <1>1, <2>1, <2>2, <2>3 DEF PosterStep
<1>2. ASSUME NEW u \in Tasks, NEW k \in PostKinds, LoopThreadPost(u, k)
      PROVE  status'[t] = status[t] /\ pending'[t] = pending[t]
  BY <1>2 DEF LoopThreadPost, TypeOK
<1>3. CASE FinishTask
  BY <1>3 DEF FinishTask, Forget, TypeOK
<1>4. CASE DtorNext
  BY <1>4 DEF DtorNext, DtorDeleteFirst, DtorReload, DtorDeleteSecond, DeletePendingTasks,
     WillDestroyCurrentMessageLoop, DtorMembers, Forget
<1>5. CASE AddToDelayedWorkQueue
  <2>1. status' = status /\ Head(work_queue_) \in Tasks
        /\ pending' = [pending EXCEPT ![Head(work_queue_)].sequence_num = next_sequence_num_]
    BY <1>5 DEF AddToDelayedWorkQueue, TypeOK
  <2> QED
    BY <2>1 DEF TypeOK, PendingTask
<1>6. ASSUME NEW u \in Tasks, RunTask(u) \/ status' = status, pending' = pending
      PROVE  status'[t] # "unposted" /\ pending'[t] = pending[t]
  BY <1>6 DEF RunTask, TypeOK
<1>7. CASE DoWorkTask
  <2>1. Head(work_queue_) \in Tasks
    BY <1>7 DEF DoWorkTask, TypeOK
  <2> QED
    BY <1>6, <1>7, <2>1 DEF DoWorkTask, DeferOrRunPendingTask
<1>8. CASE \E u \in delayed_work_queue_ : DoDelayedWorkTask(u)
  BY <1>6, <1>8 DEF DoDelayedWorkTask, DeferOrRunPendingTask, TypeOK
<1>9. CASE ProcessNextDelayedNonNestableTask
  <2>1. Head(deferred_non_nestable_work_queue_) \in Tasks
    BY <1>9 DEF ProcessNextDelayedNonNestableTask, TypeOK
  <2> QED
    BY <1>6, <1>9, <2>1 DEF ProcessNextDelayedNonNestableTask
<1>10. CASE \/ DoWorkNothing \/ ReloadWorkQueue \/ DoDelayedWorkNothing \/ DoIdleWorkQuit
            \/ Sleep \/ WakeBySignal \/ WakeByTimeout \/ LeaveRun
            \/ \E u \in delayed_work_queue_ : DoDelayedWorkEarly(u)
  BY <1>10 DEF DoWorkNothing, ReloadWorkQueue, DoDelayedWorkNothing, DoIdleWorkQuit, Sleep,
     WakeBySignal, WakeByTimeout, LeaveRun, DoDelayedWorkEarly
<1>11. CASE Quit \/ QuitNow \/ DestroyBegin \/ Tick \/ UNCHANGED vars
            \/ \E r \in Runs : EnterRun(r)
  BY <1>11 DEF Quit, QuitNow, DestroyBegin, Tick, EnterRun, vars
<1> QED
  BY <1>1, <1>2, <1>3, <1>4, <1>5, <1>7, <1>8, <1>9, <1>10, <1>11
  DEF Next, PumpStep, ClientStep
-----------------------------------------------------------------------------
(* The invariants *)

\* Nested Run() calls.  Below the innermost frame every frame is inside a task;
\* a pump that runs tasks is the outermost or has a ScopedNestableTaskAllower,
\* which will put back the block that it found.
Nesting ==
  /\ \A d \in 1 .. depth : d < depth => state_[d].task # NoTask
  /\ \A d \in 1 .. depth : state_[d].allower => d # 1 /\ ~state_[d].old_state
  /\ \A d \in 1 .. depth : state_[d].task # NoTask => d = 1 \/ state_[d].allower
  /\ depth = 0 => nestable_tasks_allowed_
  /\ InTask => ~nestable_tasks_allowed_
  /\ depth > 0 /\ ~InTask => (nestable_tasks_allowed_ <=> (depth = 1 \/ Top.allower))
  /\ \A d \in 1 .. depth : state_[d].task # NoTask => status[state_[d].task] # "unposted"
  /\ NonNestableNotNested

NoDup(q) == \A i, j \in DOMAIN q : q[i] = q[j] => i = j

\* A task is in at most one queue, and the queued tasks are those in the queues.
Places ==
  /\ NoDup(incoming_queue_) /\ NoDup(work_queue_) /\ NoDup(deferred_non_nestable_work_queue_)
  /\ Elements(incoming_queue_) \cap Held = {}
  /\ Elements(work_queue_) \cap delayed_work_queue_ = {}
  /\ Elements(work_queue_) \cap Elements(deferred_non_nestable_work_queue_) = {}
  /\ delayed_work_queue_ \cap Elements(deferred_non_nestable_work_queue_) = {}
  /\ \A t \in Tasks : status[t] = "queued" <=> t \in Elements(incoming_queue_) \cup Held

\* The running tasks are those in the frames, each in one.
Frames ==
  /\ \A d \in 1 .. depth : state_[d].task # NoTask => status[state_[d].task] = "running"
  /\ \A c, d \in 1 .. depth : state_[c].task # NoTask /\ state_[c].task = state_[d].task => c = d
  /\ \A t \in Tasks : status[t] = "running" => \E d \in 1 .. depth : state_[d].task = t
  /\ \A d \in 1 .. depth : state_[d].owed \subseteq Entered

\* A poster past its check of target_message_loop_ has the lock, and with it the
\* loop; ~MessageLoop runs outside every Run().
Posts ==
  /\ \A p \in Posters : poster[p].pc # "idle" => message_loop_lock_ = p /\ target_message_loop_
  /\ \A p \in Posters : poster[p].pc = "push" => status[poster[p].task] = "posting"
  /\ \A t \in Tasks : status[t] = "posting" =>
       \E p \in Posters : poster[p].pc = "push" /\ poster[p].task = t
  /\ target_message_loop_ <=> dtor.pc \notin {"Members", "Gone"}
  /\ dtor.pc # "none" => depth = 0
  /\ dtor.pc = "Reload" => work_queue_ = <<>>
  /\ dtor.pc = "Gone" => Elements(incoming_queue_) \cup Held = {}

\* The cached clock is never ahead; what waits in delayed_work_queue_ has a time,
\* and what was deferred or runs is due.
OnTime ==
  /\ recent_time_ <= now
  /\ \A t \in delayed_work_queue_ : IsDelayed(t)
  /\ \A t \in Elements(deferred_non_nestable_work_queue_) : pending[t].delayed_run_time <= now
  /\ NeverEarly

\* The innermost pump may run tasks and has found no work since its last one.
Looked ==
  /\ depth > 0 /\ Top.task = NoTask /\ nestable_tasks_allowed_
  /\ \/ Top.pc \in {"DoIdleWork", "Sleep", "Wait", "TimedWait"}
     \/ Top.pc = "DoDelayedWork" /\ ~Top.did_work

\* Then nothing is left in work_queue_; what came meanwhile is announced, and is
\* not among what the quitter waits for; and the pump knows the earliest time.
Drained ==
  Looked =>
    /\ work_queue_ = <<>>
    /\ incoming_queue_ = <<>> \/ event_ \/ \E p \in Posters : poster[p].pc = "schedule"
    /\ Top.owed \cap Elements(incoming_queue_) = {}
    /\ Top.pc # "DoDelayedWork" =>
         \A t \in delayed_work_queue_ : /\ delayed_work_time_ # NullTime
                                        /\ delayed_work_time_ <= pending[t].delayed_run_time
-----------------------------------------------------------------------------
(* Nested Run() calls *)

\* What a step of a given kind does to a frame.
LEMMA MovesEffect ==
  ASSUME TypeOK, Moves
  PROVE  /\ depth \in 1 .. MaxDepth /\ depth' = depth
         /\ \A d \in 1 .. depth : /\ state_'[d].task = state_[d].task
                                  /\ state_'[d].allower = state_[d].allower
                                  /\ state_'[d].old_state = state_[d].old_state
                                  /\ state_'[d].owed = state_[d].owed
         /\ Top'.task = Top.task /\ Top'.allower = Top.allower
<1>1. depth \in 1 .. MaxDepth /\ Top = state_[depth]
  BY TopType DEF Moves, Top
<1>2. PICK r \in RunState :
        /\ state_' = [state_ EXCEPT ![depth] = r]
        /\ r.task = Top.task /\ r.allower = Top.allower
        /\ r.old_state = Top.old_state /\ r.owed = Top.owed
  BY DEF Moves
<1>3. state_'[depth] = r /\ \A d \in 1 .. MaxDepth : d # depth => state_'[d] = state_[d]
  BY <1>1, <1>2 DEF TypeOK
<1>4. depth' = depth /\ \A d \in 1 .. depth : d \in 1 .. MaxDepth
  BY <1>1, ConstantsAssumption DEF ConstantsAssumption, Moves
<1> QED
  BY <1>1, <1>2, <1>3, <1>4 DEF Top

\* What a task that begins does to the stack of frames.
LEMMA BeginsEffect ==
  ASSUME TypeOK, NEW t \in Tasks, Begins(t)
  PROVE  /\ depth \in 1 .. MaxDepth /\ depth' = depth /\ state_[depth].task = NoTask
         /\ state_'[depth].task = t /\ t # NoTask
         /\ \A d \in 1 .. depth : /\ d # depth => state_'[d].task = state_[d].task
                                  /\ state_'[d].allower = state_[d].allower
                                  /\ state_'[d].old_state = state_[d].old_state
                                  /\ state_'[d].owed = state_[d].owed
         /\ status'[t] = "running" /\ \A u \in Tasks : u # t => status'[u] = status[u]
         /\ ~nestable_tasks_allowed_'
<1>1. depth \in 1 .. MaxDepth /\ Top = state_[depth]
  BY TopType DEF Begins, Top
<1>2. /\ state_' = [state_ EXCEPT ![depth].task = t]
      /\ status' = [status EXCEPT ![t] = "running"] /\ ~nestable_tasks_allowed_'
  BY DEF Begins, RunTask
<1>3. \A d \in 1 .. MaxDepth :
        /\ state_[d] \in RunState
        /\ state_'[d] = IF d = depth THEN [state_[d] EXCEPT !.task = t] ELSE state_[d]
  BY <1>1, <1>2 DEF TypeOK
<1>4. \A d \in 1 .. depth : d \in 1 .. MaxDepth
  BY <1>1, ConstantsAssumption DEF ConstantsAssumption
<1>5. \A d \in 1 .. MaxDepth :
        /\ state_'[d].task = IF d = depth THEN t ELSE state_[d].task
        /\ state_'[d].allower = state_[d].allower
        /\ state_'[d].old_state = state_[d].old_state
        /\ state_'[d].owed = state_[d].owed
  BY <1>3 DEF RunState
<1>6. t # NoTask
  BY ConstantsAssumption DEF ConstantsAssumption
<1> QED
  BY <1>1, <1>2, <1>4, <1>5, <1>6 DEF Begins, TypeOK

\* What a task that ends does to the stack of frames.
LEMMA FinishEffect ==
  ASSUME TypeOK, FinishTask
  PROVE  /\ depth \in 1 .. MaxDepth /\ depth' = depth
         /\ Top.task \in Tasks /\ Top = state_[depth]
         /\ state_'[depth].task = NoTask
         /\ \A d \in 1 .. depth : /\ d # depth => state_'[d].task = state_[d].task
                                  /\ state_'[d].allower = state_[d].allower
                                  /\ state_'[d].old_state = state_[d].old_state
                                  /\ state_'[d].owed = state_[d].owed
         /\ status' = [status EXCEPT ![Top.task] = "done"]
         /\ nestable_tasks_allowed_'
<1>1. depth \in 1 .. MaxDepth /\ Top = state_[depth] /\ Top \in RunState
  BY TopType DEF FinishTask, InTask, Top
<1>2. Top.task \in Tasks
  BY <1>1 DEF FinishTask, InTask, RunState
<1> DEFINE s == [Top EXCEPT !.task = NoTask]
           r == DelegateReturns(s, TRUE, keep_running_)
<1>3. s \in RunState /\ s.task = NoTask /\ s.allower = Top.allower
      /\ s.old_state = Top.old_state /\ s.owed = Top.owed
  BY <1>1 DEF RunState
<1>4. r.task = NoTask /\ r.allower = Top.allower /\ r.old_state = Top.old_state
      /\ r.owed = Top.owed
  BY <1>3, DelegateFrame DEF TypeOK
<1>5. state_' = [state_ EXCEPT ![depth] = r]
  BY <1>1 DEF FinishTask, TypeOK
<1> HIDE DEF r
<1>6. state_'[depth] = r /\ \A d \in 1 .. MaxDepth : d # depth => state_'[d] = state_[d]
  BY <1>1, <1>5 DEF TypeOK
<1>7. \A d \in 1 .. depth : d \in 1 .. MaxDepth
  BY <1>1, ConstantsAssumption DEF ConstantsAssumption
<1> QED
  BY <1>1, <1>2, <1>4, <1>6, <1>7 DEF FinishTask

\* What entering Run does to the stack of frames.
LEMMA EnterEffect ==
  ASSUME TypeOK, NEW r \in Runs, EnterRun(r)
  PROVE  /\ depth \in Nat /\ depth' = depth + 1
         /\ \A d \in 1 .. depth : state_'[d] = state_[d]
         /\ state_'[depth + 1].task = NoTask /\ state_'[depth + 1].allower = r.allower
         /\ state_'[depth + 1].old_state = nestable_tasks_allowed_
         /\ state_'[depth + 1].owed \subseteq Elements(incoming_queue_) \cup Elements(work_queue_)
         /\ state_'[depth + 1].pc = "DoWork"
         /\ depth = 0 => ~r.allower
         /\ depth = 0 \/ InTask
         /\ nestable_tasks_allowed_' = (r.allower \/ nestable_tasks_allowed_)
<1>1. depth \in Nat /\ depth + 1 \in 1 .. MaxDepth /\ \A d \in 1 .. depth : d \in 1 .. MaxDepth
  BY ConstantsAssumption DEF ConstantsAssumption, EnterRun, TypeOK
<1>2. r.allower \in BOOLEAN /\ nestable_tasks_allowed_ \in BOOLEAN
  BY DEF Runs, TypeOK
<1>3. nestable_tasks_allowed_' = (r.allower \/ nestable_tasks_allowed_)
  BY <1>2 DEF EnterRun, SetNestableTasksAllowed
<1>4. \A d \in 1 .. depth : d # depth + 1
  BY <1>1
<1> QED
  BY <1>1, <1>3, <1>4 DEF EnterRun, AliveClient, TypeOK

\* What leaving Run does to the stack of frames.
LEMMA LeaveEffect ==
  ASSUME TypeOK, LeaveRun
  PROVE  /\ depth \in 1 .. MaxDepth /\ depth' = depth - 1 /\ Top = state_[depth]
         /\ Top.task = NoTask
         /\ \A d \in 1 .. depth' : d \in 1 .. depth /\ d # depth /\ state_'[d] = state_[d]
         /\ nestable_tasks_allowed_' =
              IF Top.allower THEN Top.old_state ELSE nestable_tasks_allowed_
         /\ status' = status
<1>1. depth \in 1 .. MaxDepth /\ Top = state_[depth] /\ depth' = depth - 1 /\ Top.task = NoTask
  BY TopType DEF LeaveRun, Pumping, Top
<1>2. \A d \in 1 .. depth' : d \in 1 .. depth /\ d # depth /\ d \in 1 .. MaxDepth
  BY <1>1, ConstantsAssumption DEF ConstantsAssumption
<1>3. \A d \in 1 .. MaxDepth : d # depth => state_'[d] = state_[d]
  BY <1>1 DEF LeaveRun, TypeOK
<1>4. nestable_tasks_allowed_' = IF Top.allower THEN Top.old_state ELSE nestable_tasks_allowed_
  BY DEF LeaveRun, SetNestableTasksAllowed
<1> QED
  BY <1>1, <1>2, <1>3, <1>4 DEF LeaveRun, posts

\* What Quit does to the stack of frames.
LEMMA QuitEffect ==
  ASSUME TypeOK, Quit
  PROVE  /\ depth \in 1 .. MaxDepth /\ depth' = depth
         /\ UNCHANGED <<status, nestable_tasks_allowed_>>
         /\ \A d \in 1 .. depth : /\ state_'[d].task = state_[d].task
                                  /\ state_'[d].allower = state_[d].allower
                                  /\ state_'[d].old_state = state_[d].old_state
                                  /\ d # depth => state_'[d].owed = state_[d].owed
         /\ state_'[depth].owed = Elements(incoming_queue_) \cup Elements(work_queue_)
<1>1. depth \in 1 .. MaxDepth
  BY TopType DEF Quit, InTask
<1>2. \A d \in 1 .. depth : d \in 1 .. MaxDepth
  BY <1>1, ConstantsAssumption DEF ConstantsAssumption
<1> DEFINE o == Elements(incoming_queue_) \cup Elements(work_queue_)
<1>3. state_' = [state_ EXCEPT ![depth].quit_received = TRUE, ![depth].owed = o]
  BY DEF Quit
<1> HIDE DEF o
<1>4. \A d \in 1 .. MaxDepth : /\ state_'[d].task = state_[d].task
                               /\ state_'[d].allower = state_[d].allower
                               /\ state_'[d].old_state = state_[d].old_state
                               /\ state_'[d].owed = IF d = depth THEN o ELSE state_[d].owed
  BY <1>1, <1>3 DEF TypeOK, RunState
<1> QED
  BY <1>1, <1>2, <1>4 DEF Quit, o, posts
\* The tasks in the frames keep what the nesting rules look at.
LEMMA FrameTasksKept ==
  ASSUME TypeOK, Nesting, [Next]_vars, NEW d \in 1 .. depth, state_[d].task # NoTask
  PROVE  /\ status'[state_[d].task] # "unposted"
         /\ ~pending'[state_[d].task].nestable => d = 1
<1>1. state_[d].task \in Tasks
  <2>1. d \in 1 .. MaxDepth
    BY ConstantsAssumption DEF ConstantsAssumption, TypeOK
  <2> QED
    BY <2>1 DEF TypeOK, RunState
<1>2. status[state_[d].task] # "unposted" /\ (~pending[state_[d].task].nestable => d = 1)
  BY DEF Nesting, NonNestableNotNested
<1> QED
  BY <1>1, <1>2, PendingKept DEF NoPending

\* Every step keeps the rules.
LEMMA NextNesting == Types /\ Nesting /\ [Next]_vars => Nesting'
<1> SUFFICES ASSUME TypeOK, Nesting, [Next]_vars PROVE Nesting'
  BY DEF Types
<1>1. ASSUME depth' = depth, nestable_tasks_allowed_' = nestable_tasks_allowed_,
             \A d \in 1 .. depth : /\ state_'[d].task = state_[d].task
                                   /\ state_'[d].allower = state_[d].allower
                                   /\ state_'[d].old_state = state_[d].old_state
      PROVE  Nesting'
  <2>1. depth > 0 => depth \in 1 .. depth
    BY DEF TypeOK
  <2>2. depth > 0 => Top'.task = Top.task /\ Top'.allower = Top.allower
    BY <1>1, <2>1 DEF Top
  <2>3. InTask' <=> InTask
    BY <1>1, <2>2 DEF InTask
  <2>4. \A d \in 1 .. depth' : state_'[d].task # NoTask =>
          /\ status'[state_'[d].task] # "unposted"
          /\ ~pending'[state_'[d].task].nestable => d = 1
    BY <1>1, FrameTasksKept
  <2> QED
    BY <1>1, <2>2, <2>3, <2>4 DEF Nesting, NonNestableNotNested
<1>2. CASE Still
  BY <1>1, <1>2 DEF Still
<1>3. CASE Moves
  BY <1>1, <1>3, MovesEffect DEF Moves
<1>4. CASE Quit
  BY <1>1, <1>4, QuitEffect
<1>5. ASSUME NEW t \in Tasks, Begins(t) PROVE Nesting'
  <2>1. /\ depth \in 1 .. MaxDepth /\ depth' = depth /\ state_[depth].task = NoTask
        /\ state_'[depth].task = t /\ t # NoTask
        /\ \A d \in 1 .. depth : /\ d # depth => state_'[d].task = state_[d].task
                                 /\ state_'[d].allower = state_[d].allower
                                 /\ state_'[d].old_state = state_[d].old_state
        /\ status'[t] = "running" /\ ~nestable_tasks_allowed_'
    BY <1>5, BeginsEffect
  <2>2. /\ pending' = pending /\ (pending[t].nestable \/ depth = 1)
        /\ nestable_tasks_allowed_ \/ depth = 1
    BY <1>5 DEF Begins
  <2>3. depth = 1 \/ state_[depth].allower
    BY <2>1, <2>2 DEF Nesting, InTask, Top
  <2>4. InTask' /\ depth' # 0
    BY <2>1 DEF InTask, Top
  <2>5. \A d \in 1 .. depth' : state_'[d].task # NoTask =>
          /\ status'[state_'[d].task] # "unposted"
          /\ ~pending'[state_'[d].task].nestable => d = 1
    BY <2>1, <2>2, FrameTasksKept
  <2>6. depth \in 1 .. depth
    BY <2>1
  <2> QED
    BY <2>1, <2>3, <2>4, <2>5, <2>6 DEF Nesting, NonNestableNotNested
<1>6. CASE FinishTask
  <2>1. /\ depth \in 1 .. MaxDepth /\ depth' = depth /\ Top = state_[depth]
        /\ state_'[depth].task = NoTask
        /\ \A d \in 1 .. depth : /\ d # depth => state_'[d].task = state_[d].task
                                 /\ state_'[d].allower = state_[d].allower
                                 /\ state_'[d].old_state = state_[d].old_state
        /\ nestable_tasks_allowed_'
    BY <1>6, FinishEffect
  <2>2. depth \in 1 .. depth /\ depth > 0
    BY <2>1
  <2>3. depth = 1 \/ state_'[depth].allower
    BY <1>6, <2>1, <2>2 DEF Nesting, FinishTask, InTask
  <2>4. ~InTask' /\ depth' # 0 /\ Top' = state_'[depth]
    BY <2>1, <2>2 DEF InTask, Top
  <2>5. \A d \in 1 .. depth' : state_'[d].task # NoTask =>
          /\ status'[state_'[d].task] # "unposted"
          /\ ~pending'[state_'[d].task].nestable => d = 1
    BY <2>1, FrameTasksKept
  <2> QED
    BY <2>1, <2>3, <2>4, <2>5 DEF Nesting, NonNestableNotNested
<1>7. ASSUME NEW r \in Runs, EnterRun(r) PROVE Nesting'
  <2>1. /\ depth \in Nat /\ depth' = depth + 1
        /\ \A d \in 1 .. depth : state_'[d] = state_[d]
        /\ state_'[depth + 1].task = NoTask /\ state_'[depth + 1].allower = r.allower
        /\ state_'[depth + 1].old_state = nestable_tasks_allowed_
        /\ depth = 0 => ~r.allower
        /\ depth = 0 \/ InTask
        /\ nestable_tasks_allowed_' = (r.allower \/ nestable_tasks_allowed_)
    BY <1>7, EnterEffect
  <2>2. depth' > 0 /\ ~InTask' /\ Top' = state_'[depth + 1] /\ (depth' = 1 <=> depth = 0)
    BY <2>1 DEF InTask, Top
  <2>3. \A d \in 1 .. depth' : d \in 1 .. depth \/ d = depth'
    BY <2>1
  <2>4. depth # 0 => ~nestable_tasks_allowed_ /\ state_[depth].task # NoTask /\ depth' # 1
    BY <2>1 DEF Nesting, InTask, Top
  <2>5. \A d \in 1 .. depth : state_[d].task # NoTask
    BY <2>1, <2>4 DEF Nesting
  <2>6. \A d \in 1 .. depth' : d < depth' => state_'[d].task # NoTask
    BY <2>1, <2>3, <2>5
  <2>7. \A d \in 1 .. depth' : state_'[d].allower => d # 1 /\ ~state_'[d].old_state
    BY <2>1, <2>3, <2>4 DEF Nesting
  <2>8. \A d \in 1 .. depth' : state_'[d].task # NoTask => d = 1 \/ state_'[d].allower
    BY <2>1, <2>3 DEF Nesting
  <2>9. nestable_tasks_allowed_' <=> (depth' = 1 \/ Top'.allower)
    BY <2>1, <2>2, <2>4 DEF Nesting
  <2>10. \A d \in 1 .. depth' : state_'[d].task # NoTask =>
           /\ status'[state_'[d].task] # "unposted"
           /\ ~pending'[state_'[d].task].nestable => d = 1
    BY <2>1, <2>3, FrameTasksKept
  <2> QED
    BY <2>2, <2>6, <2>7, <2>8, <2>9, <2>10 DEF Nesting, NonNestableNotNested
<1>8. CASE LeaveRun
  <2>1. /\ depth \in 1 .. MaxDepth /\ depth' = depth - 1 /\ Top = state_[depth]
        /\ Top.task = NoTask
        /\ \A d \in 1 .. depth' : d \in 1 .. depth /\ d # depth /\ state_'[d] = state_[d]
        /\ nestable_tasks_allowed_' =
             IF Top.allower THEN Top.old_state ELSE nestable_tasks_allowed_
    BY <1>8, LeaveEffect
  <2>2. depth \in 1 .. depth /\ depth > 0 /\ ~InTask
    BY <2>1 DEF InTask
  <2>3. depth' = 0 <=> depth = 1
    BY <2>1
  <2>4. depth' # 0 => depth' \in 1 .. depth' /\ depth' > 0
    BY <2>1
  <2>5. \A d \in 1 .. depth' : state_'[d].task # NoTask
    BY <2>1 DEF Nesting
  <2>6. depth' # 0 => InTask'
    BY <2>4, <2>5 DEF InTask, Top
  <2>7. depth = 1 => ~Top.allower
    BY <2>1, <2>2 DEF Nesting
  <2>8. depth' = 0 => nestable_tasks_allowed_'
    BY <2>1, <2>2, <2>3, <2>7 DEF Nesting
  <2>9. depth' # 0 => ~nestable_tasks_allowed_'
    BY <2>1, <2>2, <2>3 DEF Nesting
  <2>10. \A d \in 1 .. depth' : state_'[d].task # NoTask =>
           /\ status'[state_'[d].task] # "unposted"
           /\ ~pending'[state_'[d].task].nestable => d = 1
    BY <2>1, FrameTasksKept
  <2>11. \A d \in 1 .. depth' : /\ state_'[d].allower => d # 1 /\ ~state_'[d].old_state
                                /\ d = 1 \/ state_'[d].allower
    BY <2>1, <2>5 DEF Nesting
  <2>12. depth' > 0 => depth' # 0
    BY <2>1
  <2> QED
    BY <2>5, <2>6, <2>8, <2>9, <2>10, <2>11, <2>12 DEF Nesting, NonNestableNotNested, InTask
<1> QED
  BY <1>2, <1>3, <1>4, <1>5, <1>6, <1>7, <1>8, FrameKinds

\* Nesting holds in every state.
LEMMA NestingInvariant == Spec => []Nesting
<1>1. Init => Nesting
  BY DEF Init, Nesting, NonNestableNotNested, InTask
<1> QED
  BY <1>1, NextNesting, TypesInvariant, PTL DEF Spec

\* Non-nestable tasks run from the outermost Run() only; a task starts only while
\* the reentrancy block is open, and every nested Run() leaves the block as it
\* found it, however Run, RunAllPending and Quit are nested.
THEOREM NestingAlways == Spec => []NestingRules
<1>1. Nesting => NestingRules
  BY DEF Nesting, NestingRules, ReentrancyBlock, Pumping, InTask
<1> QED
  BY <1>1, NestingInvariant, PTL
-----------------------------------------------------------------------------
(* The queues *)

\* A task at the end of a queue.
LEMMA AppendElements ==
  ASSUME NEW S, NEW q \in Seq(S), NEW t \in S
  PROVE  /\ Elements(Append(q, t)) = Elements(q) \cup {t}
         /\ NoDup(q) /\ t \notin Elements(q) => NoDup(Append(q, t))
<1>1. Len(q) \in Nat /\ DOMAIN q = 1 .. Len(q) /\ DOMAIN Append(q, t) = 1 .. Len(q) + 1
      /\ Append(q, t)[Len(q) + 1] = t /\ \A i \in 1 .. Len(q) : Append(q, t)[i] = q[i]
  OBVIOUS
<1>2. Elements(Append(q, t)) = Elements(q) \cup {t}
  BY <1>1 DEF Elements
<1>3. ASSUME NoDup(q), t \notin Elements(q) PROVE NoDup(Append(q, t))
  BY <1>1, <1>3 DEF NoDup, Elements
<1> QED
  BY <1>2, <1>3

\* A queue without its head.
LEMMA TailElements ==
  ASSUME NEW S, NEW q \in Seq(S), q # <<>>, NoDup(q)
  PROVE  Elements(Tail(q)) = Elements(q) \ {Head(q)} /\ NoDup(Tail(q))
<1>1. Len(q) \in Nat \ {0} /\ DOMAIN q = 1 .. Len(q) /\ DOMAIN Tail(q) = 1 .. Len(q) - 1
      /\ Head(q) = q[1] /\ \A i \in 1 .. Len(q) - 1 : Tail(q)[i] = q[i + 1]
  OBVIOUS
<1>2. NoDup(Tail(q))
  BY <1>1 DEF NoDup
<1>3. ASSUME NEW x \in Elements(Tail(q)) PROVE x \in Elements(q) \ {Head(q)}
  BY <1>1, <1>3 DEF Elements, NoDup
<1>4. ASSUME NEW x \in Elements(q), x # Head(q) PROVE x \in Elements(Tail(q))
  <2>1. PICK i \in 1 .. Len(q) : x = q[i]
    BY <1>1, <1>4 DEF Elements
  <2>2. i - 1 \in 1 .. Len(q) - 1 /\ Tail(q)[i - 1] = q[i]
    BY <1>1, <1>4, <2>1
  <2> QED
    BY <1>1, <2>1, <2>2 DEF Elements
<1> QED
  BY <1>2, <1>3, <1>4

\* Nothing is in an empty queue.
LEMMA EmptyElements == Elements(<<>>) = {} /\ NoDup(<<>>)
BY DEF Elements, NoDup

\* Every step, by what it does to the queues and to the status of tasks.
Calm == UNCHANGED <<queues, status>>

Registers(t) ==
  /\ UNCHANGED queues
  /\ status[t] = "unposted"
  /\ \E s \in {"posting", "rejected"} : status' = [status EXCEPT ![t] = s]

Enters(t) ==
  /\ status[t] \in {"unposted", "posting"}
  /\ status' = [status EXCEPT ![t] = "queued"]
  /\ incoming_queue_' = Append(incoming_queue_, t)
  /\ UNCHANGED <<work_queue_, delayed_work_queue_, deferred_non_nestable_work_queue_>>

Reloads ==
  /\ work_queue_ = <<>> /\ work_queue_' = incoming_queue_ /\ incoming_queue_' = <<>>
  /\ UNCHANGED <<delayed_work_queue_, deferred_non_nestable_work_queue_, status>>

Delays ==
  /\ work_queue_ # <<>> /\ work_queue_' = Tail(work_queue_) /\ IsDelayed(Head(work_queue_))
  /\ delayed_work_queue_' = delayed_work_queue_ \cup {Head(work_queue_)}
  /\ UNCHANGED <<incoming_queue_, deferred_non_nestable_work_queue_, status>>

Settles(t) ==
  \/ Begins(t) /\ UNCHANGED deferred_non_nestable_work_queue_
  \/ /\ deferred_non_nestable_work_queue_' = Append(deferred_non_nestable_work_queue_, t)
     /\ UNCHANGED status

Takes(t) ==
  /\ UNCHANGED incoming_queue_
  /\ \/ /\ work_queue_ # <<>> /\ t = Head(work_queue_) /\ work_queue_' = Tail(work_queue_)
        /\ ~IsDelayed(t) /\ UNCHANGED delayed_work_queue_ /\ Settles(t)
     \/ /\ t \in delayed_work_queue_ /\ delayed_work_queue_' = delayed_work_queue_ \ {t}
        /\ pending[t].delayed_run_time <= RecentTime(pending[t].delayed_run_time)
        /\ UNCHANGED work_queue_ /\ Settles(t)
     \/ /\ deferred_non_nestable_work_queue_ # <<>>
        /\ t = Head(deferred_non_nestable_work_queue_)
        /\ deferred_non_nestable_work_queue_' = Tail(deferred_non_nestable_work_queue_)
        /\ UNCHANGED <<work_queue_, delayed_work_queue_>> /\ Begins(t)

Deletes ==
  /\ work_queue_' = <<>> /\ delayed_work_queue_' = {} /\ deferred_non_nestable_work_queue_' = <<>>
  /\ \E S \in {{}, Elements(incoming_queue_)} :
       /\ status' = [t \in Tasks |-> IF t \in Held \cup S THEN "deleted" ELSE status[t]]
       /\ incoming_queue_' = IF S = {} THEN incoming_queue_ ELSE <<>>

\* Every step moves tasks between the queues in one of these ways.
LEMMA QueueKinds ==
  ASSUME Types, Posts, [Next]_vars
  PROVE  \/ Calm \/ Reloads \/ Delays \/ Deletes
         \/ FinishTask /\ UNCHANGED queues
         \/ \E t \in Tasks : Registers(t) \/ Enters(t) \/ Takes(t)
<1> USE DEF queues, timers, runs, pump, proxy, posts
<1>1. CASE PosterStep
  <2>1. ASSUME NEW p \in Posters, NEW t \in Tasks, NEW k \in PostKinds, PostBegin(p, t, k)
        PROVE  Registers(t)
    BY <2>1 DEF PostBegin, Registers
  <2>2. ASSUME NEW p \in Posters, NEW t \in Tasks, PostRejected(p, t) PROVE Registers(t)
    BY <2>2 DEF PostRejected, Registers
  <2>3. ASSUME NEW p \in Posters, AddToIncomingQueue(p) PROVE Enters(poster[p].task)
    BY <2>3 DEF AddToIncomingQueue, Enters, Posts
  <2>4. ASSUME NEW p \in Posters, AddToIncomingQueue(p) PROVE poster[p].task \in Tasks
    BY <2>4 DEF AddToIncomingQueue, Types
  <2>5. ASSUME NEW p \in Posters, ScheduleWork(p) PROVE Calm
    BY <2>5 DEF ScheduleWork, Calm
  <2> QED
    BY <1>1, <2>1, <2>2, <2>3, <2>4, <2>5 DEF PosterStep, PostContinue
<1>2. ASSUME NEW t \in Tasks, NEW k \in PostKinds, LoopThreadPost(t, k) PROVE Enters(t)
  BY <1>2 DEF LoopThreadPost, Enters
<1>3. CASE DtorNext
  <2>1. CASE DtorReload
    BY <2>1 DEF DtorReload, DtorStep, Posts, Reloads
  <2>2. CASE WillDestroyCurrentMessageLoop
    BY <2>2 DEF WillDestroyCurrentMessageLoop, Calm
  <2>3. CASE DeletePendingTasks
    BY <2>3 DEF DeletePendingTasks, Deletes
  <2>4. CASE DtorMembers
    <3>1. Elements(incoming_queue_) = {} => incoming_queue_ = <<>>
      BY HeadElement DEF Types, TypeOK
    <3>2. status' = [t \in Tasks |-> IF t \in Held \cup Elements(incoming_queue_) THEN "deleted"
                                    ELSE status[t]]
      BY <2>4 DEF DtorMembers
    <3>3. work_queue_' = <<>> /\ delayed_work_queue_' = {}
          /\ deferred_non_nestable_work_queue_' = <<>> /\ incoming_queue_' = <<>>
      BY <2>4 DEF DtorMembers
    <3> QED
      BY <3>1, <3>2, <3>3 DEF Deletes
  <2> QED
    BY <1>3, <2>1, <2>2, <2>3, <2>4 DEF DtorNext, DtorDeleteFirst, DtorDeleteSecond
<1>4. ASSUME depth > 0, Top.task = NoTask, NEW t \in Held, nestable_tasks_allowed_,
             NEW r, DeferOrRunPendingTask(t, r), UNCHANGED <<depth, pending, now>>
      PROVE  Settles(t)
  BY <1>4 DEF DeferOrRunPendingTask, Settles, Begins
<1>5. CASE DoWorkTask
  <2>1. Head(work_queue_) \in Tasks /\ Head(work_queue_) \in Held
    BY <1>5, HeadElement DEF DoWorkTask, Types, TypeOK, Held
  <2>2. Settles(Head(work_queue_))
    BY <1>4, <1>5, <2>1 DEF DoWorkTask, Pumping
  <2>3. Takes(Head(work_queue_))
    BY <1>5, <2>2 DEF DoWorkTask, Takes
  <2> QED
    BY <2>1, <2>3
<1>6. ASSUME NEW t \in delayed_work_queue_, DoDelayedWorkTask(t) PROVE Takes(t) /\ t \in Tasks
  <2>1. t \in Tasks /\ t \in Held
    BY DEF Types, TypeOK, Held
  <2>2. Settles(t)
    BY <1>4, <1>6, <2>1 DEF DoDelayedWorkTask, Pumping
  <2> QED
    BY <1>6, <2>1, <2>2 DEF DoDelayedWorkTask, Takes
<1>7. CASE ProcessNextDelayedNonNestableTask
  <2> DEFINE t == Head(deferred_non_nestable_work_queue_)
  <2>1. t \in Tasks /\ t \in Held
    BY <1>7, HeadElement DEF ProcessNextDelayedNonNestableTask, Types, TypeOK, Held
  <2>2. Begins(t)
    BY <1>7, <2>1 DEF ProcessNextDelayedNonNestableTask, Begins, Pumping
  <2>3. Takes(t)
    BY <1>7, <2>2 DEF ProcessNextDelayedNonNestableTask, Takes
  <2> QED
    BY <2>1, <2>3
<1>8. CASE ReloadWorkQueue \/ AddToDelayedWorkQueue
  BY <1>8 DEF ReloadWorkQueue, AddToDelayedWorkQueue, Reloads, Delays
<1>9. CASE \/ DoWorkNothing \/ DoDelayedWorkNothing \/ DoIdleWorkQuit
           \/ Sleep \/ WakeBySignal \/ WakeByTimeout \/ LeaveRun
           \/ \E u \in delayed_work_queue_ : DoDelayedWorkEarly(u)
  BY <1>9 DEF DoWorkNothing, DoDelayedWorkNothing, DoIdleWorkQuit, Sleep,
     WakeBySignal, WakeByTimeout, LeaveRun, DoDelayedWorkEarly, Calm
<1>10. CASE Quit \/ QuitNow \/ DestroyBegin \/ Tick \/ UNCHANGED vars
            \/ \E r \in Runs : EnterRun(r)
  BY <1>10 DEF Quit, QuitNow, DestroyBegin, Tick, EnterRun, vars, Calm
<1>11. CASE FinishTask
  BY <1>11 DEF FinishTask
<1> QED
  BY <1>1, <1>2, <1>3, <1>5, <1>6, <1>7, <1>8, <1>9, <1>10, <1>11
  DEF Next, PumpStep, ClientStep
\* What the loop thread holds is queued, and nothing else is in a queue.
LEMMA NextPlaces ==
  Types /\ Places /\ Frames /\ Posts /\ [Next]_vars => Places'
<1> SUFFICES ASSUME Types, Places, Frames, Posts, [Next]_vars PROVE Places'
  OBVIOUS
<1> DEFINE I == Elements(incoming_queue_)
           W == Elements(work_queue_)
           D == delayed_work_queue_
           F == Elements(deferred_non_nestable_work_queue_)
<1>1. /\ incoming_queue_ \in Seq(Tasks) /\ work_queue_ \in Seq(Tasks)
      /\ deferred_non_nestable_work_queue_ \in Seq(Tasks)
      /\ D \subseteq Tasks
      /\ status \in [Tasks -> {"unposted", "posting", "queued", "running", "done",
                               "deleted", "rejected"}]
  BY DEF Types, TypeOK
<1>2. /\ NoDup(incoming_queue_) /\ NoDup(work_queue_) /\ NoDup(deferred_non_nestable_work_queue_)
      /\ I \cap W = {} /\ I \cap D = {} /\ I \cap F = {}
      /\ W \cap D = {} /\ W \cap F = {} /\ D \cap F = {}
      /\ \A t \in Tasks : status[t] = "queued" <=> t \in I \cup W \cup D \cup F
  BY DEF Places, Held
<1>3. ASSUME /\ NoDup(incoming_queue_') /\ NoDup(work_queue_')
             /\ NoDup(deferred_non_nestable_work_queue_')
             /\ I' \cap W' = {} /\ I' \cap D' = {} /\ I' \cap F' = {}
             /\ W' \cap D' = {} /\ W' \cap F' = {} /\ D' \cap F' = {}
             /\ \A t \in Tasks : status'[t] = "queued" <=> t \in I' \cup W' \cup D' \cup F'
      PROVE  Places'
  BY <1>3 DEF Places, Held
<1>4. CASE Calm
  BY <1>2, <1>3, <1>4 DEF Calm, queues
<1>5. ASSUME NEW t \in Tasks, Registers(t) PROVE Places'
  BY <1>1, <1>2, <1>3, <1>5 DEF Registers, queues
<1>6. ASSUME NEW t \in Tasks, Enters(t) PROVE Places'
  <2>1. t \notin I \cup W \cup D \cup F
    BY <1>2, <1>6 DEF Enters
  <2>2. I' = I \cup {t} /\ NoDup(incoming_queue_')
    BY <1>1, <1>2, <1>6, <2>1, AppendElements DEF Enters
  <2>3. W' = W /\ D' = D /\ F' = F /\ NoDup(work_queue_')
        /\ NoDup(deferred_non_nestable_work_queue_')
    BY <1>2, <1>6 DEF Enters
  <2>4. status' = [status EXCEPT ![t] = "queued"]
    BY <1>6 DEF Enters
  <2> HIDE DEF I, W, D, F
  <2> QED
    BY <1>1, <1>2, <1>3, <2>1, <2>2, <2>3, <2>4
<1>7. CASE Reloads
  <2>1. W = {} /\ W' = I /\ I' = {} /\ NoDup(incoming_queue_') /\ NoDup(work_queue_')
    BY <1>2, <1>7, EmptyElements DEF Reloads
  <2>2. D' = D /\ F' = F /\ NoDup(deferred_non_nestable_work_queue_') /\ status' = status
    BY <1>2, <1>7 DEF Reloads
  <2> HIDE DEF I, W, D, F
  <2> QED
    BY <1>2, <1>3, <2>1, <2>2
<1>8. CASE Delays
  <2> DEFINE h == Head(work_queue_)
  <2>1. h \in W
    BY <1>1, <1>8, HeadElement DEF Delays
  <2>2. W' = W \ {h} /\ NoDup(work_queue_')
    BY <1>1, <1>2, <1>8, TailElements DEF Delays
  <2>3. D' = D \cup {h} /\ I' = I /\ F' = F /\ NoDup(incoming_queue_')
        /\ NoDup(deferred_non_nestable_work_queue_') /\ status' = status
    BY <1>2, <1>8 DEF Delays
  <2> HIDE DEF I, W, D, F, h
  <2> QED
    BY <1>2, <1>3, <2>1, <2>2, <2>3
<1>9. CASE Deletes
  <2>1. W' = {} /\ D' = {} /\ F' = {} /\ NoDup(work_queue_')
        /\ NoDup(deferred_non_nestable_work_queue_')
    BY <1>9, EmptyElements DEF Deletes
  <2>2. PICK S \in {{}, I} :
          /\ status' = [t \in Tasks |-> IF t \in Held \cup S THEN "deleted" ELSE status[t]]
          /\ incoming_queue_' = IF S = {} THEN incoming_queue_ ELSE <<>>
    BY <1>9 DEF Deletes
  <2>3. I' = I \ S /\ NoDup(incoming_queue_')
    BY <1>2, <2>2, EmptyElements
  <2>4. Held = W \cup D \cup F
    BY DEF Held
  <2> HIDE DEF I, W, D, F
  <2> QED
    BY <1>2, <1>3, <2>1, <2>2, <2>3, <2>4
<1>10. CASE FinishTask /\ UNCHANGED queues
  <2>1. Top.task \in Tasks /\ Top = state_[depth] /\ depth \in 1 .. MaxDepth
        /\ status' = [status EXCEPT ![Top.task] = "done"]
    BY <1>10, FinishEffect DEF Types
  <2>2. status[Top.task] = "running"
    <3>1. depth \in 1 .. depth
      BY <2>1
    <3>2. Top.task # NoTask
      BY <1>10 DEF FinishTask, InTask
    <3> QED
      BY <2>1, <3>1, <3>2 DEF Frames
  <2> QED
    BY <1>1, <1>2, <1>3, <1>10, <2>1, <2>2 DEF queues
<1>11. ASSUME NEW t \in Tasks, Takes(t) PROVE Places'
  <2>1. CASE Begins(t)
    <3>1. status' = [status EXCEPT ![t] = "running"]
      BY <2>1 DEF Begins, RunTask
    <3>2. I' = I /\ NoDup(incoming_queue_')
      BY <1>2, <1>11 DEF Takes
    <3>3. CASE /\ work_queue_ # <<>> /\ t = Head(work_queue_) /\ work_queue_' = Tail(work_queue_)
               /\ UNCHANGED delayed_work_queue_ /\ UNCHANGED deferred_non_nestable_work_queue_
      <4>1. t \in W /\ W' = W \ {t} /\ NoDup(work_queue_') /\ D' = D /\ F' = F
            /\ NoDup(deferred_non_nestable_work_queue_')
        BY <1>1, <1>2, <3>3, HeadElement, TailElements
      <4> HIDE DEF I, W, D, F
      <4> QED
        BY <1>1, <1>2, <1>3, <3>1, <3>2, <4>1
    <3>4. CASE /\ t \in delayed_work_queue_ /\ delayed_work_queue_' = delayed_work_queue_ \ {t}
               /\ UNCHANGED work_queue_ /\ UNCHANGED deferred_non_nestable_work_queue_
      <4>1. t \in D /\ D' = D \ {t} /\ W' = W /\ F' = F /\ NoDup(work_queue_')
            /\ NoDup(deferred_non_nestable_work_queue_')
        BY <1>2, <3>4
      <4> HIDE DEF I, W, D, F
      <4> QED
        BY <1>1, <1>2, <1>3, <3>1, <3>2, <4>1
    <3>5. CASE /\ deferred_non_nestable_work_queue_ # <<>>
               /\ t = Head(deferred_non_nestable_work_queue_)
               /\ deferred_non_nestable_work_queue_' = Tail(deferred_non_nestable_work_queue_)
               /\ UNCHANGED <<work_queue_, delayed_work_queue_>>
      <4>1. t \in F /\ F' = F \ {t} /\ W' = W /\ D' = D /\ NoDup(work_queue_')
            /\ NoDup(deferred_non_nestable_work_queue_')
        BY <1>1, <1>2, <3>5, HeadElement, TailElements
      <4> HIDE DEF I, W, D, F
      <4> QED
        BY <1>1, <1>2, <1>3, <3>1, <3>2, <4>1
    <3>6. t \in I \cup W \cup D \cup F
      BY <1>1, <1>11, HeadElement DEF Takes
    <3>7. ~UNCHANGED status
      BY <1>1, <1>2, <3>1, <3>6
    <3> QED
      BY <1>11, <3>3, <3>4, <3>5, <3>7 DEF Takes, Settles
  <2>2. CASE ~Begins(t)
    <3>1. /\ deferred_non_nestable_work_queue_' = Append(deferred_non_nestable_work_queue_, t)
          /\ status' = status /\ I' = I /\ NoDup(incoming_queue_')
      BY <1>2, <1>11, <2>2 DEF Takes, Settles
    <3>2. \/ /\ work_queue_ # <<>> /\ t = Head(work_queue_) /\ work_queue_' = Tail(work_queue_)
             /\ UNCHANGED delayed_work_queue_
          \/ /\ t \in delayed_work_queue_ /\ delayed_work_queue_' = delayed_work_queue_ \ {t}
             /\ UNCHANGED work_queue_
      BY <1>11, <2>2 DEF Takes
    <3>3. /\ t \in W \cup D /\ W' = W \ {t} /\ D' = D \ {t} /\ NoDup(work_queue_')
      <4>1. CASE /\ work_queue_ # <<>> /\ t = Head(work_queue_) /\ work_queue_' = Tail(work_queue_)
                 /\ UNCHANGED delayed_work_queue_
        <5>1. t \in W /\ W' = W \ {t} /\ NoDup(work_queue_') /\ D' = D
          BY <1>1, <1>2, <4>1, HeadElement, TailElements
        <5> HIDE DEF W, D
        <5> QED
          BY <1>2, <5>1
      <4>2. CASE /\ t \in delayed_work_queue_ /\ delayed_work_queue_' = delayed_work_queue_ \ {t}
                 /\ UNCHANGED work_queue_
        <5>1. t \in D /\ D' = D \ {t} /\ W' = W /\ NoDup(work_queue_')
          BY <1>2, <4>2
        <5> HIDE DEF W, D
        <5> QED
          BY <1>2, <5>1
      <4> QED
        BY <3>2, <4>1, <4>2
    <3>4. F' = F \cup {t} /\ NoDup(deferred_non_nestable_work_queue_')
      BY <1>1, <1>2, <3>1, <3>3, AppendElements
    <3> HIDE DEF I, W, D, F
    <3> QED
      BY <1>2, <1>3, <3>1, <3>3, <3>4
  <2> QED
    BY <2>1, <2>2
<1> QED
  BY <1>4, <1>5, <1>6, <1>7, <1>8, <1>9, <1>10, <1>11, QueueKinds
\* Only RunTask makes a task run, only its end stops it from running, and a
\* task that entered the queues has entered them for good.
LEMMA StatusKinds ==
  ASSUME Types, Places, Posts, [Next]_vars
  PROVE  /\ \/ FinishTask \/ \E t \in Tasks : Begins(t)
            \/ \A u \in Tasks : status'[u] = "running" <=> status[u] = "running"
         /\ Entered \subseteq Entered'
<1>1. status \in [Tasks -> {"unposted", "posting", "queued", "running", "done",
                            "deleted", "rejected"}]
  BY DEF Types, TypeOK
<1>2. CASE Calm \/ Reloads \/ Delays
  BY <1>2 DEF Calm, Reloads, Delays, Entered
<1>3. CASE Deletes
  <2>1. PICK S \in {{}, Elements(incoming_queue_)} :
          status' = [t \in Tasks |-> IF t \in Held \cup S THEN "deleted" ELSE status[t]]
    BY <1>3 DEF Deletes
  <2>2. \A t \in Tasks : t \in Held \cup S => status[t] = "queued"
    BY DEF Places
  <2> QED
    BY <2>1, <2>2 DEF Entered
<1>4. CASE FinishTask
  <2>1. Top.task \in Tasks /\ status' = [status EXCEPT ![Top.task] = "done"]
    BY <1>4, FinishEffect DEF Types
  <2> QED
    BY <1>1, <1>4, <2>1 DEF Entered
<1>5. ASSUME NEW t \in Tasks, Registers(t) \/ Enters(t)
      PROVE  /\ \A u \in Tasks : status'[u] = "running" <=> status[u] = "running"
             /\ Entered \subseteq Entered'
  BY <1>1, <1>5 DEF Registers, Enters, Entered
<1>6. ASSUME NEW t \in Tasks, Takes(t)
      PROVE  Begins(t) \/ status' = status
  BY <1>6 DEF Takes, Settles
<1>7. ASSUME NEW t \in Tasks, Begins(t) PROVE Entered \subseteq Entered'
  BY <1>1, <1>7 DEF Begins, RunTask, Entered
<1> QED
  BY <1>2, <1>3, <1>4, <1>5, <1>6, <1>7, QueueKinds DEF Entered

\* The running tasks are in the frames, each in one.
LEMMA NextFrames ==
  Types /\ Places /\ Frames /\ Posts /\ [Next]_vars => Frames'
<1> SUFFICES ASSUME Types, Places, Frames, Posts, [Next]_vars PROVE Frames'
  OBVIOUS
<1>1. /\ TypeOK /\ Entered \subseteq Entered'
      /\ Elements(incoming_queue_) \cup Elements(work_queue_) \subseteq Entered
  <2>1. /\ Elements(incoming_queue_) \cup Elements(work_queue_) \subseteq Tasks
        /\ Elements(work_queue_) \subseteq Held
    BY DEF Types, TypeOK, Elements, Held
  <2> QED
    BY <2>1, StatusKinds DEF Types, Places, Entered
<1>2. /\ depth \in Nat
      /\ \A d \in 1 .. depth : state_[d].task # NoTask => state_[d].task \in Tasks
  <2>1. depth \in Nat /\ \A d \in 1 .. depth : d \in 1 .. MaxDepth
    BY <1>1, ConstantsAssumption DEF ConstantsAssumption, TypeOK
  <2> QED
    BY <1>1, <2>1 DEF TypeOK, RunState
<1>3. ASSUME NEW t \in Tasks, Begins(t) PROVE Frames'
  <2>1. /\ depth \in 1 .. MaxDepth /\ depth' = depth /\ state_[depth].task = NoTask
        /\ state_'[depth].task = t /\ t # NoTask
        /\ \A d \in 1 .. depth : /\ d # depth => state_'[d].task = state_[d].task
                                 /\ state_'[d].owed = state_[d].owed
        /\ status'[t] = "running" /\ \A u \in Tasks : u # t => status'[u] = status[u]
    BY <1>1, <1>3, BeginsEffect
  <2>2. status[t] = "queued"
    BY <1>3 DEF Begins, Places
  <2>3. depth \in 1 .. depth /\ \A d \in 1 .. depth : state_[d].task # t
    BY <2>1, <2>2 DEF Frames
  <2>4. \A d \in 1 .. depth : state_'[d].task = IF d = depth THEN t ELSE state_[d].task
    BY <2>1
  <2>5. \A d \in 1 .. depth' : state_'[d].task # NoTask => status'[state_'[d].task] = "running"
    BY <1>2, <2>1, <2>3, <2>4 DEF Frames
  <2>6. \A c, d \in 1 .. depth' : state_'[c].task # NoTask /\ state_'[c].task = state_'[d].task
          => c = d
    BY <2>1, <2>3, <2>4 DEF Frames
  <2>7. \A u \in Tasks : status'[u] = "running" => \E d \in 1 .. depth' : state_'[d].task = u
    BY <2>1, <2>3, <2>4, ConstantsAssumption DEF Frames, ConstantsAssumption
  <2>8. \A d \in 1 .. depth' : state_'[d].owed \subseteq Entered'
    BY <1>1, <2>1 DEF Frames
  <2> QED
    BY <2>5, <2>6, <2>7, <2>8 DEF Frames
<1>4. CASE FinishTask
  <2>1. /\ depth \in 1 .. MaxDepth /\ depth' = depth
        /\ Top.task \in Tasks /\ Top = state_[depth]
        /\ state_'[depth].task = NoTask
        /\ \A d \in 1 .. depth : /\ d # depth => state_'[d].task = state_[d].task
                                 /\ state_'[d].owed = state_[d].owed
        /\ status' = [status EXCEPT ![Top.task] = "done"]
    BY <1>1, <1>4, FinishEffect
  <2> DEFINE t == Top.task
  <2>2. \A u \in Tasks : status'[u] = IF u = t THEN "done" ELSE status[u]
    BY <1>1, <2>1 DEF TypeOK
  <2>3. depth \in 1 .. depth /\ t # NoTask /\ t = state_[depth].task
    BY <2>1, ConstantsAssumption DEF ConstantsAssumption
  <2>4. \A d \in 1 .. depth : d # depth => state_[d].task # t
    BY <2>3 DEF Frames
  <2> HIDE DEF t
  <2>5. \A d \in 1 .. depth' : state_'[d].task # NoTask => status'[state_'[d].task] = "running"
    BY <1>2, <2>1, <2>2, <2>4 DEF Frames
  <2>6. \A c, d \in 1 .. depth' : state_'[c].task # NoTask /\ state_'[c].task = state_'[d].task
          => c = d
    BY <2>1 DEF Frames
  <2>7. \A u \in Tasks : status'[u] = "running" => \E d \in 1 .. depth' : state_'[d].task = u
    BY <2>1, <2>2, <2>3, <2>4 DEF Frames
  <2>8. \A d \in 1 .. depth' : state_'[d].owed \subseteq Entered'
    BY <1>1, <2>1 DEF Frames
  <2> QED
    BY <2>5, <2>6, <2>7, <2>8 DEF Frames
<1>5. ASSUME \A u \in Tasks : status'[u] = "running" <=> status[u] = "running",
             depth' = depth, \A d \in 1 .. depth : state_'[d].task = state_[d].task,
             \A d \in 1 .. depth : state_'[d].owed \subseteq Entered'
      PROVE  Frames'
  BY <1>2, <1>5 DEF Frames
<1>6. CASE /\ \A u \in Tasks : status'[u] = "running" <=> status[u] = "running"
           /\ Still \/ Moves
  <2>1. depth' = depth /\ \A d \in 1 .. depth : /\ state_'[d].task = state_[d].task
                                                /\ state_'[d].owed = state_[d].owed
    BY <1>1, <1>6, MovesEffect DEF Still
  <2> QED
    BY <1>1, <1>5, <1>6, <2>1 DEF Frames
<1>7. CASE Quit
  <2>1. /\ depth' = depth /\ UNCHANGED status
        /\ \A d \in 1 .. depth : /\ state_'[d].task = state_[d].task
                                 /\ d # depth => state_'[d].owed = state_[d].owed
        /\ state_'[depth].owed = Elements(incoming_queue_) \cup Elements(work_queue_)
    BY <1>1, <1>7, QuitEffect
  <2> QED
    BY <1>1, <1>5, <2>1 DEF Frames
<1>8. ASSUME NEW r \in Runs, EnterRun(r) PROVE Frames'
  <2>1. /\ depth' = depth + 1
        /\ \A d \in 1 .. depth : state_'[d] = state_[d]
        /\ state_'[depth + 1].task = NoTask
        /\ state_'[depth + 1].owed \subseteq Elements(incoming_queue_) \cup Elements(work_queue_)
    BY <1>1, <1>8, EnterEffect
  <2>2. status' = status
    BY <1>8 DEF EnterRun, posts
  <2>3. /\ \A d \in 1 .. depth' : d \in 1 .. depth \/ d = depth + 1
        /\ \A d \in 1 .. depth : d \in 1 .. depth'
    BY <1>2, <2>1
  <2>4. \A d \in 1 .. depth' : state_'[d].task # NoTask => status'[state_'[d].task] = "running"
    BY <2>1, <2>2, <2>3 DEF Frames
  <2>5. \A c, d \in 1 .. depth' : state_'[c].task # NoTask /\ state_'[c].task = state_'[d].task
          => c = d
    BY <2>1, <2>3 DEF Frames
  <2>6. \A u \in Tasks : status'[u] = "running" => \E d \in 1 .. depth' : state_'[d].task = u
    BY <2>1, <2>2, <2>3 DEF Frames
  <2>7. \A d \in 1 .. depth' : state_'[d].owed \subseteq Entered'
    BY <1>1, <2>1, <2>3 DEF Frames
  <2> QED
    BY <2>4, <2>5, <2>6, <2>7 DEF Frames
<1>9. CASE LeaveRun
  <2>1. /\ depth \in 1 .. MaxDepth /\ depth' = depth - 1 /\ Top = state_[depth]
        /\ Top.task = NoTask /\ status' = status
        /\ \A d \in 1 .. depth' : d \in 1 .. depth /\ d # depth /\ state_'[d] = state_[d]
    BY <1>1, <1>9, LeaveEffect
  <2>2. \A d \in 1 .. depth : d # depth => d \in 1 .. depth'
    BY <1>2, <2>1
  <2>3. \A d \in 1 .. depth' : state_'[d].task # NoTask => status'[state_'[d].task] = "running"
    BY <2>1 DEF Frames
  <2>4. \A c, d \in 1 .. depth' : state_'[c].task # NoTask /\ state_'[c].task = state_'[d].task
          => c = d
    BY <2>1 DEF Frames
  <2>5. \A u \in Tasks : status'[u] = "running" => \E d \in 1 .. depth' : state_'[d].task = u
    BY <2>1, <2>2, ConstantsAssumption DEF Frames, ConstantsAssumption
  <2>6. \A d \in 1 .. depth' : state_'[d].owed \subseteq Entered'
    BY <1>1, <2>1 DEF Frames
  <2> QED
    BY <2>3, <2>4, <2>5, <2>6 DEF Frames
<1> QED
  BY <1>1, <1>3, <1>4, <1>6, <1>7, <1>8, <1>9, FrameKinds, StatusKinds
\* The posters.
LEMMA PosterPosts ==
  ASSUME Types, Posts, PosterStep
  PROVE  Posts'
<1> USE DEF queues, timers, runs, pump, proxy, posts
<1>1. /\ poster \in [Posters -> [pc : {"idle", "push", "schedule"}, task : Tasks \cup {NoTask}]]
      /\ status \in [Tasks -> {"unposted", "posting", "queued", "running", "done",
                               "deleted", "rejected"}]
      /\ NoThread \notin Posters
      /\ \A p \in Posters : poster[p].pc # "idle" => poster[p].task \in Tasks
  BY ConstantsAssumption DEF Types, TypeOK, ConstantsAssumption
<1>2. ASSUME NEW p \in Posters, NEW t \in Tasks, NEW k \in PostKinds, PostBegin(p, t, k)
      PROVE  Posts'
  <2>1. \A q \in Posters : poster[q].pc = "idle"
    BY <1>1, <1>2 DEF PostBegin, Posts
  <2>2. /\ poster' = [poster EXCEPT ![p] = [pc |-> "push", task |-> t]]
        /\ status' = [status EXCEPT ![t] = "posting"]
        /\ message_loop_lock_' = p /\ target_message_loop_
        /\ UNCHANGED <<queues, depth, target_message_loop_, dtor>>
    BY <1>2 DEF PostBegin
  <2>3. \A q \in Posters : poster'[q].pc # "idle" => message_loop_lock_' = q /\ target_message_loop_'
    BY <1>1, <2>1, <2>2
  <2>4. \A q \in Posters : poster'[q].pc = "push" => status'[poster'[q].task] = "posting"
    BY <1>1, <2>1, <2>2
  <2>5. \A u \in Tasks : status'[u] = "posting" =>
          \E q \in Posters : poster'[q].pc = "push" /\ poster'[q].task = u
    BY <1>1, <2>1, <2>2 DEF Posts
  <2> QED
    BY <2>2, <2>3, <2>4, <2>5 DEF Posts, Held
<1>3. ASSUME NEW p \in Posters, NEW t \in Tasks, PostRejected(p, t) PROVE Posts'
  <2>1. /\ status[t] = "unposted" /\ status' = [status EXCEPT ![t] = "rejected"]
        /\ UNCHANGED <<queues, depth, proxy, dtor>>
    BY <1>3 DEF PostRejected
  <2>2. \A u \in Tasks : status'[u] = "posting" <=> status[u] = "posting"
    BY <1>1, <2>1
  <2> QED
    BY <1>1, <2>1, <2>2 DEF Posts, Held
<1>4. ASSUME NEW p \in Posters, AddToIncomingQueue(p) PROVE Posts'
  <2> DEFINE t == poster[p].task
  <2>1. /\ poster[p].pc = "push" /\ t \in Tasks /\ message_loop_lock_ = p /\ target_message_loop_
        /\ status' = [status EXCEPT ![t] = "queued"]
        /\ UNCHANGED <<work_queue_, depth, target_message_loop_, dtor>>
    BY <1>1, <1>4 DEF AddToIncomingQueue, Posts
  <2>2. \A q \in Posters : q # p => poster[q].pc = "idle"
    BY <2>1 DEF Posts
  <2>3. \/ /\ poster' = [poster EXCEPT ![p].pc = "schedule"] /\ message_loop_lock_' = p
        \/ poster' = [poster EXCEPT ![p] = [pc |-> "idle", task |-> NoTask]]
    BY <1>4, <2>1 DEF AddToIncomingQueue, PostReturns
  <2>4. /\ \A q \in Posters : q # p => poster'[q].pc = "idle"
        /\ poster'[p].pc = "idle" \/ (poster'[p].pc = "schedule" /\ message_loop_lock_' = p)
    BY <1>1, <2>2, <2>3
  <2>5. \A u \in Tasks : status'[u] # "posting"
    BY <1>1, <2>1, <2>2 DEF Posts
  <2>6. dtor'.pc # "Gone"
    BY <2>1 DEF Posts
  <2> QED
    BY <2>1, <2>4, <2>5, <2>6 DEF Posts
<1>5. ASSUME NEW p \in Posters, ScheduleWork(p) PROVE Posts'
  <2>1. /\ poster[p].pc = "schedule"
        /\ poster' = [poster EXCEPT ![p] = [pc |-> "idle", task |-> NoTask]]
        /\ UNCHANGED <<queues, depth, target_message_loop_, dtor, status>>
    BY <1>5 DEF ScheduleWork, PostReturns
  <2>2. \A q \in Posters : poster'[q].pc = "idle"
    BY <1>1, <2>1 DEF Posts
  <2>3. \A u \in Tasks : status[u] # "posting"
    BY <2>1 DEF Posts
  <2> QED
    BY <2>1, <2>2, <2>3 DEF Posts, Held
<1> QED
  BY <1>2, <1>3, <1>4, <1>5 DEF PosterStep, PostContinue

\* The loop thread leaves the posts of the other threads alone.
LEMMA PostingKept ==
  ASSUME Types, Places, Frames, Posts, [Next]_vars, ~PosterStep
  PROVE  /\ \A u \in Tasks : status'[u] = "posting" <=> status[u] = "posting"
         /\ UNCHANGED <<poster, message_loop_lock_>>
<1> USE DEF queues, timers, runs, pump, proxy, posts
<1>1. status \in [Tasks -> {"unposted", "posting", "queued", "running", "done",
                            "deleted", "rejected"}]
  BY DEF Types, TypeOK
<1>2. ASSUME NEW t \in Held, RunTask(t) \/ status' = status
      PROVE  \A u \in Tasks : status'[u] = "posting" <=> status[u] = "posting"
  <2>1. t \in Tasks => status[t] = "queued"
    BY DEF Places
  <2> QED
    BY <1>1, <1>2, <2>1 DEF RunTask
<1>3. CASE DoWorkTask
  <2>1. Head(work_queue_) \in Held
    BY <1>3, HeadElement DEF DoWorkTask, Types, TypeOK, Held
  <2> QED
    BY <1>2, <1>3, <2>1 DEF DoWorkTask, DeferOrRunPendingTask
<1>4. CASE \E u \in delayed_work_queue_ : DoDelayedWorkTask(u)
  BY <1>2, <1>4 DEF DoDelayedWorkTask, DeferOrRunPendingTask, Held
<1>5. CASE ProcessNextDelayedNonNestableTask
  <2>1. Head(deferred_non_nestable_work_queue_) \in Held
    BY <1>5, HeadElement DEF ProcessNextDelayedNonNestableTask, Types, TypeOK, Held
  <2> QED
    BY <1>2, <1>5, <2>1 DEF ProcessNextDelayedNonNestableTask
<1>6. CASE \/ DoWorkNothing \/ ReloadWorkQueue \/ AddToDelayedWorkQueue \/ DoDelayedWorkNothing
           \/ DoIdleWorkQuit \/ Sleep \/ WakeBySignal \/ WakeByTimeout \/ LeaveRun
           \/ \E u \in delayed_work_queue_ : DoDelayedWorkEarly(u)
  BY <1>6 DEF DoWorkNothing, ReloadWorkQueue, AddToDelayedWorkQueue, DoDelayedWorkNothing,
     DoIdleWorkQuit, Sleep, WakeBySignal, WakeByTimeout, LeaveRun, DoDelayedWorkEarly
<1>7. CASE Quit \/ QuitNow \/ DestroyBegin \/ Tick \/ UNCHANGED vars
           \/ \E r \in Runs : EnterRun(r)
  BY <1>7 DEF Quit, QuitNow, DestroyBegin, Tick, EnterRun, vars
<1>8. ASSUME NEW t \in Tasks, NEW k \in PostKinds, LoopThreadPost(t, k)
      PROVE  /\ \A u \in Tasks : status'[u] = "posting" <=> status[u] = "posting"
             /\ UNCHANGED <<poster, message_loop_lock_>>
  BY <1>1, <1>8 DEF LoopThreadPost
<1>9. CASE FinishTask
  <2>1. Top.task \in Tasks /\ Top = state_[depth] /\ depth \in 1 .. MaxDepth
        /\ status' = [status EXCEPT ![Top.task] = "done"]
    BY <1>9, FinishEffect DEF Types
  <2>2. depth \in 1 .. depth /\ Top.task # NoTask
    BY <1>9, <2>1 DEF FinishTask, InTask
  <2>3. status[Top.task] = "running"
    BY <2>1, <2>2 DEF Frames
  <2> QED
    BY <1>1, <1>9, <2>1, <2>3 DEF FinishTask
<1>10. CASE DtorNext
  <2>1. CASE DtorReload \/ WillDestroyCurrentMessageLoop
    BY <2>1 DEF DtorReload, WillDestroyCurrentMessageLoop
  <2>2. CASE DeletePendingTasks
    BY <2>2 DEF DeletePendingTasks, Places
  <2>3. CASE DtorMembers
    BY <2>3 DEF DtorMembers, Places
  <2> QED
    BY <1>10, <2>1, <2>2, <2>3 DEF DtorNext, DtorDeleteFirst, DtorDeleteSecond
<1> QED
  BY <1>3, <1>4, <1>5, <1>6, <1>7, <1>8, <1>9, <1>10 DEF Next, PumpStep, ClientStep

\* Posts find a loop, and ~MessageLoop finds no Run() on the stack.
LEMMA NextPosts ==
  Types /\ Places /\ Frames /\ Posts /\ [Next]_vars => Posts'
<1> SUFFICES ASSUME Types, Places, Frames, Posts, [Next]_vars PROVE Posts'
  OBVIOUS
<1> USE DEF queues, timers, runs, pump, proxy, posts
<1>1. CASE PosterStep
  BY <1>1, PosterPosts
<1>2. CASE ~PosterStep
  <2>1. /\ \A u \in Tasks : status'[u] = "posting" <=> status[u] = "posting"
        /\ UNCHANGED <<poster, message_loop_lock_>>
    BY <1>2, PostingKept
  <2>2. \A p \in Posters : poster[p].pc # "idle" => poster[p].task \in Tasks
    BY DEF Types
  <2>3. ASSUME \A p \in Posters : poster[p].pc # "idle" => target_message_loop_',
               (target_message_loop_ <=> dtor.pc \notin {"Members", "Gone"})',
               (dtor.pc # "none" => depth = 0)',
               (dtor.pc = "Reload" => work_queue_ = <<>>)',
               (dtor.pc = "Gone" => Elements(incoming_queue_) \cup Held = {})'
        PROVE  Posts'
    BY <2>1, <2>2, <2>3 DEF Posts
  <2>4. ASSUME UNCHANGED <<target_message_loop_, dtor>>, dtor.pc = "none" PROVE Posts'
    BY <2>3, <2>4 DEF Posts
  <2>5. ASSUME depth > 0 PROVE dtor.pc = "none"
    BY <2>5 DEF Posts
  <2>6. CASE PumpStep
    <3>1. depth > 0
      BY <2>6 DEF PumpStep, DoWorkNothing, ReloadWorkQueue, AddToDelayedWorkQueue, DoWorkTask,
         DoDelayedWorkNothing, DoDelayedWorkEarly, DoDelayedWorkTask,
         ProcessNextDelayedNonNestableTask, DoIdleWorkQuit, Sleep, WakeBySignal, WakeByTimeout,
         LeaveRun, Pumping
    <3>2. UNCHANGED <<target_message_loop_, dtor>>
      BY <2>6 DEF PumpStep, DoWorkNothing, ReloadWorkQueue, AddToDelayedWorkQueue, DoWorkTask,
         DoDelayedWorkNothing, DoDelayedWorkEarly, DoDelayedWorkTask,
         ProcessNextDelayedNonNestableTask, DoIdleWorkQuit, Sleep, WakeBySignal, WakeByTimeout,
         LeaveRun
    <3> QED
      BY <2>4, <2>5, <3>1, <3>2
  <2>7. CASE Quit \/ QuitNow \/ FinishTask \/ \E r \in Runs : EnterRun(r)
    <3>1. dtor.pc = "none" /\ UNCHANGED <<target_message_loop_, dtor>>
      BY <2>5, <2>7 DEF Quit, QuitNow, FinishTask, InTask, EnterRun, AliveClient
    <3> QED
      BY <2>4, <3>1
  <2>8. CASE DestroyBegin
    BY <2>3, <2>8 DEF DestroyBegin, DtorStep, Posts
  <2>9. ASSUME NEW t \in Tasks, NEW k \in PostKinds, LoopThreadPost(t, k) PROVE Posts'
    <3>1. dtor.pc # "Gone"
      BY <2>9 DEF LoopThreadPost, AliveClient, DtorClient
    <3> QED
      BY <2>3, <2>9, <3>1 DEF LoopThreadPost, Posts
  <2>10. CASE Tick \/ UNCHANGED vars
    <3>1. UNCHANGED <<queues, depth, target_message_loop_, dtor>>
      BY <2>10 DEF Tick, vars
    <3> QED
      BY <2>3, <3>1 DEF Posts, Held
  <2>11. CASE DtorDeleteFirst
    BY <2>3, <2>11 DEF DtorDeleteFirst, DtorStep, DeletePendingTasks, Posts, Types, TypeOK
  <2>12. CASE DtorReload
    BY <2>3, <2>12 DEF DtorReload, DtorStep, Posts, Types, TypeOK
  <2>13. CASE DtorDeleteSecond
    BY <2>3, <2>13 DEF DtorDeleteSecond, DtorStep, DeletePendingTasks, Posts
  <2>14. CASE WillDestroyCurrentMessageLoop
    <3>1. \A p \in Posters : poster[p].pc = "idle"
      BY <2>14, ConstantsAssumption DEF WillDestroyCurrentMessageLoop, Posts, ConstantsAssumption
    <3> QED
      BY <2>3, <2>14, <3>1 DEF WillDestroyCurrentMessageLoop, DtorStep, Posts, Types, TypeOK
  <2>15. CASE DtorMembers
    <3>1. Held' = {} /\ Elements(incoming_queue_)' = {}
      BY <2>15, EmptyElements DEF DtorMembers, Held
    <3> QED
      BY <2>3, <2>15, <3>1 DEF DtorMembers, DtorStep, Posts, Types, TypeOK
  <2> QED
    BY <1>2, <2>6, <2>7, <2>8, <2>9, <2>10, <2>11, <2>12, <2>13, <2>14, <2>15
    DEF Next, ClientStep, DtorNext
<1> QED
  BY <1>1, <1>2

\* Where tasks are, which run, and who may post: the three hold together.
LEMMA PlacesInvariant == Spec => [](Places /\ Frames /\ Posts)
<1>1. Init => Places /\ Frames /\ Posts
  <2> SUFFICES ASSUME Init PROVE Places /\ Frames /\ Posts
    OBVIOUS
  <2>1. Places
    BY EmptyElements DEF Init, Places, Held
  <2>2. Frames
    BY DEF Init, Frames
  <2>3. Posts
    BY DEF Init, Posts
  <2> QED
    BY <2>1, <2>2, <2>3
<1> QED
  BY <1>1, NextPlaces, NextFrames, NextPosts, TypesInvariant, PTL DEF Spec

\* A poster past its check of target_message_loop_ works on a loop that still
\* exists, and a destroyed loop has disposed of every task: the proxy's lock is
\* enough, for any number of posters.
THEOREM DestroySafe == Spec => []NoUseAfterDestroy
<1>1. Types /\ Places /\ Frames /\ Posts => NoUseAfterDestroy
  <2> SUFFICES ASSUME Types, Places, Frames, Posts PROVE NoUseAfterDestroy
    OBVIOUS
  <2>1. \A p \in Posters : poster[p].pc # "idle" =>
          message_loop_lock_ = p /\ dtor.pc \notin {"Members", "Gone"}
    BY DEF Posts
  <2>2. ASSUME dtor.pc = "Gone", NEW t \in Tasks
        PROVE  status[t] \notin {"posting", "queued", "running"}
    <3>1. status[t] # "posting"
      BY <2>1, <2>2 DEF Posts
    <3>2. status[t] # "queued"
      BY <2>2 DEF Posts, Places
    <3>3. status[t] # "running"
      BY <2>2 DEF Posts, Frames
    <3> QED
      BY <3>1, <3>2, <3>3
  <2> QED
    BY <2>1, <2>2 DEF NoUseAfterDestroy
<1> QED
  BY <1>1, TypesInvariant, PlacesInvariant, PTL
\* A task occurs at most once in a queue without duplicates.
LEMMA CountOnce ==
  ASSUME NEW q, NEW t, NoDup(q)
  PROVE  Cardinality({i \in DOMAIN q : q[i] = t}) = IF t \in Elements(q) THEN 1 ELSE 0
<1>1. CASE t \in Elements(q)
  <2>1. PICK i \in DOMAIN q : q[i] = t
    BY <1>1 DEF Elements
  <2>2. {j \in DOMAIN q : q[j] = t} = {i}
    BY <2>1 DEF NoDup
  <2> QED
    BY <1>1, <2>2, FS_Singleton
<1>2. CASE t \notin Elements(q)
  <2>1. {j \in DOMAIN q : q[j] = t} = {}
    BY <1>2 DEF Elements
  <2> QED
    BY <1>2, <2>1, FS_EmptySet
<1> QED
  BY <1>1, <1>2

\* Every accepted task is in exactly one of the four queues or in exactly one
\* frame until it has run or is deleted, and no other task is in any: a post is
\* neither lost nor run twice on its way.
THEOREM TasksConsistent == Spec => []Consistent
<1>1. Types /\ Places /\ Frames => Consistent
  <2> SUFFICES ASSUME Types, Places, Frames, NEW t \in Tasks
               PROVE  Occurrences(t) = IF status[t] \in {"queued", "running"} THEN 1 ELSE 0
    BY DEF Types, Consistent, EachTaskOnce
  <2> DEFINE I == Elements(incoming_queue_)
             W == Elements(work_queue_)
             D == delayed_work_queue_
             F == Elements(deferred_non_nestable_work_queue_)
             R == {d \in 1 .. depth : state_[d].task = t}
  <2>1. /\ Cardinality({i \in DOMAIN incoming_queue_ : incoming_queue_[i] = t})
             = IF t \in I THEN 1 ELSE 0
        /\ Cardinality({i \in DOMAIN work_queue_ : work_queue_[i] = t})
             = IF t \in W THEN 1 ELSE 0
        /\ Cardinality({i \in DOMAIN deferred_non_nestable_work_queue_ :
                          deferred_non_nestable_work_queue_[i] = t})
             = IF t \in F THEN 1 ELSE 0
    BY CountOnce DEF Places
  <2>2. Cardinality(R) = IF status[t] = "running" THEN 1 ELSE 0
    <3>1. t # NoTask
      BY ConstantsAssumption DEF ConstantsAssumption
    <3>2. CASE status[t] = "running"
      <4>1. PICK d \in 1 .. depth : state_[d].task = t
        BY <3>2 DEF Frames
      <4>2. R = {d}
        BY <3>1, <4>1 DEF Frames
      <4> QED
        BY <3>2, <4>2, FS_Singleton
    <3>3. CASE status[t] # "running"
      <4>1. R = {}
        BY <3>1, <3>3 DEF Frames
      <4> QED
        BY <3>3, <4>1, FS_EmptySet
    <3> QED
      BY <3>2, <3>3
  <2>3. /\ ~(t \in I /\ t \in W) /\ ~(t \in I /\ t \in D) /\ ~(t \in I /\ t \in F)
        /\ ~(t \in W /\ t \in D) /\ ~(t \in W /\ t \in F) /\ ~(t \in D /\ t \in F)
        /\ status[t] = "queued" <=> t \in I \/ t \in W \/ t \in D \/ t \in F
    BY DEF Places, Held
  <2>4. Occurrences(t) = (IF t \in I THEN 1 ELSE 0) + (IF t \in W THEN 1 ELSE 0)
                           + (IF t \in D THEN 1 ELSE 0) + (IF t \in F THEN 1 ELSE 0)
                           + (IF status[t] = "running" THEN 1 ELSE 0)
    BY <2>1, <2>2 DEF Occurrences
  <2> HIDE DEF I, W, D, F, R
  <2> QED
    BY <2>3, <2>4
<1> QED
  BY <1>1, TypesInvariant, PlacesInvariant, PTL-----------------------------------------------------------------------------
(* The clock *)

\* The clock does not go back, and recent_time_ is a reading of it or nothing.
LEMMA ClockKinds ==
  ASSUME TypeOK, [Next]_vars
  PROVE  \/ now' = now /\ recent_time_' \in {recent_time_, now, NullTime}
         \/ now' = now + 1 /\ recent_time_' = recent_time_
<1> USE DEF queues, timers, runs, pump, proxy, posts
<1>1. CASE PosterStep
  BY <1>1 DEF PosterStep, PostContinue, PostBegin, PostRejected, AddToIncomingQueue, ScheduleWork
<1>2. CASE DtorNext
  BY <1>2 DEF DtorNext, DtorDeleteFirst, DtorReload, DtorDeleteSecond, DeletePendingTasks,
     WillDestroyCurrentMessageLoop, DtorMembers
<1>3. CASE ClientStep
  BY <1>3 DEF ClientStep, LoopThreadPost, EnterRun, Quit, QuitNow, FinishTask, DestroyBegin
<1>4. CASE Tick \/ UNCHANGED vars
  BY <1>4 DEF Tick, vars
<1>5. CASE \/ DoDelayedWorkNothing
           \/ \E t \in delayed_work_queue_ : DoDelayedWorkEarly(t) \/ DoDelayedWorkTask(t)
  BY <1>5 DEF DoDelayedWorkNothing, DoDelayedWorkEarly, DoDelayedWorkTask, RecentTime
<1>6. CASE \/ DoWorkNothing \/ ReloadWorkQueue \/ AddToDelayedWorkQueue \/ DoWorkTask
           \/ ProcessNextDelayedNonNestableTask \/ DoIdleWorkQuit
           \/ Sleep \/ WakeBySignal \/ WakeByTimeout \/ LeaveRun
  BY <1>6 DEF DoWorkNothing, ReloadWorkQueue, AddToDelayedWorkQueue, DoWorkTask,
     ProcessNextDelayedNonNestableTask, DoIdleWorkQuit, Sleep, WakeBySignal, WakeByTimeout, LeaveRun
<1> QED
  BY <1>1, <1>2, <1>3, <1>4, <1>5, <1>6 DEF Next, PumpStep

\* What starts or is set aside is due.
LEMMA TakesDue ==
  ASSUME Types, OnTime, NEW t \in Tasks, Takes(t)
  PROVE  pending[t].delayed_run_time <= now
<1>1. now \in 0 .. MaxTime /\ recent_time_ \in 0 .. MaxTime
      /\ pending[t].delayed_run_time \in 0 .. MaxTime
  BY DEF Types, TypeOK, Times, PendingTask
<1>2. CASE ~IsDelayed(t)
  BY <1>1, <1>2 DEF IsDelayed, NullTime
<1>3. CASE pending[t].delayed_run_time <= RecentTime(pending[t].delayed_run_time)
  BY <1>1, <1>3, ConstantsAssumption DEF ConstantsAssumption, RecentTime, OnTime
<1>4. CASE /\ deferred_non_nestable_work_queue_ # <<>>
           /\ t = Head(deferred_non_nestable_work_queue_)
  <2>1. t \in Elements(deferred_non_nestable_work_queue_)
    BY <1>4, HeadElement DEF Types, TypeOK
  <2> QED
    BY <2>1 DEF OnTime
<1> QED
  BY <1>2, <1>3, <1>4 DEF Takes

\* Tasks start when their time has come.
LEMMA NextOnTime ==
  Types /\ Places /\ Frames /\ Posts /\ OnTime /\ [Next]_vars => OnTime'
<1> SUFFICES ASSUME Types, Places, Frames, Posts, OnTime, [Next]_vars PROVE OnTime'
  OBVIOUS
<1>1. TypeOK /\ Types' /\ Places' /\ Frames'
  BY NextTypes, NextPlaces, NextFrames DEF Types
<1>2. /\ now \in Nat /\ recent_time_ \in Nat /\ now' \in Nat /\ now <= now'
      /\ recent_time_' <= now'
  <2>1. now \in Nat /\ recent_time_ \in Nat /\ now' \in Nat
    BY <1>1 DEF Types, TypeOK, Times
  <2> QED
    BY <1>1, <2>1, ClockKinds DEF OnTime, NullTime
<1>3. \A t \in Tasks : /\ pending[t].delayed_run_time \in Nat
                       /\ pending'[t].delayed_run_time \in Nat
  <2>1. pending \in [Tasks -> PendingTask] /\ pending' \in [Tasks -> PendingTask]
    BY <1>1 DEF Types, TypeOK
  <2>2. \A x \in PendingTask : x.delayed_run_time \in Nat
    BY DEF PendingTask, Times
  <2> QED
    BY <2>1, <2>2
<1>4. ASSUME NEW t \in Tasks, status[t] # "unposted", status'[t] \in {"queued", "running"}
      PROVE  pending'[t].delayed_run_time = pending[t].delayed_run_time
  BY <1>1, <1>4, PendingKept
<1>5. ASSUME NEW t \in Tasks, status[t] # "unposted", status'[t] \in {"queued", "running"},
             pending[t].delayed_run_time <= now
      PROVE  pending'[t].delayed_run_time <= now'
  BY <1>2, <1>3, <1>4, <1>5
<1>6. \A t \in delayed_work_queue_' : IsDelayed(t)'
  <2> SUFFICES ASSUME NEW t \in delayed_work_queue_' PROVE IsDelayed(t)'
    OBVIOUS
  <2>1. t \in Tasks /\ status'[t] = "queued"
    BY <1>1 DEF Types, TypeOK, Places, Held
  <2>2. status[t] # "unposted" /\ IsDelayed(t)
    <3>1. CASE t \in delayed_work_queue_
      BY <2>1, <3>1 DEF OnTime, Places, Held
    <3>2. CASE t \notin delayed_work_queue_
      <4>1. Delays
        BY <3>2, QueueKinds
        DEF Calm, queues, Reloads, Deletes, Registers, Enters, Takes
      <4>2. t = Head(work_queue_) /\ IsDelayed(t) /\ t \in Elements(work_queue_)
        BY <3>2, <4>1, HeadElement DEF Delays, Types, TypeOK
      <4> QED
        BY <2>1, <4>2 DEF Places, Held
    <3> QED
      BY <3>1, <3>2
  <2> QED
    BY <1>4, <2>1, <2>2 DEF IsDelayed
<1>7. \A t \in Elements(deferred_non_nestable_work_queue_)' :
        pending'[t].delayed_run_time <= now'
  <2> SUFFICES ASSUME NEW t \in Elements(deferred_non_nestable_work_queue_)'
               PROVE  pending'[t].delayed_run_time <= now'
    OBVIOUS
  <2> DEFINE F == Elements(deferred_non_nestable_work_queue_)
  <2>1. t \in Tasks /\ status'[t] = "queued"
    BY <1>1 DEF Types, TypeOK, Places, Held, Elements
  <2>2. status[t] # "unposted" /\ pending[t].delayed_run_time <= now
    <3>1. CASE t \in F
      BY <2>1, <3>1 DEF OnTime, Places, Held
    <3>2. CASE t \notin F
      <4>1. deferred_non_nestable_work_queue_ \in Seq(Tasks)
            /\ NoDup(deferred_non_nestable_work_queue_)
        BY DEF Types, TypeOK, Places
      <4>2. deferred_non_nestable_work_queue_' # deferred_non_nestable_work_queue_
            /\ deferred_non_nestable_work_queue_' # <<>>
        BY <3>2, EmptyElements
      <4>3. PICK u \in Tasks : Takes(u)
        BY <4>2, QueueKinds DEF Calm, queues, Reloads, Delays, Deletes, Registers, Enters
      <4>4. CASE deferred_non_nestable_work_queue_' = Append(deferred_non_nestable_work_queue_, u)
        <5>1. t = u
          BY <3>2, <4>1, <4>4, AppendElements
        <5>2. u \in Held
          BY <4>1, <4>3, HeadElement DEF Takes, Held, Types, TypeOK
        <5> QED
          BY <2>1, <4>3, <5>1, <5>2, TakesDue DEF Places
      <4>5. CASE /\ deferred_non_nestable_work_queue_ # <<>>
                 /\ deferred_non_nestable_work_queue_' = Tail(deferred_non_nestable_work_queue_)
        BY <3>2, <4>1, <4>5, TailElements
      <4> QED
        BY <4>2, <4>3, <4>4, <4>5 DEF Takes, Settles
    <3> QED
      BY <3>1, <3>2
  <2> QED
    BY <1>5, <2>1, <2>2
<1>8. ASSUME NEW t \in Tasks, status'[t] = "running"
      PROVE  pending'[t].delayed_run_time <= now'
  <2>1. CASE status[t] = "running"
    <3>1. pending[t].delayed_run_time <= now
      BY <2>1, ConstantsAssumption DEF OnTime, NeverEarly, Frames, ConstantsAssumption
    <3> QED
      BY <1>5, <1>8, <2>1, <3>1
  <2>2. CASE status[t] # "running"
    <3>1. status \in [Tasks -> {"unposted", "posting", "queued", "running", "done",
                                "deleted", "rejected"}]
      BY <1>1 DEF TypeOK
    <3>2. ~Calm /\ ~Reloads /\ ~Delays /\ ~Deletes
      BY <1>8, <2>2, <3>1 DEF Calm, Reloads, Delays, Deletes
    <3>3. ~FinishTask
      BY <1>1, <1>8, <2>2, <3>1, FinishEffect
    <3>4. \A u \in Tasks : ~Registers(u) /\ ~Enters(u)
      BY <1>8, <2>2, <3>1 DEF Registers, Enters
    <3>5. PICK u \in Tasks : Takes(u)
      BY <3>2, <3>3, <3>4, QueueKinds
    <3>6. Begins(u) /\ u = t
      BY <1>8, <2>2, <3>1, <3>5 DEF Takes, Settles, Begins, RunTask
    <3>7. status[t] = "queued"
      BY <3>6 DEF Begins, Places
    <3> QED
      BY <1>5, <1>8, <3>5, <3>6, <3>7, TakesDue
  <2> QED
    BY <2>1, <2>2
<1>9. NeverEarly'
  <2> SUFFICES ASSUME NEW d \in 1 .. depth', state_'[d].task # NoTask
               PROVE  pending'[state_'[d].task].delayed_run_time <= now'
    BY DEF NeverEarly
  <2>1. d \in 1 .. MaxDepth
    BY <1>1, ConstantsAssumption DEF ConstantsAssumption, Types, TypeOK
  <2>2. state_'[d].task \in Tasks
    BY <1>1, <2>1 DEF Types, TypeOK, RunState
  <2> QED
    BY <1>1, <1>8, <2>2 DEF Frames
<1> QED
  BY <1>2, <1>6, <1>7, <1>9 DEF OnTime-----------------------------------------------------------------------------
(* The pump's sleep *)

\* Where a delegate's method leaves the pump, if quitting does not end it.
LEMMA DelegatePoints ==
  ASSUME NEW s \in RunState, NEW result \in BOOLEAN, NEW keep \in BOOLEAN,
         DelegateReturns(s, result, keep).pc \notin {"DoWork", "Exit"}
  PROVE  LET r == DelegateReturns(s, result, keep) IN
         \/ s.pc = "DoWork" /\ r.pc = "DoDelayedWork" /\ r.did_work = result
         \/ s.pc = "DoDelayedWork" /\ r.pc = "DoIdleWork" /\ ~s.did_work /\ ~result
         \/ s.pc \notin {"DoWork", "DoDelayedWork"} /\ r.pc = "Sleep" /\ ~result
BY DEF DelegateReturns, RunState, PumpPoints

\* The steps of other threads, and of the clock.
LEMMA OthersDrained ==
  ASSUME Types, Places, Frames, Posts, Drained, PosterStep \/ Tick \/ UNCHANGED vars
  PROVE  Drained'
<1> USE DEF queues, timers, runs, pump, proxy, posts
<1>1. ASSUME Looked' PROVE Looked /\ Top' = Top /\ depth > 0
  <2>1. UNCHANGED <<depth, state_, nestable_tasks_allowed_>>
    BY DEF PosterStep, PostContinue, PostBegin, PostRejected, AddToIncomingQueue, ScheduleWork,
       Tick, vars
  <2> QED
    BY <1>1, <2>1 DEF Looked, Top
<1>2. UNCHANGED <<work_queue_, delayed_work_queue_, delayed_work_time_>>
  BY DEF PosterStep, PostContinue, PostBegin, PostRejected, AddToIncomingQueue, ScheduleWork,
     Tick, vars
<1>3. \A t \in delayed_work_queue_ :
        pending'[t].delayed_run_time = pending[t].delayed_run_time
  <2> SUFFICES ASSUME NEW t \in delayed_work_queue_
               PROVE  pending'[t].delayed_run_time = pending[t].delayed_run_time
    OBVIOUS
  <2>1. t \in Tasks /\ status[t] = "queued"
    BY DEF Types, TypeOK, Places, Held
  <2>2. ASSUME NEW p \in Posters, NEW u \in Tasks, NEW k \in PostKinds, PostBegin(p, u, k)
        PROVE  pending'[t] = pending[t]
    BY <2>1, <2>2 DEF PostBegin, Types, TypeOK
  <2> QED
    BY <2>2 DEF PosterStep, PostContinue, PostRejected, AddToIncomingQueue, ScheduleWork, Tick, vars
<1>4. ASSUME Looked', Top'.pc # "DoDelayedWork", NEW t \in delayed_work_queue_'
      PROVE  /\ delayed_work_time_' # NullTime
             /\ delayed_work_time_' <= pending'[t].delayed_run_time
  BY <1>1, <1>2, <1>3, <1>4 DEF Drained
<1>5. ASSUME Looked',
             /\ incoming_queue_' = <<>> \/ event_' \/ \E p \in Posters : poster'[p].pc = "schedule"
             /\ Top.owed \cap Elements(incoming_queue_') = {}
      PROVE  Drained'
  BY <1>1, <1>2, <1>4, <1>5 DEF Drained
<1>6. ASSUME Looked'
      PROVE  /\ incoming_queue_ = <<>> \/ event_ \/ \E p \in Posters : poster[p].pc = "schedule"
             /\ Top.owed \cap Elements(incoming_queue_) = {}
  BY <1>1, <1>6 DEF Drained
<1>7. /\ poster \in [Posters -> [pc : {"idle", "push", "schedule"}, task : Tasks \cup {NoTask}]]
      /\ incoming_queue_ \in Seq(Tasks)
  BY DEF Types, TypeOK
<1>8. ASSUME Looked', NEW p \in Posters, NEW t \in Tasks, NEW k \in PostKinds, PostBegin(p, t, k)
      PROVE  Drained'
  <2>1. /\ poster[p].pc = "idle" /\ UNCHANGED <<incoming_queue_, event_>>
        /\ poster' = [poster EXCEPT ![p] = [pc |-> "push", task |-> t]]
    BY <1>8 DEF PostBegin
  <2>2. \A q \in Posters : poster[q].pc = "schedule" => poster'[q].pc = "schedule"
    BY <1>7, <2>1
  <2> QED
    BY <1>5, <1>6, <1>8, <2>1, <2>2
<1>9. ASSUME Looked', NEW p \in Posters, AddToIncomingQueue(p) PROVE Drained'
  <2> DEFINE t == poster[p].task
  <2>1. /\ poster[p].pc = "push" /\ t \in Tasks /\ status[t] = "posting"
        /\ incoming_queue_' = Append(incoming_queue_, t) /\ UNCHANGED event_
    BY <1>9 DEF AddToIncomingQueue, Types, Posts
  <2>2. Elements(incoming_queue_') = Elements(incoming_queue_) \cup {t}
    <3> HIDE DEF t
    <3> QED
      BY <1>7, <2>1, AppendElements DEF NoDup
  <2>3. t \notin Top.owed
    <3>1. depth \in 1 .. depth /\ Top = state_[depth]
      BY <1>1, <1>9 DEF Types, TypeOK, Top
    <3>2. Top.owed \subseteq Entered
      BY <3>1 DEF Frames
    <3> QED
      BY <2>1, <3>2 DEF Entered
  <2>4. CASE incoming_queue_ = <<>>
    <3>1. poster'[p].pc = "schedule"
      BY <1>7, <1>9, <2>4 DEF AddToIncomingQueue, WasEmpty
    <3> QED
      BY <1>5, <1>6, <1>9, <2>2, <2>3, <3>1
  <2>5. CASE incoming_queue_ # <<>>
    <3>1. poster' = [poster EXCEPT ![p] = [pc |-> "idle", task |-> NoTask]]
      BY <1>9, <2>5 DEF AddToIncomingQueue, WasEmpty, PostReturns
    <3>2. \A q \in Posters : poster[q].pc = "schedule" => poster'[q].pc = "schedule"
      BY <1>7, <2>1, <3>1
    <3> QED
      BY <1>5, <1>6, <1>9, <2>1, <2>2, <2>3, <2>5, <3>2
  <2> QED
    BY <2>4, <2>5
<1>10. ASSUME Looked', NEW p \in Posters, ScheduleWork(p) PROVE Drained'
  BY <1>5, <1>6, <1>10 DEF ScheduleWork
<1>11. ASSUME Looked', UNCHANGED <<incoming_queue_, event_, poster>> PROVE Drained'
  BY <1>5, <1>6, <1>11
<1>12. CASE Looked'
  BY <1>8, <1>9, <1>10, <1>11, <1>12 DEF PosterStep, PostContinue, PostRejected, Tick, vars
<1> QED
  BY <1>12 DEF Drained

\* The innermost frame after a step of its pump.
LEMMA TopAfter ==
  ASSUME TypeOK, depth > 0, depth' = depth, NEW r, state_' = [state_ EXCEPT ![depth] = r]
  PROVE  Top' = r
<1>1. depth \in 1 .. MaxDepth
  BY TopType
<1> QED
  BY <1>1 DEF TypeOK, Top
\* The earliest delayed task bounds all the others.
LEMMA TopIsEarliest ==
  ASSUME Types, NEW q \in SUBSET Tasks, NEW t \in q, IsDelayedTop(t, q, pending), NEW u \in q
  PROVE  pending[t].delayed_run_time <= pending[u].delayed_run_time
<1>1. pending[t] \in PendingTask /\ pending[u] \in PendingTask
  BY DEF Types, TypeOK
<1>2. pending[t].delayed_run_time \in Nat /\ pending[u].delayed_run_time \in Nat
  BY <1>1 DEF PendingTask, Times
<1>3. CASE u = t
  BY <1>2, <1>3
<1>4. CASE u # t
  <2>1. Precedes(pending[t], pending[u])
    BY <1>4 DEF IsDelayedTop
  <2>2. pending[t].delayed_run_time < pending[u].delayed_run_time
        \/ pending[t].delayed_run_time = pending[u].delayed_run_time
    BY <2>1 DEF Precedes
  <2> QED
    BY <1>2, <2>2
<1> QED
  BY <1>3, <1>4

\* The pump's own steps.
LEMMA DelegateDrained ==
  ASSUME Types, OnTime, Drained,
         \/ DoWorkNothing \/ DoWorkTask \/ DoDelayedWorkNothing
         \/ \E t \in delayed_work_queue_ : DoDelayedWorkEarly(t) \/ DoDelayedWorkTask(t)
         \/ DoIdleWorkQuit \/ Sleep
  PROVE  Drained'
<1> USE DEF queues, timers, runs, pump, proxy, posts, Pumping
<1>1. TypeOK /\ keep_running_ \in BOOLEAN
  BY DEF Types, TypeOK
<1>2. ASSUME depth > 0 PROVE depth \in 1 .. MaxDepth /\ Top \in RunState /\ Top = state_[depth]
  BY <1>1, <1>2, TopType DEF Top
<1>3. ASSUME depth > 0, UNCHANGED depth, ReturnToPump(FALSE)
      PROVE  Top' = DelegateReturns(Top, FALSE, keep_running_)
  BY <1>1, <1>2, <1>3, TopAfter DEF ReturnToPump
<1>4. CASE DoWorkNothing
  <2>1. Top' = DelegateReturns(Top, FALSE, keep_running_) /\ Top.pc = "DoWork" /\ Top \in RunState
    BY <1>2, <1>3, <1>4 DEF DoWorkNothing
  <2>2. Top'.pc \notin {"DoWork", "Exit"} => Top'.pc = "DoDelayedWork"
    BY <1>1, <2>1, DelegatePoints
  <2>3. Looked' => work_queue_' = <<>> /\ incoming_queue_' = <<>> /\ Top'.pc = "DoDelayedWork"
    BY <1>4, <2>2 DEF DoWorkNothing, Looked
  <2> QED
    BY <2>3, EmptyElements DEF Drained
<1>5. CASE DoWorkTask
  <2>1. Top.pc = "DoWork" /\ depth \in 1 .. MaxDepth /\ Top = state_[depth] /\ Top \in RunState
        /\ Head(work_queue_) \in Tasks
    BY <1>1, <1>2, <1>5 DEF DoWorkTask, TypeOK
  <2>2. state_' = [state_ EXCEPT ![depth].task = Head(work_queue_)]
        \/ state_' = [state_ EXCEPT ![depth] = Top]
    BY <1>5 DEF DoWorkTask, DeferOrRunPendingTask, RunTask
  <2>3. Top'.pc = "DoWork"
    <3>1. [Top EXCEPT !.task = Head(work_queue_)].pc = Top.pc
      BY <2>1 DEF RunState
    <3>2. depth' = depth
      BY <1>5 DEF DoWorkTask
    <3> QED
      BY <1>1, <2>1, <2>2, <3>1, <3>2 DEF TypeOK, Top
  <2> QED
    BY <2>3 DEF Drained, Looked
<1>6. CASE DoDelayedWorkNothing
  <2>1. Top' = DelegateReturns(Top, FALSE, keep_running_) /\ Top.pc = "DoDelayedWork"
        /\ Top \in RunState
    BY <1>2, <1>3, <1>6 DEF DoDelayedWorkNothing
  <2>2. Looked' => /\ ~Top.did_work /\ Top'.owed = Top.owed /\ delayed_work_queue_ = {}
    BY <1>1, <1>6, <2>1, DelegatePoints, DelegateFrame DEF DoDelayedWorkNothing, Looked
  <2>3. Looked' => Looked
    BY <1>6, <2>1, <2>2 DEF DoDelayedWorkNothing, Looked
  <2> QED
    BY <1>6, <2>2, <2>3 DEF DoDelayedWorkNothing, Drained
<1>7. ASSUME NEW t \in delayed_work_queue_, DoDelayedWorkEarly(t) PROVE Drained'
  <2>1. Top' = DelegateReturns(Top, FALSE, keep_running_) /\ Top.pc = "DoDelayedWork"
        /\ Top \in RunState
    BY <1>2, <1>3, <1>7 DEF DoDelayedWorkEarly
  <2>2. Looked' => ~Top.did_work /\ Top'.owed = Top.owed
    BY <1>1, <2>1, DelegatePoints, DelegateFrame DEF Looked
  <2>3. Looked' => Looked
    BY <1>7, <2>1, <2>2 DEF DoDelayedWorkEarly, Looked
  <2>4. \A u \in delayed_work_queue_ :
          pending[t].delayed_run_time <= pending[u].delayed_run_time
    BY <1>7, TopIsEarliest DEF DoDelayedWorkEarly, Types, TypeOK
  <2>5. pending[t].delayed_run_time # NullTime
    BY DEF OnTime, IsDelayed
  <2> QED
    BY <1>7, <2>2, <2>3, <2>4, <2>5 DEF DoDelayedWorkEarly, Drained
<1>8. ASSUME NEW t \in delayed_work_queue_, DoDelayedWorkTask(t) PROVE Drained'
  <2> DEFINE rest == delayed_work_queue_ \ {t}
             r == DelegateReturns(Top, FALSE, keep_running_)
  <2>1. Top.pc = "DoDelayedWork" /\ depth \in 1 .. MaxDepth /\ Top = state_[depth]
        /\ Top \in RunState /\ depth' = depth /\ depth > 0 /\ Top.task = NoTask
        /\ nestable_tasks_allowed_
    BY <1>2, <1>8 DEF DoDelayedWorkTask
  <2>2. t \in Tasks /\ t # NoTask
    BY <1>1, ConstantsAssumption DEF TypeOK, ConstantsAssumption
  <2>3. CASE RunTask(t)
    <3>1. state_'[depth].task = t
      BY <1>1, <2>1, <2>3 DEF RunTask, TypeOK, RunState
    <3> QED
      BY <2>1, <2>2, <3>1 DEF Drained, Looked, Top
  <2>4. CASE state_' = [state_ EXCEPT ![depth] = r]
    <3>1. Top' = r
      BY <1>1, <2>1, <2>4, TopAfter
    <3>2. Looked' => ~Top.did_work /\ Top'.owed = Top.owed
      BY <1>1, <2>1, <3>1, DelegatePoints, DelegateFrame DEF Looked
    <3>3. Looked' => Looked
      BY <2>1, <3>2 DEF Looked
    <3>4. /\ delayed_work_queue_' = rest
          /\ UNCHANGED <<work_queue_, incoming_queue_, event_, poster, pending>>
      BY <1>8 DEF DoDelayedWorkTask
    <3>5. \A u \in rest : /\ delayed_work_time_' # NullTime
                          /\ delayed_work_time_' <= pending[u].delayed_run_time
      <4>1. CASE rest = {}
        BY <4>1
      <4>2. CASE rest # {}
        <5>1. PICK top \in rest : /\ IsDelayedTop(top, rest, pending)
                                  /\ delayed_work_time_' = pending[top].delayed_run_time
          BY <1>8, <4>2 DEF DoDelayedWorkTask
        <5>2. rest \in SUBSET Tasks
          BY <1>1 DEF TypeOK
        <5>3. pending[top].delayed_run_time # NullTime
          BY DEF OnTime, IsDelayed
        <5> QED
          BY <5>1, <5>2, <5>3, TopIsEarliest
      <4> QED
        BY <4>1, <4>2
    <3> HIDE DEF rest, r
    <3> QED
      BY <3>2, <3>3, <3>4, <3>5 DEF Drained
  <2> QED
    BY <1>8, <2>3, <2>4 DEF DoDelayedWorkTask, DeferOrRunPendingTask
<1>9. CASE DoIdleWorkQuit
  <2>1. Top.pc = "DoIdleWork" /\ depth > 0 /\ depth' = depth /\ Top \in RunState
        /\ Top.task = NoTask /\ keep_running_' \in BOOLEAN
    BY <1>2, <1>9 DEF DoIdleWorkQuit
  <2>2. Top' = DelegateReturns(Top, FALSE, keep_running_')
    BY <1>1, <1>2, <1>9, <2>1, TopAfter DEF DoIdleWorkQuit
  <2>3. Looked' => Top'.owed = Top.owed
    BY <2>1, <2>2, DelegateFrame
  <2>4. Looked' => Looked
    BY <1>9, <2>1 DEF DoIdleWorkQuit, Looked
  <2> QED
    BY <1>9, <2>1, <2>3, <2>4 DEF DoIdleWorkQuit, Drained
<1>10. CASE Sleep
  <2> DEFINE pc == IF delayed_work_time_ = NullTime THEN "Wait"
                   ELSE IF delayed_work_time_ > now THEN "TimedWait" ELSE "DoWork"
  <2>1. Top.pc = "Sleep" /\ depth \in 1 .. MaxDepth /\ Top = state_[depth] /\ Top \in RunState
        /\ depth > 0 /\ depth' = depth /\ Top.task = NoTask
    BY <1>2, <1>10 DEF Sleep
  <2>2. state_' = [state_ EXCEPT ![depth].pc = pc]
    BY <1>10 DEF Sleep, SetPumpPoint
  <2>3. Top' = [Top EXCEPT !.pc = pc]
    <3> HIDE DEF pc
    <3> QED
      BY <1>1, <2>1, <2>2 DEF TypeOK, Top
  <2>4. Top'.pc = pc /\ Top'.owed = Top.owed
    <3> HIDE DEF pc
    <3> QED
      BY <2>1, <2>3 DEF RunState
  <2>5. Looked' => Looked
    BY <1>10, <2>1 DEF Sleep, Looked
  <2>6. Looked' => delayed_work_time_ = NullTime \/ delayed_work_time_ > now
    BY <2>4 DEF Looked
  <2>7. now \in Nat /\ delayed_work_time_ \in Nat
    BY <1>1 DEF TypeOK, Times
  <2>8. Looked' => delayed_work_time_' = delayed_work_time_
    BY <1>10, <2>6, <2>7 DEF Sleep, NullTime
  <2> HIDE DEF pc
  <2> QED
    BY <1>10, <2>1, <2>4, <2>5, <2>8 DEF Sleep, Drained
<1> QED
  BY <1>4, <1>5, <1>6, <1>7, <1>8, <1>9, <1>10

\* The pump that has found no work sleeps right.
LEMMA NextDrained ==
  Types /\ Nesting /\ Places /\ Frames /\ Posts /\ OnTime /\ Drained /\ [Next]_vars => Drained'
<1> SUFFICES ASSUME Types, Nesting, Places, Frames, Posts, OnTime, Drained, [Next]_vars
             PROVE  Drained'
  OBVIOUS
<1> USE DEF queues, timers, runs, pump, proxy, posts
<1>1. TypeOK /\ keep_running_ \in BOOLEAN
  BY DEF Types, TypeOK
<1>2. ASSUME ~Looked' PROVE Drained'
  BY <1>2 DEF Drained
<1>3. CASE PosterStep \/ Tick \/ UNCHANGED vars
  BY <1>3, OthersDrained
<1>4. CASE \/ DoWorkNothing \/ DoWorkTask \/ DoDelayedWorkNothing
           \/ \E t \in delayed_work_queue_ : DoDelayedWorkEarly(t) \/ DoDelayedWorkTask(t)
           \/ DoIdleWorkQuit \/ Sleep
  BY <1>4, DelegateDrained
<1>5. CASE ReloadWorkQueue \/ AddToDelayedWorkQueue
  <2>1. Top'.pc = "DoWork"
    BY <1>5 DEF ReloadWorkQueue, AddToDelayedWorkQueue, Pumping, Top
  <2> QED
    BY <1>2, <2>1 DEF Looked
<1>6. CASE ProcessNextDelayedNonNestableTask
  <2>1. depth > 0 /\ depth' = depth /\ RunTask(Head(deferred_non_nestable_work_queue_))
        /\ deferred_non_nestable_work_queue_ # <<>>
    BY <1>6 DEF ProcessNextDelayedNonNestableTask, Pumping
  <2>2. nestable_tasks_allowed_' = FALSE
    BY <2>1 DEF RunTask
  <2> QED
    BY <1>2, <2>2 DEF Looked
<1>7. CASE WakeBySignal \/ WakeByTimeout
  <2>1. depth > 0 /\ depth' = depth /\ state_' = [state_ EXCEPT ![depth].pc = "DoWork"]
    BY <1>7 DEF WakeBySignal, WakeByTimeout, Pumping, SetPumpPoint
  <2>2. depth \in 1 .. MaxDepth /\ state_[depth] \in RunState
    BY <1>1, <2>1, TopType DEF Top
  <2>3. Top'.pc = "DoWork"
    BY <1>1, <2>1, <2>2 DEF TypeOK, RunState, Top
  <2> QED
    BY <1>2, <2>3 DEF Looked
<1>8. CASE LeaveRun
  <2>1. /\ depth \in 1 .. MaxDepth /\ depth' = depth - 1
        /\ \A d \in 1 .. depth' : d \in 1 .. depth /\ d # depth /\ state_'[d] = state_[d]
    BY <1>1, <1>8, LeaveEffect
  <2>2. depth' > 0 => depth' \in 1 .. depth' /\ depth' < depth
    BY <2>1
  <2>3. depth' > 0 => Top'.task # NoTask
    BY <2>1, <2>2 DEF Nesting, Top
  <2> QED
    BY <1>2, <2>3 DEF Looked
<1>9. ASSUME NEW r \in Runs, EnterRun(r) PROVE Drained'
  <2>1. depth' = depth + 1 /\ state_'[depth + 1].pc = "DoWork"
    BY <1>1, <1>9, EnterEffect
  <2>2. Top'.pc = "DoWork"
    BY <2>1 DEF Top
  <2> QED
    BY <1>2, <2>2 DEF Looked
<1>10. CASE FinishTask
  <2> DEFINE s == [Top EXCEPT !.task = NoTask]
             r == DelegateReturns(s, TRUE, keep_running_)
  <2>1. depth \in 1 .. MaxDepth /\ depth' = depth /\ Top = state_[depth] /\ Top \in RunState
        /\ depth > 0
    BY <1>1, <1>10, TopType DEF FinishTask, InTask, Top
  <2>2. state_' = [state_ EXCEPT ![depth] = r]
    BY <1>1, <1>10, <2>1 DEF FinishTask, TypeOK
  <2>3. s \in RunState
    BY <2>1 DEF RunState
  <2>4. Top' = r
    <3> HIDE DEF r
    <3> QED
      BY <1>1, <2>1, <2>2, TopAfter
  <2>5. r.pc \notin {"DoWork", "Exit"} => r.pc = "DoDelayedWork" /\ r.did_work
    <3> HIDE DEF s
    <3> QED
      BY <1>1, <2>3, DelegatePoints
  <2> HIDE DEF r
  <2> QED
    BY <1>2, <2>4, <2>5 DEF Looked
<1>11. CASE Quit \/ QuitNow
  <2>1. nestable_tasks_allowed_' = nestable_tasks_allowed_ /\ InTask
    BY <1>11 DEF Quit, QuitNow
  <2> QED
    BY <1>2, <2>1 DEF Looked, Nesting
<1>12. CASE DestroyBegin \/ DtorNext
  <2>1. depth' = 0
    BY <1>12 DEF DestroyBegin, DtorNext, DtorDeleteFirst, DtorReload, DtorDeleteSecond,
       DeletePendingTasks, WillDestroyCurrentMessageLoop, DtorMembers, DtorStep, Posts
  <2> QED
    BY <1>2, <2>1 DEF Looked
<1>13. ASSUME NEW t \in Tasks, NEW k \in PostKinds, LoopThreadPost(t, k) PROVE Drained'
  <2>1. (depth = 0 \/ InTask) /\ UNCHANGED <<depth, nestable_tasks_allowed_>>
    BY <1>13 DEF LoopThreadPost, AliveClient, DtorClient, Posts
  <2> QED
    BY <1>2, <2>1 DEF Looked, Nesting
<1> QED
  BY <1>3, <1>4, <1>5, <1>6, <1>7, <1>8, <1>9, <1>10, <1>11, <1>12, <1>13
  DEF Next, PumpStep, ClientStep

\* Due times and drained queues, always.
LEMMA DrainedInvariant == Spec => [](OnTime /\ Drained)
<1>1. Init => OnTime /\ Drained
  <2> SUFFICES ASSUME Init PROVE OnTime /\ Drained
    OBVIOUS
  <2>1. OnTime
    BY EmptyElements DEF Init, OnTime, NeverEarly, NullTime
  <2>2. Drained
    BY DEF Init, Drained, Looked
  <2> QED
    BY <2>1, <2>2
<1> QED
  BY <1>1, NextOnTime, NextDrained, TypesInvariant, NestingInvariant, PlacesInvariant, PTL DEF Spec

\* The pump never blocks on event_ with work waiting, never sleeps past the
\* earliest delayed task, and starts no task before its time, although posters
\* signal for the first task only and the loop compares with a cached clock.
THEOREM PumpSleepsRight == Spec => []SleepsRight
<1>1. OnTime /\ Drained => SleepsRight
  BY DEF OnTime, Drained, Looked, SleepsRight, NoLostWakeup, NoOversleep, Pumping
<1> QED
  BY <1>1, DrainedInvariant, PTL

\* An idle pump obeys Quit only when every task that was in the incoming or the
\* work queue at the time of Quit has left them.
THEOREM QuitAfterDraining == Spec => QuitDrains
<1>1. Drained /\ [Next]_vars =>
        [Pumping("DoIdleWork") /\ nestable_tasks_allowed_ /\ keep_running_ /\ ~keep_running_'
          => Top.owed \cap (Elements(incoming_queue_) \cup Elements(work_queue_)) = {}]_vars
  BY EmptyElements DEF Drained, Looked, Pumping
<1> QED
  BY <1>1, DrainedInvariant, PTL DEF Spec, QuitDrains
=============================================================================
