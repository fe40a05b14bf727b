---------------------- MODULE SequencedWorkerPoolProofs ----------------------
(***************************************************************************)
(* Proofs about SequencedWorkerPool for any number of threads, tasks,      *)
(* posters, flushers and tokens: first the types, the sequences and the    *)
(* creation of threads; then the counters, which agree with what they      *)
(* count, and on them the promises of Shutdown, FlushForTesting and the    *)
(* end of the pool.                                                        *)
(***************************************************************************)
EXTENDS SequencedWorkerPool, FiniteSetTheorems, TLAPS

-----------------------------------------------------------------------------
(* Lemmas about the helpers *)

\* has_work_cv_.Signal() only moves one worker from Wait to Woken.
LEMMA SignalHasWorkType ==
  ASSUME NEW f \in [Workers -> WorkerState], SignalHasWork(f)
  PROVE  /\ worker' \in [Workers -> WorkerState]
         /\ \A w \in Workers : /\ worker'[w].task = f[w].task
                               /\ worker'[w].new_thread_id = f[w].new_thread_id
                               /\ \/ worker'[w].pc = f[w].pc
                                  \/ f[w].pc = "Wait" /\ worker'[w].pc = "Woken"
  BY DEF SignalHasWork, WorkerState, WorkerPoints

\* Starting a thread changes no worker but the new one, and no task in hand.
LEMMA StartThreadType ==
  ASSUME NEW f \in [Workers -> WorkerState], NEW n,
         FinishStartingAdditionalThread(f, n)
  PROVE  /\ worker' \in [Workers -> WorkerState]
         /\ \A w \in Workers : /\ worker'[w].task = f[w].task
                               /\ worker'[w].new_thread_id = f[w].new_thread_id
                               /\ worker'[w].pc = IF w = n THEN "starting" ELSE f[w].pc
  BY DEF FinishStartingAdditionalThread, WorkerState, WorkerPoints

\* A worker's position and one other field updated at once.
LEMMA TaskUpdateType ==
  ASSUME NEW f \in [Workers -> WorkerState], NEW w \in Workers,
         NEW pc \in WorkerPoints, NEW t \in Tasks \cup {NoTask}
  PROVE  [f EXCEPT ![w].pc = pc, ![w].task = t] \in [Workers -> WorkerState]
<1> DEFINE g == [f EXCEPT ![w].pc = pc]
<1>1. g \in [Workers -> WorkerState]
  BY DEF WorkerState
<1>2. [g EXCEPT ![w].task = t] \in [Workers -> WorkerState]
  <2> HIDE DEF g
  <2> QED
    BY <1>1 DEF WorkerState
<1> QED
  BY <1>2

\* The same for the closures to delete.
LEMMA ClosuresUpdateType ==
  ASSUME NEW f \in [Workers -> WorkerState], NEW w \in Workers,
         NEW pc \in WorkerPoints, NEW D \in SUBSET Tasks
  PROVE  [f EXCEPT ![w].pc = pc, ![w].delete_these_outside_lock = D] \in [Workers -> WorkerState]
<1> DEFINE g == [f EXCEPT ![w].pc = pc]
<1>1. g \in [Workers -> WorkerState]
  BY DEF WorkerState
<1>2. [g EXCEPT ![w].delete_these_outside_lock = D] \in [Workers -> WorkerState]
  <2> HIDE DEF g
  <2> QED
    BY <1>1 DEF WorkerState
<1> QED
  BY <1>2

\* The same for the thread to create.
LEMMA NewThreadUpdateType ==
  ASSUME NEW f \in [Workers -> WorkerState], NEW w \in Workers,
         NEW pc \in WorkerPoints, NEW n \in 0 .. max_threads_
  PROVE  [f EXCEPT ![w].pc = pc, ![w].new_thread_id = n] \in [Workers -> WorkerState]
<1> DEFINE g == [f EXCEPT ![w].pc = pc]
<1>1. g \in [Workers -> WorkerState]
  BY DEF WorkerState
<1>2. [g EXCEPT ![w].new_thread_id = n] \in [Workers -> WorkerState]
  <2> HIDE DEF g
  <2> QED
    BY <1>1 DEF WorkerState
<1> QED
  BY <1>2

\* The number of a new thread is within max_threads_.
LEMMA PrepareType ==
  ASSUME TypeOK
  PROVE  PrepareToStartAdditionalThreadIfHelpful \in 0 .. max_threads_
<1>1. IsFiniteSet(Workers)
  BY FS_Interval, ConstantsAssumption DEF ConstantsAssumption, Workers
<1>2. Cardinality(threads_) \in Nat
  BY <1>1, FS_Subset, FS_CardinalityType DEF TypeOK
<1> QED
  BY <1>2, ConstantsAssumption
  DEF ConstantsAssumption, PrepareToStartAdditionalThreadIfHelpful

\* The number of posts so far.
LEMMA TicketType ==
  ASSUME TypeOK
  PROVE  1 + Cardinality({u \in Tasks : posted[u].ticket > 0}) \in Nat
<1>1. IsFiniteSet({u \in Tasks : posted[u].ticket > 0})
  BY FS_Subset, ConstantsAssumption DEF ConstantsAssumption
<1> QED
  BY <1>1, FS_CardinalityType

\* Every set of tasks has a cardinality.
LEMMA TaskSetType ==
  ASSUME NEW S \in SUBSET Tasks
  PROVE  Cardinality(S) \in Nat
BY FS_Subset, FS_CardinalityType, ConstantsAssumption DEF ConstantsAssumption

-----------------------------------------------------------------------------
(* Type correctness *)

\* The initial state is well typed.
LEMMA InitType == Init => TypeOK
<1> SUFFICES ASSUME Init PROVE TypeOK
  OBVIOUS
<1>1. worker \in [Workers -> WorkerState]
  BY ConstantsAssumption
  DEF ConstantsAssumption, Init, NoWorker, WorkerState, WorkerPoints
<1>2. call \in [Callers -> CallState]
  BY ConstantsAssumption DEF ConstantsAssumption, Init, NoCall, CallState
<1>3. posted \in [Tasks -> SequencedTask] /\ status \in [Tasks -> TaskStatus]
  BY ConstantsAssumption
  DEF ConstantsAssumption, Init, SequencedTask, WorkerShutdown, TaskStatus
<1>4. /\ last_sequence_number_ \in 0 .. MaxTokens
      /\ named_sequence_tokens_ \in [Names -> 0 .. MaxTokens]
  BY ConstantsAssumption DEF ConstantsAssumption, Init
<1>5. flusher \in [Flushers -> WaitPoints] /\ shutdown \in WaitPoints
  BY DEF Init, WaitPoints
<1>6. /\ thread_being_created_ \in BOOLEAN /\ shutdown_called_ \in BOOLEAN
      /\ client_ref \in BOOLEAN
  BY DEF Init
<1>7. /\ threads_ \subseteq Workers /\ pending_tasks_ \subseteq Tasks
      /\ current_sequences_ \subseteq 1 .. MaxTokens
  BY DEF Init
<1>8. /\ waiting_thread_count_ \in Int /\ blocking_shutdown_thread_count_ \in Int
      /\ pending_task_count_ \in Int
      /\ blocking_shutdown_pending_task_count_ \in Int
  BY DEF Init
<1>9. /\ lock_ \in Workers \cup {NoThread}
      /\ deletion \in {"none", "delete", "delete_soon", "destroyed"}
  BY DEF Init
<1> QED
  BY <1>1, <1>2, <1>3, <1>4, <1>5, <1>6, <1>7, <1>8, <1>9 DEF TypeOK

\* Tokens.
LEMMA TokenType ==
  ASSUME TypeOK, NEW name \in Names, LockedGetNamedTokenID(name)
  PROVE  /\ last_sequence_number_' \in 0 .. MaxTokens
         /\ named_sequence_tokens_' \in [Names -> 0 .. MaxTokens]
BY ConstantsAssumption
DEF ConstantsAssumption, TypeOK, LockedGetNamedTokenID, tokens

\* PostTask keeps the types.
LEMMA PostTaskType ==
  ASSUME TypeOK, NEW c \in Callers, NEW t \in Tasks, NEW behavior \in Behaviors,
         NEW name \in Names \cup {NoName}, NEW token \in 0 .. last_sequence_number_,
         PostTask(c, t, name, token, behavior)
  PROVE  TypeOK'
<1>1. /\ last_sequence_number_' \in 0 .. MaxTokens
      /\ named_sequence_tokens_' \in [Names -> 0 .. MaxTokens]
  BY TokenType DEF PostTask, TypeOK, tokens
<1>2. posted' \in [Tasks -> SequencedTask]
  BY <1>1, TicketType, ConstantsAssumption
  DEF ConstantsAssumption, PostTask, TypeOK, SequencedTask
<1>3. PrepareToStartAdditionalThreadIfHelpful \in 0 .. max_threads_
  BY PrepareType
<1>4. call' \in [Callers -> CallState]
  BY <1>3 DEF PostTask, TypeOK, CallState
<1>5. status' \in [Tasks -> TaskStatus] /\ pending_tasks_' \subseteq Tasks
  BY DEF PostTask, TypeOK, TaskStatus
<1>6. /\ pending_task_count_' \in Int
      /\ blocking_shutdown_pending_task_count_' \in Int
  BY DEF PostTask, TypeOK, Blocking
<1>7. thread_being_created_' \in BOOLEAN
  BY DEF PostTask, TypeOK
<1> QED
  BY <1>1, <1>2, <1>4, <1>5, <1>6, <1>7 DEF PostTask, TypeOK, clients, life

\* The two outcomes of GetWork that take tasks off the list keep the types.
LEMMA GetWorkFoundType ==
  ASSUME TypeOK, NEW w \in Workers, NEW t \in Tasks, GetWorkFound(w, t)
  PROVE  TypeOK'
<1> DEFINE skipped == {u \in pending_tasks_ : /\ Runnable(u) /\ Skippable(u)
                                              /\ posted[u].ticket < posted[t].ticket}
<1>1. skipped \in SUBSET Tasks /\ Cardinality(skipped) \in Nat
  BY TaskSetType DEF TypeOK
<1>2. PrepareToStartAdditionalThreadIfHelpful \in 0 .. max_threads_
  BY PrepareType
<1>3. worker' \in [Workers -> WorkerState]
  <2> DEFINE new == [pc |-> "Signal", task |-> t,
                     delete_these_outside_lock |-> skipped,
                     new_thread_id |-> PrepareToStartAdditionalThreadIfHelpful]
  <2>1. worker' = [worker EXCEPT ![w] = new]
    BY DEF GetWorkFound
  <2>2. new \in WorkerState
    BY <1>1, <1>2 DEF WorkerState, WorkerPoints
  <2> HIDE DEF new
  <2> QED
    BY <2>1, <2>2 DEF TypeOK
<1>4. status' \in [Tasks -> TaskStatus] /\ pending_tasks_' \subseteq Tasks
  BY DEF GetWorkFound, TypeOK, TaskStatus
<1>5. current_sequences_' \subseteq 1 .. MaxTokens
  <2>1. posted[t].token \in 0 .. MaxTokens
    BY DEF TypeOK, SequencedTask
  <2>2. posted[t].token # 0 => posted[t].token \in 1 .. MaxTokens
    BY <2>1, ConstantsAssumption DEF ConstantsAssumption
  <2>3. \/ current_sequences_' = current_sequences_
        \/ /\ posted[t].token # 0
           /\ current_sequences_' = current_sequences_ \cup {posted[t].token}
    BY DEF GetWorkFound
  <2> QED
    BY <2>2, <2>3 DEF TypeOK
<1>6. pending_task_count_' = pending_task_count_ - Cardinality(skipped) - 1
  BY DEF GetWorkFound
<1>7. /\ blocking_shutdown_pending_task_count_' \in Int
      /\ blocking_shutdown_thread_count_' \in Int
  BY DEF GetWorkFound, TypeOK, Blocking
<1>8. thread_being_created_' \in BOOLEAN /\ lock_' \in Workers \cup {NoThread}
  BY DEF GetWorkFound, TypeOK
<1>9. pending_task_count_' \in Int
  BY <1>1, <1>6 DEF TypeOK
<1> HIDE DEF skipped
<1> QED
  BY <1>3, <1>4, <1>5, <1>7, <1>8, <1>9
  DEF GetWorkFound, TypeOK, tokens, clients, life

\* A worker that leaves keeps the types.
LEMMA GetWorkExitType ==
  ASSUME TypeOK, NEW w \in Workers, GetWorkExit(w)
  PROVE  TypeOK'
<1> DEFINE skipped == {u \in pending_tasks_ : Runnable(u)}
<1>1. skipped \in SUBSET Tasks /\ Cardinality(skipped) \in Nat
  BY TaskSetType DEF TypeOK
<1>2. worker' \in [Workers -> WorkerState]
  <2>1. worker \in [Workers -> WorkerState] /\ "Break" \in WorkerPoints
    BY DEF TypeOK, WorkerPoints
  <2>2. worker' = [worker EXCEPT ![w].pc = "Break",
                                 ![w].delete_these_outside_lock = skipped]
    BY DEF GetWorkExit
  <2> HIDE DEF skipped
  <2> QED
    BY <1>1, <2>1, <2>2, ClosuresUpdateType
<1>3. status' \in [Tasks -> TaskStatus] /\ pending_tasks_' \subseteq Tasks
  BY DEF GetWorkExit, TypeOK, TaskStatus
<1>4. pending_task_count_' = pending_task_count_ - Cardinality(skipped)
  BY DEF GetWorkExit
<1>5. pending_task_count_' \in Int
  BY <1>1, <1>4 DEF TypeOK
<1> HIDE DEF skipped
<1> QED
  BY <1>2, <1>3, <1>5
  DEF GetWorkExit, TypeOK, creation, tokens, clients, life

\* The other steps of a worker.
LEMMA WorkerStepType ==
  ASSUME TypeOK, NEW w \in Workers, WorkerStep(w)
  PROVE  TypeOK'
<1> USE DEF creation, counts, tokens, clients, life, tasks
<1>1. ASSUME ThreadLoopEnter(w) PROVE TypeOK'
  <2>1. worker' \in [Workers -> WorkerState]
    BY <1>1 DEF ThreadLoopEnter, TypeOK, WorkerState, WorkerPoints
  <2> QED
    BY <1>1, <2>1 DEF ThreadLoopEnter, TypeOK
<1>2. ASSUME \E t \in Tasks : GetWorkFound(w, t) PROVE TypeOK'
  BY <1>2, GetWorkFoundType
<1>3. ASSUME GetWorkWait(w) PROVE TypeOK'
  <2>1. worker' \in [Workers -> WorkerState]
    BY <1>3 DEF GetWorkWait, TypeOK, WorkerState, WorkerPoints
  <2>2. flusher' \in [Flushers -> WaitPoints]
    BY <1>3 DEF GetWorkWait, SignalIsIdle, TypeOK, WaitPoints
  <2> QED
    BY <1>3, <2>1, <2>2 DEF GetWorkWait, TypeOK
<1>4. ASSUME GetWorkExit(w) PROVE TypeOK'
  BY <1>4, GetWorkExitType
<1>5. ASSUME ThreadLoopBreak(w) \/ WorkerClear(w) \/ WorkerRun(w) PROVE TypeOK'
  <2>1. worker' \in [Workers -> WorkerState]
    BY <1>5 DEF ThreadLoopBreak, WorkerClear, WorkerRun, TypeOK, WorkerState,
                WorkerPoints
  <2>2. status' \in [Tasks -> TaskStatus]
    BY <1>5 DEF ThreadLoopBreak, WorkerClear, WorkerRun, TypeOK, Deleted, TaskStatus
  <2>3. lock_' \in Workers \cup {NoThread}
    BY <1>5 DEF ThreadLoopBreak, WorkerClear, WorkerRun, TypeOK
  <2> QED
    BY <1>5, <2>1, <2>2, <2>3 DEF ThreadLoopBreak, WorkerClear, WorkerRun, TypeOK
<1>6. ASSUME WorkerSignal(w) \/ WorkerExitSignal(w) PROVE TypeOK'
  <2>1. /\ [worker EXCEPT ![w].pc = "Clear"] \in [Workers -> WorkerState]
        /\ [worker EXCEPT ![w].pc = "ExitShutdown"] \in [Workers -> WorkerState]
    BY DEF TypeOK, WorkerState, WorkerPoints
  <2>2. worker' \in [Workers -> WorkerState]
    BY <1>6, <2>1, SignalHasWorkType DEF WorkerSignal, WorkerExitSignal
  <2> QED
    BY <1>6, <2>2 DEF WorkerSignal, WorkerExitSignal, TypeOK
<1>7. ASSUME WorkerCreate(w) PROVE TypeOK'
  <2>1. [worker EXCEPT ![w].pc = "Run", ![w].new_thread_id = 0]
          \in [Workers -> WorkerState]
    <3>1. worker \in [Workers -> WorkerState] /\ "Run" \in WorkerPoints
      BY DEF TypeOK, WorkerPoints
    <3>2. 0 \in 0 .. max_threads_
      BY ConstantsAssumption DEF ConstantsAssumption
    <3> QED
      BY <3>1, <3>2, NewThreadUpdateType
  <2>2. worker' \in [Workers -> WorkerState]
    BY <1>7, <2>1, StartThreadType DEF WorkerCreate
  <2> QED
    BY <1>7, <2>2 DEF WorkerCreate, TypeOK
<1>8. ASSUME DidRunWorkerTask(w) PROVE TypeOK'
  <2>1. worker' \in [Workers -> WorkerState]
    <3>1. worker \in [Workers -> WorkerState] /\ "GetWork" \in WorkerPoints
      BY DEF TypeOK, WorkerPoints
    <3>2. worker' = [worker EXCEPT ![w].pc = "GetWork", ![w].task = NoTask]
      BY <1>8 DEF DidRunWorkerTask
    <3> QED
      BY <3>1, <3>2, TaskUpdateType
  <2>2. current_sequences_' \subseteq 1 .. MaxTokens
    BY <1>8 DEF DidRunWorkerTask, EraseSequence, TypeOK
  <2>3. blocking_shutdown_thread_count_' \in Int
    BY <1>8 DEF DidRunWorkerTask, Blocking, TypeOK
  <2> QED
    BY <1>8, <2>1, <2>2, <2>3 DEF DidRunWorkerTask, TypeOK
<1>9. ASSUME WorkerWake(w) \/ WorkerExitShutdown(w) \/ ReleaseWorkerRef(w)
      PROVE  TypeOK'
  <2>1. worker' \in [Workers -> WorkerState]
    BY <1>9 DEF WorkerWake, WorkerExitShutdown, ReleaseWorkerRef, TypeOK,
                WorkerState, WorkerPoints
  <2>2. shutdown' \in WaitPoints
    BY <1>9 DEF WorkerWake, WorkerExitShutdown, ReleaseWorkerRef, TypeOK, WaitPoints
  <2>3. deletion' \in {"none", "delete", "delete_soon", "destroyed"}
    BY <1>9 DEF WorkerWake, WorkerExitShutdown, ReleaseWorkerRef, OnDestruct, TypeOK
  <2>4. lock_' \in Workers \cup {NoThread} /\ waiting_thread_count_' \in Int
    BY <1>9 DEF WorkerWake, WorkerExitShutdown, ReleaseWorkerRef, TypeOK
  <2> QED
    BY <1>9, <2>1, <2>2, <2>3, <2>4
    DEF WorkerWake, WorkerExitShutdown, ReleaseWorkerRef, TypeOK
<1> QED
  BY <1>1, <1>2, <1>3, <1>4, <1>5, <1>6, <1>7, <1>8, <1>9 DEF WorkerStep

\* Every step keeps the types.
LEMMA NextType == TypeOK /\ [Next]_vars => TypeOK'
<1> SUFFICES ASSUME TypeOK, [Next]_vars PROVE TypeOK'
  OBVIOUS
<1> USE DEF creation, counts, tokens, clients, life, tasks
<1>1. CASE GetSequenceToken
  BY <1>1, ConstantsAssumption DEF ConstantsAssumption, GetSequenceToken, TypeOK
<1>2. CASE \E name \in Names : GetNamedSequenceToken(name)
  BY <1>2, TokenType DEF GetNamedSequenceToken, TypeOK
<1>3. ASSUME NEW c \in Callers, PostStep(c) \/ CallStep(c) PROVE TypeOK'
  <2>1. CASE \E t \in Tasks : PostTaskRejected(c, t)
    <3>1. status' \in [Tasks -> TaskStatus]
      BY <2>1 DEF PostTaskRejected, TypeOK, TaskStatus
    <3> QED
      BY <2>1, <3>1 DEF PostTaskRejected, TypeOK
  <2>2. CASE \E t \in Tasks, behavior \in Behaviors :
               \/ \E token \in 0 .. last_sequence_number_ :
                    PostTask(c, t, NoName, token, behavior)
               \/ \E name \in Names : PostTask(c, t, name, 0, behavior)
    <3>1. 0 \in 0 .. last_sequence_number_
      BY DEF TypeOK
    <3> QED
      BY <2>2, <3>1, PostTaskType
  <2>3. CASE PostTaskCreate(c) \/ PostTaskSignal(c)
    <3>1. worker' \in [Workers -> WorkerState]
      BY <2>3, StartThreadType, SignalHasWorkType
      DEF PostTaskCreate, PostTaskSignal, TypeOK
    <3>2. call' \in [Callers -> CallState]
      BY <2>3, ConstantsAssumption
      DEF ConstantsAssumption, PostTaskCreate, PostTaskSignal, TypeOK, NoCall, CallState
    <3> QED
      BY <2>3, <3>1, <3>2 DEF PostTaskCreate, PostTaskSignal, TypeOK
  <2> QED
    BY <1>3, <2>1, <2>2, <2>3 DEF PostStep, CallStep
<1>4. CASE \E w \in Workers : WorkerStep(w)
  BY <1>4, WorkerStepType
<1>5. CASE SignalHasWorkForTesting
  BY <1>5, SignalHasWorkType DEF SignalHasWorkForTesting, TypeOK
<1>6. CASE SpuriousWake
  <2>1. worker' \in [Workers -> WorkerState]
    BY <1>6 DEF SpuriousWake, TypeOK, WorkerState, WorkerPoints
  <2>2. shutdown' \in WaitPoints /\ flusher' \in [Flushers -> WaitPoints]
    BY <1>6 DEF SpuriousWake, TypeOK, WaitPoints
  <2> QED
    BY <1>6, <2>1, <2>2 DEF SpuriousWake, TypeOK
<1>7. CASE ShutdownCall \/ ShutdownWait
  <2>1. worker' \in [Workers -> WorkerState]
    BY <1>7, SignalHasWorkType DEF ShutdownCall, ShutdownWait, TypeOK
  <2>2. shutdown' \in WaitPoints /\ shutdown_called_' \in BOOLEAN
    BY <1>7 DEF ShutdownCall, ShutdownWait, TypeOK, WaitPoints
  <2> QED
    BY <1>7, <2>1, <2>2 DEF ShutdownCall, ShutdownWait, TypeOK
<1>8. CASE \E f \in Flushers : FlushForTesting(f)
  <2>1. flusher' \in [Flushers -> WaitPoints]
    BY <1>8 DEF FlushForTesting, TypeOK, WaitPoints
  <2> QED
    BY <1>8, <2>1 DEF FlushForTesting, TypeOK
<1>9. CASE ReleaseClientRef
  BY <1>9 DEF ReleaseClientRef, OnDestruct, TypeOK
<1>10. CASE DestroyInner
  <2>1. status' \in [Tasks -> TaskStatus]
    BY <1>10 DEF DestroyInner, TypeOK, TaskStatus
  <2> QED
    BY <1>10, <2>1 DEF DestroyInner, TypeOK
<1>11. CASE UNCHANGED vars
  BY <1>11 DEF vars, TypeOK
<1> QED
  BY <1>1, <1>2, <1>3, <1>4, <1>5, <1>6, <1>7, <1>8, <1>9, <1>10, <1>11 DEF Next

\* Every reachable state of the pool is well typed: in particular no worker
\* gets a number beyond max_threads_.
THEOREM TypeCorrect == Spec => []TypeOK
<1>1. Init => TypeOK
  BY InitType
<1>2. TypeOK /\ [Next]_vars => TypeOK'
  BY NextType
<1> QED
  BY <1>1, <1>2, PTL DEF Spec

-----------------------------------------------------------------------------
(* Sequence tokens *)

\* Where a worker has a task in hand.
TaskPoints == {"Signal", "Clear", "Create", "Run", "DidRun"}

\* What keeps the sequences apart.  A token in use is in current_sequences_
\* until its own worker erases it; and since only a task that was never posted
\* gets a new token, tasks in hand and in the list keep theirs.
SequenceInv ==
  /\ \A w \in Workers : worker[w].pc \in TaskPoints => Busy(w)
  /\ \A w \in Workers : Busy(w) => status[worker[w].task] # "unposted"
  /\ \A t \in pending_tasks_ : status[t] # "unposted"
  /\ \A w \in Workers : Busy(w) /\ Token(w) # 0 => Token(w) \in current_sequences_
  /\ SequenceExclusive

\* Steps that leave the tasks in hand, their tokens and the tokens in use
\* alone, and make no task unposted again.
SequenceFrame ==
  /\ \A w \in Workers : /\ worker'[w].task = worker[w].task
                        /\ worker'[w].pc \in TaskPoints => worker[w].pc \in TaskPoints
  /\ current_sequences_' = current_sequences_
  /\ posted' = posted
  /\ pending_tasks_' \subseteq pending_tasks_
  /\ \A t \in Tasks : status[t] # "unposted" => status'[t] # "unposted"

\* SequenceInv speaks of these variables only.
LEMMA SequenceFrameInv ==
  ASSUME TypeOK, SequenceInv, SequenceFrame
  PROVE  SequenceInv'
<1>1. \A w \in Workers : worker[w].task \in Tasks \cup {NoTask}
  BY DEF TypeOK, WorkerState
<1> QED
  BY <1>1 DEF TypeOK, SequenceInv, SequenceFrame, SequenceExclusive, Busy, Token

\* A post gives its token to a task nobody has in hand.
LEMMA PostTaskSequence ==
  ASSUME TypeOK, SequenceInv, NEW c \in Callers, NEW t \in Tasks,
         NEW name, NEW token, NEW behavior, PostTask(c, t, name, token, behavior)
  PROVE  SequenceInv'
<1>1. \A w \in Workers : worker[w].task \in Tasks \cup {NoTask}
  BY DEF TypeOK, WorkerState
<1>2. /\ worker' = worker /\ current_sequences_' = current_sequences_
      /\ pending_tasks_' = pending_tasks_ \cup {t}
      /\ status[t] = "unposted"
      /\ status' = [status EXCEPT ![t] = "pending"]
      /\ \A u \in Tasks \ {t} : posted'[u] = posted[u]
  BY DEF PostTask, TypeOK
<1>3. \A w \in Workers : Busy(w) => worker[w].task \in Tasks \ {t}
  BY <1>1, <1>2 DEF SequenceInv, Busy
<1>4. \A w \in Workers : Busy(w)' = Busy(w) /\ (Busy(w) => Token(w)' = Token(w))
  BY <1>2, <1>3 DEF Busy, Token
<1>5. \A w \in Workers : Busy(w)' => (status[worker[w].task] # "unposted")'
  BY <1>2, <1>3, <1>4 DEF TypeOK, SequenceInv
<1>6. \A u \in pending_tasks_' : status'[u] # "unposted"
  BY <1>2 DEF TypeOK, SequenceInv
<1> QED
  BY <1>2, <1>4, <1>5, <1>6 DEF SequenceInv, SequenceExclusive

\* GetWork takes a task whose token nobody uses, and marks it as used.
LEMMA GetWorkFoundSequence ==
  ASSUME TypeOK, SequenceInv, NEW w \in Workers, NEW t \in Tasks, GetWorkFound(w, t)
  PROVE  SequenceInv'
<1>1. /\ t \in pending_tasks_
      /\ posted[t].token = 0 \/ posted[t].token \notin current_sequences_
  BY DEF GetWorkFound, Wanted, Runnable, IsSequenceTokenRunnable
<1>2. /\ worker'[w].task = t
      /\ \A v \in Workers \ {w} : worker'[v] = worker[v]
  BY DEF GetWorkFound, TypeOK
<1>3. posted' = posted /\ pending_tasks_' \subseteq pending_tasks_
  BY DEF GetWorkFound
<1>4. /\ current_sequences_ \subseteq current_sequences_'
      /\ posted[t].token # 0 => posted[t].token \in current_sequences_'
  BY DEF GetWorkFound
<1>5. \A u \in Tasks : status[u] # "unposted" => status'[u] # "unposted"
  BY DEF GetWorkFound
<1>6. \A v \in Workers : worker[v].task \in Tasks \cup {NoTask}
  BY DEF TypeOK, WorkerState
<1>7. /\ Busy(w)' /\ Token(w)' = posted[t].token
      /\ (status[worker[w].task] # "unposted")'
  BY <1>1, <1>2, <1>3, <1>5, ConstantsAssumption
  DEF ConstantsAssumption, Busy, Token, SequenceInv
<1>8. \A v \in Workers \ {w} : Busy(v)' = Busy(v) /\ Token(v)' = Token(v)
  BY <1>2, <1>3 DEF Busy, Token
<1>9. \A v \in Workers : Busy(v)' => (status[worker[v].task] # "unposted")'
  BY <1>2, <1>5, <1>6, <1>7, <1>8 DEF Busy, SequenceInv
<1>10. \A v \in Workers : Busy(v)' /\ Token(v)' # 0 => Token(v)' \in current_sequences_'
  BY <1>4, <1>7, <1>8 DEF SequenceInv
<1>11. SequenceExclusive'
  BY <1>1, <1>7, <1>8 DEF SequenceInv, SequenceExclusive
<1>12. \A v \in Workers : (worker[v].pc \in TaskPoints => Busy(v))'
  BY <1>2, <1>7, <1>8 DEF SequenceInv
<1> QED
  BY <1>3, <1>5, <1>9, <1>10, <1>11, <1>12 DEF SequenceInv, TypeOK

\* A worker erases its own token only, and nobody else uses that one.
LEMMA DidRunSequence ==
  ASSUME TypeOK, SequenceInv, NEW w \in Workers, DidRunWorkerTask(w)
  PROVE  SequenceInv'
<1>1. /\ ~Busy(w)' /\ worker'[w].pc = "GetWork"
      /\ \A v \in Workers \ {w} : worker'[v] = worker[v]
  <2>1. worker' = [worker EXCEPT ![w].pc = "GetWork", ![w].task = NoTask]
    BY DEF DidRunWorkerTask
  <2> QED
    BY <2>1 DEF Busy, TypeOK, WorkerState
<1>2. /\ posted' = posted /\ pending_tasks_' = pending_tasks_ /\ status' = status
      /\ current_sequences_' = current_sequences_ \ {Token(w)}
  BY DEF DidRunWorkerTask, EraseSequence, Token, tasks
<1>3. \A v \in Workers \ {w} : Busy(v)' = Busy(v) /\ Token(v)' = Token(v)
  BY <1>1, <1>2 DEF Busy, Token
<1>4. Busy(w)
  BY DEF DidRunWorkerTask, At, SequenceInv, TaskPoints
<1>5. \A v \in Workers : (worker[v].pc \in TaskPoints => Busy(v))'
  BY <1>1, <1>3 DEF SequenceInv, TaskPoints
<1>6. \A v \in Workers : Busy(v)' => (status[worker[v].task] # "unposted")'
  BY <1>1, <1>2, <1>3 DEF SequenceInv
<1>7. \A v \in Workers : Busy(v)' /\ Token(v)' # 0 => Token(v)' \in current_sequences_'
  BY <1>1, <1>2, <1>3, <1>4 DEF SequenceInv, SequenceExclusive
<1>8. SequenceExclusive'
  BY <1>1, <1>3 DEF SequenceInv, SequenceExclusive
<1> QED
  BY <1>2, <1>5, <1>6, <1>7, <1>8 DEF SequenceInv

\* The worker's other steps keep the task in hand.
LEMMA WorkerStepSequence ==
  ASSUME TypeOK, SequenceInv, NEW w \in Workers, WorkerStep(w)
  PROVE  SequenceInv'
<1> USE DEF creation, counts, tokens, clients, life, tasks
<1>1. ASSUME \E t \in Tasks : GetWorkFound(w, t) PROVE SequenceInv'
  BY <1>1, GetWorkFoundSequence
<1>2. ASSUME DidRunWorkerTask(w) PROVE SequenceInv'
  BY <1>2, DidRunSequence
<1>3. ASSUME \/ ThreadLoopEnter(w) \/ GetWorkWait(w) \/ WorkerWake(w)
             \/ WorkerExitShutdown(w) \/ ReleaseWorkerRef(w)
      PROVE  SequenceFrame
  <2>1. \E pc \in {"GetWork", "Wait", "Release", "Joinable"} :
          worker' = [worker EXCEPT ![w].pc = pc]
    BY <1>3 DEF ThreadLoopEnter, GetWorkWait, WorkerWake, WorkerExitShutdown,
                ReleaseWorkerRef
  <2>2. \A v \in Workers : /\ worker'[v].task = worker[v].task
                           /\ worker'[v].pc \in TaskPoints => worker[v].pc \in TaskPoints
    BY <2>1 DEF TypeOK, WorkerState, TaskPoints
  <2> QED
    BY <1>3, <2>2 DEF SequenceFrame, ThreadLoopEnter, GetWorkWait, WorkerWake,
                      WorkerExitShutdown, ReleaseWorkerRef
<1>4. ASSUME GetWorkExit(w) \/ ThreadLoopBreak(w) \/ WorkerClear(w) PROVE SequenceFrame
  <2>1. ASSUME NEW pc, NEW D,
               worker' = [worker EXCEPT ![w].pc = pc, ![w].delete_these_outside_lock = D],
               pc \in TaskPoints => worker[w].pc \in TaskPoints
        PROVE  \A v \in Workers :
                 /\ worker'[v].task = worker[v].task
                 /\ worker'[v].pc \in TaskPoints => worker[v].pc \in TaskPoints
    BY <2>1 DEF TypeOK, WorkerState
  <2>2. \A v \in Workers : /\ worker'[v].task = worker[v].task
                           /\ worker'[v].pc \in TaskPoints => worker[v].pc \in TaskPoints
    <3>1. CASE GetWorkExit(w)
      <4>1. worker' = [worker EXCEPT ![w].pc = "Break",
                         ![w].delete_these_outside_lock = {u \in pending_tasks_ : Runnable(u)}]
        BY <3>1 DEF GetWorkExit
      <4> QED
        BY <2>1, <4>1 DEF TaskPoints
    <3>2. CASE ThreadLoopBreak(w)
      <4>1. worker' = [worker EXCEPT ![w].pc = "ExitSignal",
                                     ![w].delete_these_outside_lock = {}]
        BY <3>2 DEF ThreadLoopBreak
      <4> QED
        BY <2>1, <4>1 DEF TaskPoints
    <3>3. CASE WorkerClear(w)
      <4>1. PICK pc \in {"Create", "Run"} :
              worker' = [worker EXCEPT ![w].pc = pc, ![w].delete_these_outside_lock = {}]
        BY <3>3 DEF WorkerClear
      <4>2. worker[w].pc \in TaskPoints
        BY <3>3 DEF WorkerClear, At, TaskPoints
      <4> QED
        BY <2>1, <4>1, <4>2
    <3> QED
      BY <1>4, <3>1, <3>2, <3>3
  <2>3. \A t \in Tasks : status[t] # "unposted" => status'[t] # "unposted"
    BY <1>4 DEF GetWorkExit, ThreadLoopBreak, WorkerClear, Deleted
  <2> QED
    BY <1>4, <2>2, <2>3 DEF SequenceFrame, GetWorkExit, ThreadLoopBreak, WorkerClear
<1>5. ASSUME WorkerSignal(w) \/ WorkerExitSignal(w) PROVE SequenceFrame
  <2>1. PICK pc \in {"Clear", "ExitShutdown"} :
          /\ SignalHasWork([worker EXCEPT ![w].pc = pc])
          /\ pc \in TaskPoints => worker[w].pc \in TaskPoints
    BY <1>5 DEF WorkerSignal, WorkerExitSignal, At, TaskPoints
  <2> DEFINE f == [worker EXCEPT ![w].pc = pc]
  <2>2. /\ f \in [Workers -> WorkerState]
        /\ \A v \in Workers : /\ f[v].task = worker[v].task
                              /\ f[v].pc \in TaskPoints => worker[v].pc \in TaskPoints
    BY <2>1 DEF TypeOK, WorkerState, WorkerPoints
  <2>3. \A v \in Workers : worker'[v].task = f[v].task /\ worker'[v].pc \in {f[v].pc, "Woken"}
    <3>1. SignalHasWork(f)
      BY <2>1
    <3> HIDE DEF f
    <3> QED
      BY <2>2, <3>1, SignalHasWorkType
  <2> HIDE DEF f
  <2>4. "Woken" \notin TaskPoints
    BY DEF TaskPoints
  <2> QED
    BY <1>5, <2>2, <2>3, <2>4 DEF SequenceFrame, WorkerSignal, WorkerExitSignal
<1>6. ASSUME WorkerCreate(w) PROVE SequenceFrame
  <2> DEFINE f == [worker EXCEPT ![w].pc = "Run", ![w].new_thread_id = 0]
  <2>1. f \in [Workers -> WorkerState]
    <3>1. worker \in [Workers -> WorkerState] /\ "Run" \in WorkerPoints
      BY DEF TypeOK, WorkerPoints
    <3>2. 0 \in 0 .. max_threads_
      BY ConstantsAssumption DEF ConstantsAssumption
    <3> QED
      BY <3>1, <3>2, NewThreadUpdateType
  <2>2. \A v \in Workers : /\ f[v].task = worker[v].task
                           /\ f[v].pc \in TaskPoints => worker[v].pc \in TaskPoints
    BY <1>6 DEF TypeOK, WorkerState, WorkerCreate, At, TaskPoints
  <2>3. FinishStartingAdditionalThread(f, worker[w].new_thread_id)
    BY <1>6 DEF WorkerCreate
  <2> HIDE DEF f
  <2>4. \A v \in Workers : worker'[v].task = f[v].task /\ worker'[v].pc \in {f[v].pc, "starting"}
    BY <2>1, <2>3, StartThreadType
  <2>5. "starting" \notin TaskPoints
    BY DEF TaskPoints
  <2> QED
    BY <1>6, <2>2, <2>4, <2>5 DEF SequenceFrame, WorkerCreate
<1>7. ASSUME WorkerRun(w) PROVE SequenceFrame
  <2>1. \A v \in Workers : /\ worker'[v].task = worker[v].task
                           /\ worker'[v].pc \in TaskPoints => worker[v].pc \in TaskPoints
    BY <1>7 DEF WorkerRun, At, TypeOK, WorkerState, TaskPoints
  <2>2. \A t \in Tasks : status[t] # "unposted" => status'[t] # "unposted"
    BY <1>7 DEF WorkerRun, TypeOK
  <2> QED
    BY <1>7, <2>1, <2>2 DEF SequenceFrame, WorkerRun
<1> QED
  BY <1>1, <1>2, <1>3, <1>4, <1>5, <1>6, <1>7, SequenceFrameInv DEF WorkerStep

\* Every step keeps the sequences apart.
LEMMA NextSequence == TypeOK /\ SequenceInv /\ [Next]_vars => SequenceInv'
<1> SUFFICES ASSUME TypeOK, SequenceInv, [Next]_vars PROVE SequenceInv'
  OBVIOUS
<1> USE DEF creation, counts, tokens, clients, life, tasks
<1>1. ASSUME UNCHANGED <<worker, current_sequences_, pending_tasks_, posted, status>>
      PROVE  SequenceInv'
  BY <1>1, SequenceFrameInv DEF SequenceFrame
<1>2. CASE GetSequenceToken \/ \E name \in Names : GetNamedSequenceToken(name)
  BY <1>1, <1>2 DEF GetSequenceToken, GetNamedSequenceToken
<1>3. ASSUME NEW c \in Callers, PostStep(c) \/ CallStep(c) PROVE SequenceInv'
  <2>1. CASE \E t \in Tasks : PostTaskRejected(c, t)
    <3>1. \A u \in Tasks : status[u] # "unposted" => status'[u] # "unposted"
      BY <2>1 DEF PostTaskRejected, TypeOK
    <3> QED
      BY <2>1, <3>1, SequenceFrameInv DEF PostTaskRejected, SequenceFrame
  <2>2. CASE \E t \in Tasks, behavior \in Behaviors :
               \/ \E token \in 0 .. last_sequence_number_ :
                    PostTask(c, t, NoName, token, behavior)
               \/ \E name \in Names : PostTask(c, t, name, 0, behavior)
    BY <2>2, PostTaskSequence
  <2>3. CASE PostTaskCreate(c)
    <3>1. \A w \in Workers : /\ worker'[w].task = worker[w].task
                             /\ worker'[w].pc \in {worker[w].pc, "starting"}
      BY <2>3, StartThreadType DEF PostTaskCreate, TypeOK
    <3> QED
      BY <2>3, <3>1, SequenceFrameInv DEF PostTaskCreate, SequenceFrame, TaskPoints
  <2>4. CASE PostTaskSignal(c)
    <3>1. \A w \in Workers : /\ worker'[w].task = worker[w].task
                             /\ worker'[w].pc \in {worker[w].pc, "Woken"}
      BY <2>4, SignalHasWorkType DEF PostTaskSignal, TypeOK
    <3> QED
      BY <2>4, <3>1, SequenceFrameInv DEF PostTaskSignal, SequenceFrame, TaskPoints
  <2> QED
    BY <1>3, <2>1, <2>2, <2>3, <2>4 DEF PostStep, CallStep
<1>4. CASE \E w \in Workers : WorkerStep(w)
  BY <1>4, WorkerStepSequence
<1>5. CASE SignalHasWorkForTesting \/ ShutdownCall
  <2>1. \A w \in Workers : /\ worker'[w].task = worker[w].task
                           /\ worker'[w].pc \in {worker[w].pc, "Woken"}
    BY <1>5, SignalHasWorkType DEF SignalHasWorkForTesting, ShutdownCall, TypeOK
  <2> QED
    BY <1>5, <2>1, SequenceFrameInv
    DEF SignalHasWorkForTesting, ShutdownCall, SequenceFrame, TaskPoints
<1>6. CASE SpuriousWake
  <2>1. \A w \in Workers : /\ worker'[w].task = worker[w].task
                           /\ worker'[w].pc \in {worker[w].pc, "Woken"}
    BY <1>6 DEF SpuriousWake, TypeOK, WorkerState
  <2> QED
    BY <1>6, <2>1, SequenceFrameInv DEF SpuriousWake, SequenceFrame, TaskPoints
<1>7. CASE ShutdownWait \/ ReleaseClientRef \/ \E f \in Flushers : FlushForTesting(f)
  BY <1>1, <1>7 DEF ShutdownWait, ReleaseClientRef, FlushForTesting
<1>8. CASE DestroyInner
  <2>1. \A t \in Tasks : status[t] # "unposted" => status'[t] # "unposted"
    BY <1>8 DEF DestroyInner
  <2> QED
    BY <1>8, <2>1, SequenceFrameInv DEF DestroyInner, SequenceFrame
<1>9. CASE UNCHANGED vars
  BY <1>1, <1>9 DEF vars
<1> QED
  BY <1>2, <1>3, <1>4, <1>5, <1>6, <1>7, <1>8, <1>9 DEF Next

\* The invariant behind both promises about sequences.
LEMMA SequenceInvariant == Spec => []SequenceInv
<1>1. Init => SequenceInv
  BY DEF Init, SequenceInv, SequenceExclusive, Busy, NoWorker, TaskPoints
<1> QED
  BY <1>1, NextSequence, TypeCorrect, PTL DEF Spec

\* "All tasks with the same token are guaranteed to execute serially", for any
\* number of workers, tasks and tokens, across posts, shutdown and wake-ups.
THEOREM SequencesSerial == Spec => []SequenceExclusive
<1>1. SequenceInv => SequenceExclusive
  BY DEF SequenceInv
<1> QED
  BY <1>1, SequenceInvariant, PTL

-----------------------------------------------------------------------------
(* Thread creation *)

\* The number of a thread on its way.
NextNumber == Cardinality(threads_) + 1

Starting(w) == worker[w].pc = "starting"
Promised(w) == worker[w].new_thread_id # 0
Creating(c) == call[c].thread # 0

\* At most one thread is on its way, in one of three places, and
\* thread_being_created_ says whether there is one.
OneComing ==
  /\ \A c, d \in Callers : Creating(c) /\ Creating(d) => c = d
  /\ \A v, w \in Workers : Promised(v) /\ Promised(w) => v = w
  /\ \A v, w \in Workers : Starting(v) /\ Starting(w) => v = w
  /\ \A c \in Callers, w \in Workers : Creating(c) => ~Promised(w) /\ ~Starting(w)
  /\ \A v, w \in Workers : Promised(v) => ~Starting(w)
  /\ thread_being_created_ <=> \/ \E c \in Callers : Creating(c)
                               \/ \E w \in Workers : Promised(w) \/ Starting(w)

\* Threads are numbered in the order in which they come, and the number of the
\* one on its way is the next.
Numbered ==
  /\ threads_ = 1 .. Cardinality(threads_)
  /\ \A w \in Workers : w \in threads_ <=> worker[w].pc \notin {"none", "starting"}
  /\ \A c \in Callers : Creating(c) => call[c].thread = NextNumber
  /\ \A w \in Workers : Promised(w) => worker[w].new_thread_id = NextNumber
  /\ \A w \in Workers : Starting(w) => w = NextNumber

\* The promise is kept where the program counter says it is.
PromiseKept ==
  /\ \A c \in Callers : call[c].pc = "create" <=> Creating(c)
  /\ \A w \in Workers : Promised(w) => worker[w].pc \in {"Signal", "Clear", "Create"}
  /\ \A w \in Workers : worker[w].pc = "Create" => Promised(w)

CreationInv == OneComing /\ Numbered /\ PromiseKept

\* Steps that have nothing to do with thread creation.
CreationFrame ==
  /\ threads_' = threads_
  /\ thread_being_created_' = thread_being_created_
  /\ \A c \in Callers : /\ call'[c].thread = call[c].thread
                        /\ call'[c].pc = "create" <=> call[c].pc = "create"
  /\ \A w \in Workers :
       /\ worker'[w].new_thread_id = worker[w].new_thread_id
       /\ \/ worker'[w].pc = worker[w].pc
          \/ /\ worker[w].pc \notin {"none", "starting"}
             /\ worker'[w].pc \notin {"none", "starting", "Create"}
             /\ Promised(w) => worker'[w].pc \in {"Signal", "Clear"}
          \/ /\ worker[w].pc = "Clear" /\ worker'[w].pc = "Create"
             /\ Promised(w)

\* CreationInv speaks of these variables only.
LEMMA CreationFrameInv ==
  ASSUME TypeOK, CreationInv, CreationFrame
  PROVE  CreationInv'
<1>1. /\ \A c \in Callers : Creating(c)' = Creating(c)
      /\ \A w \in Workers : Promised(w)' = Promised(w) /\ Starting(w)' = Starting(w)
  BY DEF CreationFrame, Creating, Promised, Starting
<1>2. OneComing'
  BY <1>1 DEF CreationFrame, CreationInv, OneComing
<1>3. Numbered'
  BY <1>1 DEF CreationFrame, CreationInv, Numbered, NextNumber
<1>4. PromiseKept'
  BY <1>1 DEF CreationFrame, CreationInv, PromiseKept
<1> QED
  BY <1>2, <1>3, <1>4 DEF CreationInv

\* What the invariant says of OneThreadAtATime, which counts with a set.
LEMMA CreationOneThread ==
  ASSUME TypeOK, CreationInv
  PROVE  OneThreadAtATime
<1>1. Cardinality(threads_) \in Nat
  <2>1. IsFiniteSet(Workers)
    BY FS_Interval, ConstantsAssumption DEF ConstantsAssumption, Workers
  <2> QED
    BY <2>1, FS_Subset, FS_CardinalityType DEF TypeOK
<1>2. thread_being_created_ <=> Coming # {}
  BY DEF CreationInv, OneComing, Coming, Creating, Promised, Starting, At
<1>3. \A x, y \in Coming : x = y
  BY DEF CreationInv, OneComing, Coming, Creating, Promised, Starting, At
<1>4. \A n \in Workers : n = NextNumber => n \notin threads_
  BY <1>1 DEF CreationInv, Numbered, NextNumber
<1>5. \A c \in Callers : call[c].thread # 0 => At(call[c].thread, "none")
  <2> SUFFICES ASSUME NEW c \in Callers, Creating(c) PROVE At(call[c].thread, "none")
    BY DEF Creating
  <2>1. call[c].thread \in Workers
    BY DEF TypeOK, CallState, Workers, Creating
  <2>2. worker[call[c].thread].pc \in {"none", "starting"}
    BY <1>4, <2>1 DEF CreationInv, Numbered
  <2> QED
    BY <2>1, <2>2 DEF CreationInv, OneComing, Starting, At
<1>6. \A w \in Workers : worker[w].new_thread_id # 0 => At(worker[w].new_thread_id, "none")
  <2> SUFFICES ASSUME NEW w \in Workers, Promised(w) PROVE At(worker[w].new_thread_id, "none")
    BY DEF Promised
  <2>1. worker[w].new_thread_id \in Workers
    BY DEF TypeOK, WorkerState, Workers, Promised
  <2>2. worker[worker[w].new_thread_id].pc \in {"none", "starting"}
    BY <1>4, <2>1 DEF CreationInv, Numbered
  <2> QED
    BY <2>1, <2>2 DEF CreationInv, OneComing, Starting, At
<1>7. \A w \in Workers : At(w, "starting") => w \notin threads_
  BY DEF CreationInv, Numbered, At
<1> QED
  BY <1>2, <1>3, <1>5, <1>6, <1>7 DEF OneThreadAtATime

\* A thread is promised only when none is on its way, and gets the next number.
LEMMA PrepareNumber ==
  PrepareToStartAdditionalThreadIfHelpful # 0
    => /\ ~thread_being_created_
       /\ PrepareToStartAdditionalThreadIfHelpful = NextNumber
BY DEF PrepareToStartAdditionalThreadIfHelpful, NextNumber

\* PostTask promises a thread to its caller, or changes nothing.
LEMMA PostTaskCreation ==
  ASSUME TypeOK, CreationInv, NEW c \in Callers, NEW t, NEW name, NEW token,
         NEW behavior, PostTask(c, t, name, token, behavior)
  PROVE  CreationInv'
<1> DEFINE n == PrepareToStartAdditionalThreadIfHelpful
<1>1. /\ threads_' = threads_ /\ worker' = worker
      /\ thread_being_created_' = (thread_being_created_ \/ n # 0)
      /\ call' = [call EXCEPT ![c] =
                    [pc |-> IF n # 0 THEN "create" ELSE "signal", thread |-> n]]
      /\ call[c].pc = "none"
  BY DEF PostTask, CanPost
<1>2. n # 0 => ~thread_being_created_ /\ n = NextNumber
  BY PrepareNumber
<1> HIDE DEF n
<1>3. /\ call'[c].thread = n /\ (call'[c].pc = "create" <=> n # 0)
      /\ \A d \in Callers : d # c => call'[d] = call[d]
  BY <1>1 DEF TypeOK, CallState
<1>4. ~Creating(c)
  BY <1>1 DEF CreationInv, PromiseKept
<1>5. CASE n = 0
  <2>1. thread_being_created_' = thread_being_created_
    BY <1>1, <1>5 DEF TypeOK
  <2> QED
    BY <1>1, <1>3, <1>4, <1>5, <2>1, CreationFrameInv DEF CreationFrame, Creating
<1>6. CASE n # 0
  <2>1. /\ \A d \in Callers : ~Creating(d)
        /\ \A w \in Workers : ~Promised(w) /\ ~Starting(w)
    BY <1>2, <1>6 DEF CreationInv, OneComing
  <2>2. /\ \A d \in Callers : Creating(d)' <=> d = c
        /\ \A w \in Workers : ~Promised(w)' /\ ~Starting(w)'
    BY <1>1, <1>3, <1>6, <2>1 DEF Creating, Promised, Starting
  <2>3. OneComing'
    BY <1>1, <1>6, <2>2 DEF OneComing
  <2>4. Numbered'
    BY <1>1, <1>2, <1>3, <1>6, <2>2 DEF CreationInv, Numbered, NextNumber
  <2>5. PromiseKept'
    BY <1>1, <1>3, <1>6, <2>1, <2>2 DEF CreationInv, PromiseKept
  <2> QED
    BY <2>3, <2>4, <2>5 DEF CreationInv
<1> QED
  BY <1>5, <1>6

\* GetWork promises a thread to the worker that found a task, or none.
LEMMA GetWorkFoundCreation ==
  ASSUME TypeOK, CreationInv, NEW w \in Workers, NEW t \in Tasks, GetWorkFound(w, t)
  PROVE  CreationInv'
<1> DEFINE n == PrepareToStartAdditionalThreadIfHelpful
           D == {u \in pending_tasks_ : /\ Runnable(u) /\ Skippable(u)
                                        /\ posted[u].ticket < posted[t].ticket}
<1>1. /\ threads_' = threads_ /\ call' = call
      /\ thread_being_created_' = (thread_being_created_ \/ n # 0)
      /\ worker' = [worker EXCEPT ![w] = [pc |-> "Signal", task |-> t,
                                          delete_these_outside_lock |-> D,
                                          new_thread_id |-> n]]
      /\ worker[w].pc = "GetWork"
  BY DEF GetWorkFound, At
<1>2. n # 0 => ~thread_being_created_ /\ n = NextNumber
  BY PrepareNumber
<1> HIDE DEF n, D
<1>3. /\ worker'[w].pc = "Signal" /\ worker'[w].new_thread_id = n
      /\ \A v \in Workers : v # w => worker'[v] = worker[v]
  BY <1>1 DEF TypeOK
<1>4. ~Promised(w)
  BY <1>1 DEF CreationInv, PromiseKept
<1>5. CASE n = 0
  <2>1. thread_being_created_' = thread_being_created_
    BY <1>1, <1>5 DEF TypeOK
  <2> QED
    BY <1>1, <1>3, <1>4, <1>5, <2>1, CreationFrameInv DEF CreationFrame, Promised
<1>6. CASE n # 0
  <2>1. /\ \A c \in Callers : ~Creating(c)
        /\ \A v \in Workers : ~Promised(v) /\ ~Starting(v)
    BY <1>2, <1>6 DEF CreationInv, OneComing
  <2>2. /\ \A c \in Callers : ~Creating(c)'
        /\ \A v \in Workers : (Promised(v)' <=> v = w) /\ ~Starting(v)'
    BY <1>1, <1>3, <1>6, <2>1 DEF Creating, Promised, Starting
  <2>3. OneComing'
    BY <1>1, <1>6, <2>2 DEF OneComing
  <2>4. Numbered'
    BY <1>1, <1>2, <1>3, <1>6, <2>2 DEF CreationInv, Numbered, NextNumber
  <2>5. PromiseKept'
    BY <1>1, <1>3, <1>6, <2>1, <2>2 DEF CreationInv, PromiseKept
  <2> QED
    BY <2>3, <2>4, <2>5 DEF CreationInv
<1> QED
  BY <1>5, <1>6

\* A caller of PostTask starts the thread promised to it.
LEMMA PostTaskCreateCreation ==
  ASSUME TypeOK, CreationInv, NEW c \in Callers, PostTaskCreate(c)
  PROVE  CreationInv'
<1> DEFINE n == call[c].thread
<1>1. Creating(c) /\ n = NextNumber /\ n \in Workers
  BY DEF PostTaskCreate, CreationInv, PromiseKept, Numbered, Creating, TypeOK,
         CallState, Workers
<1>2. worker[n].pc = "none"
  BY <1>1, CreationOneThread DEF OneThreadAtATime, At, Creating
<1>3. /\ threads_' = threads_ /\ thread_being_created_' = thread_being_created_
      /\ \A w \in Workers : /\ worker'[w].new_thread_id = worker[w].new_thread_id
                            /\ worker'[w].pc = IF w = n THEN "starting" ELSE worker[w].pc
  BY StartThreadType DEF PostTaskCreate, TypeOK, creation
<1>4. /\ call'[c].thread = 0 /\ call'[c].pc = "none"
      /\ \A d \in Callers : d # c => call'[d] = call[d]
  BY DEF PostTaskCreate, NoCall, TypeOK
<1> HIDE DEF n
<1>5. /\ \A d \in Callers : ~Creating(d)'
      /\ \A w \in Workers : ~Promised(w)' /\ (Starting(w)' <=> w = n)
  BY <1>1, <1>3, <1>4 DEF CreationInv, OneComing, Creating, Promised, Starting
<1>6. OneComing'
  <2>1. thread_being_created_
    BY <1>1 DEF CreationInv, OneComing
  <2> QED
    BY <1>1, <1>3, <1>5, <2>1 DEF OneComing
<1>7. Numbered'
  BY <1>1, <1>2, <1>3, <1>5 DEF CreationInv, Numbered, NextNumber
<1>8. PromiseKept'
  BY <1>1, <1>3, <1>4, <1>5 DEF CreationInv, OneComing, PromiseKept, Creating
<1> QED
  BY <1>6, <1>7, <1>8 DEF CreationInv

\* A worker starts the thread promised to it before it runs its task.
LEMMA WorkerCreateCreation ==
  ASSUME TypeOK, CreationInv, NEW w \in Workers, WorkerCreate(w)
  PROVE  CreationInv'
<1> DEFINE n == worker[w].new_thread_id
           f == [worker EXCEPT ![w].pc = "Run", ![w].new_thread_id = 0]
<1>1. Promised(w) /\ n = NextNumber /\ n \in Workers /\ worker[w].pc = "Create"
  BY DEF WorkerCreate, At, CreationInv, PromiseKept, Numbered, Promised, TypeOK,
         WorkerState, Workers
<1>2. worker[n].pc = "none" /\ n # w
  BY <1>1, CreationOneThread DEF OneThreadAtATime, At, Promised
<1>3. /\ f \in [Workers -> WorkerState]
      /\ f[w].pc = "Run" /\ f[w].new_thread_id = 0
      /\ \A v \in Workers : v # w => f[v] = worker[v]
  <2>1. worker \in [Workers -> WorkerState] /\ "Run" \in WorkerPoints
    BY DEF TypeOK, WorkerPoints
  <2>2. 0 \in 0 .. max_threads_
    BY ConstantsAssumption DEF ConstantsAssumption
  <2>3. f \in [Workers -> WorkerState]
    BY <2>1, <2>2, NewThreadUpdateType
  <2> QED
    BY <2>1, <2>3 DEF WorkerState
<1>4. FinishStartingAdditionalThread(f, n)
  BY DEF WorkerCreate
<1> HIDE DEF n, f
<1>5. /\ threads_' = threads_ /\ thread_being_created_' = thread_being_created_
      /\ call' = call
      /\ \A v \in Workers : /\ worker'[v].new_thread_id = f[v].new_thread_id
                            /\ worker'[v].pc = IF v = n THEN "starting" ELSE f[v].pc
  BY <1>3, <1>4, StartThreadType DEF WorkerCreate, creation
<1>6. /\ \A c \in Callers : ~Creating(c)'
      /\ \A v \in Workers : ~Promised(v)' /\ (Starting(v)' <=> v = n)
  BY <1>1, <1>2, <1>3, <1>5 DEF CreationInv, OneComing, Creating, Promised, Starting
<1>7. OneComing'
  <2>1. thread_being_created_
    BY <1>1 DEF CreationInv, OneComing
  <2> QED
    BY <1>1, <1>5, <1>6, <2>1 DEF OneComing
<1>8. Numbered'
  BY <1>1, <1>2, <1>3, <1>5, <1>6 DEF CreationInv, Numbered, NextNumber
<1>9. PromiseKept'
  BY <1>1, <1>3, <1>5, <1>6 DEF CreationInv, OneComing, PromiseKept, Creating, Promised
<1> QED
  BY <1>7, <1>8, <1>9 DEF CreationInv

\* The new thread enters threads_ under the next number.
LEMMA ThreadLoopEnterCreation ==
  ASSUME TypeOK, CreationInv, NEW w \in Workers, ThreadLoopEnter(w)
  PROVE  CreationInv'
<1> DEFINE k == Cardinality(threads_)
<1>1. k \in Nat
  <2>1. IsFiniteSet(Workers)
    BY FS_Interval, ConstantsAssumption DEF ConstantsAssumption, Workers
  <2> QED
    BY <2>1, FS_Subset, FS_CardinalityType DEF TypeOK
<1>2. Starting(w) /\ w = k + 1 /\ threads_ = 1 .. k
  BY DEF ThreadLoopEnter, At, CreationInv, Numbered, Starting, NextNumber
<1>3. threads_' = threads_ \cup {w} /\ thread_being_created_' = FALSE /\ call' = call
  BY DEF ThreadLoopEnter
<1>4. /\ worker'[w].pc = "GetWork"
      /\ \A v \in Workers : /\ worker'[v].new_thread_id = worker[v].new_thread_id
                            /\ v # w => worker'[v].pc = worker[v].pc
  BY DEF ThreadLoopEnter, TypeOK, WorkerState
<1> HIDE DEF k
<1>5. threads_' = 1 .. k + 1
  BY <1>1, <1>2, <1>3
<1>6. Cardinality(threads_') = k + 1
  <2>1. Cardinality(1 .. k + 1) = k + 1
    BY <1>1, FS_Interval
  <2> QED
    BY <1>5, <2>1
<1>7. /\ \A c \in Callers : ~Creating(c)'
      /\ \A v \in Workers : ~Promised(v)' /\ ~Starting(v)'
  BY <1>2, <1>3, <1>4 DEF CreationInv, OneComing, Creating, Promised, Starting
<1>8. OneComing'
  BY <1>3, <1>7 DEF OneComing
<1>9. Numbered'
  BY <1>3, <1>4, <1>5, <1>6, <1>7 DEF CreationInv, Numbered
<1>10. PromiseKept'
  BY <1>3, <1>4, <1>7 DEF CreationInv, PromiseKept, Creating, Promised
<1> QED
  BY <1>8, <1>9, <1>10 DEF CreationInv

\* The worker's other steps have nothing to do with thread creation.
LEMMA WorkerStepCreation ==
  ASSUME TypeOK, CreationInv, NEW w \in Workers, WorkerStep(w)
  PROVE  CreationInv'
<1> USE DEF creation, counts, tokens, clients, life, tasks
<1>1. ASSUME ThreadLoopEnter(w) \/ WorkerCreate(w) \/ \E t \in Tasks : GetWorkFound(w, t)
      PROVE  CreationInv'
  BY <1>1, ThreadLoopEnterCreation, WorkerCreateCreation, GetWorkFoundCreation
<1> DEFINE OtherSteps == \/ GetWorkWait(w) \/ GetWorkExit(w) \/ ThreadLoopBreak(w)
                         \/ WorkerSignal(w) \/ WorkerClear(w) \/ WorkerRun(w)
                         \/ DidRunWorkerTask(w) \/ WorkerWake(w)
                         \/ WorkerExitSignal(w) \/ WorkerExitShutdown(w)
                         \/ ReleaseWorkerRef(w)
           Moved(pc) == /\ worker[w].pc \notin {"none", "starting"}
                        /\ \/ /\ pc \notin {"none", "starting", "Create"}
                              /\ Promised(w) => pc \in {"Signal", "Clear"}
                           \/ /\ worker[w].pc = "Clear" /\ pc = "Create"
                              /\ Promised(w)
           Framed == \A v \in Workers :
                       /\ worker'[v].new_thread_id = worker[v].new_thread_id
                       /\ \/ worker'[v].pc = worker[v].pc
                          \/ v = w /\ Moved(worker'[v].pc)
                          \/ worker[v].pc = "Wait" /\ worker'[v].pc = "Woken"
<1>2. ASSUME \/ GetWorkWait(w) \/ WorkerRun(w) \/ WorkerWake(w)
             \/ WorkerExitShutdown(w) \/ ReleaseWorkerRef(w)
      PROVE  Framed
  <2>1. ASSUME NEW pc, worker' = [worker EXCEPT ![w].pc = pc], Moved(pc)
        PROVE  Framed
    <3>1. /\ worker'[w].pc = pc /\ worker'[w].new_thread_id = worker[w].new_thread_id
          /\ \A v \in Workers : v # w => worker'[v] = worker[v]
      BY <2>1 DEF TypeOK, WorkerState
    <3> HIDE DEF Moved
    <3> QED
      BY <2>1, <3>1
  <2>2. /\ worker[w].pc \in {"GetWork", "Run", "Woken", "ExitShutdown", "Release"}
        /\ ~Promised(w)
    BY <1>2 DEF GetWorkWait, WorkerRun, WorkerWake, WorkerExitShutdown,
                ReleaseWorkerRef, At, CreationInv, PromiseKept
  <2>3. PICK pc \in {"Wait", "DidRun", "GetWork", "Release", "Joinable"} :
          worker' = [worker EXCEPT ![w].pc = pc]
    BY <1>2 DEF GetWorkWait, WorkerRun, WorkerWake, WorkerExitShutdown, ReleaseWorkerRef
  <2>4. Moved(pc)
    BY <2>2, <2>3
  <2> HIDE DEF Moved, Framed
  <2> QED
    BY <2>1, <2>3, <2>4
<1>3. ASSUME GetWorkExit(w) \/ ThreadLoopBreak(w) \/ WorkerClear(w) PROVE Framed
  <2>1. ASSUME NEW pc, NEW D,
               worker' = [worker EXCEPT ![w].pc = pc, ![w].delete_these_outside_lock = D],
               Moved(pc)
        PROVE  Framed
    <3>1. /\ worker'[w].pc = pc /\ worker'[w].new_thread_id = worker[w].new_thread_id
          /\ \A v \in Workers : v # w => worker'[v] = worker[v]
      BY <2>1 DEF TypeOK, WorkerState
    <3> HIDE DEF Moved
    <3> QED
      BY <2>1, <3>1
  <2>2. CASE GetWorkExit(w)
    <3>1. worker' = [worker EXCEPT ![w].pc = "Break",
                       ![w].delete_these_outside_lock = {u \in pending_tasks_ : Runnable(u)}]
      BY <2>2 DEF GetWorkExit
    <3>2. Moved("Break")
      BY <2>2 DEF GetWorkExit, At, CreationInv, PromiseKept
    <3> HIDE DEF Moved, Framed
    <3> QED
      BY <2>1, <3>1, <3>2
  <2>3. CASE ThreadLoopBreak(w)
    <3>1. worker' = [worker EXCEPT ![w].pc = "ExitSignal",
                                   ![w].delete_these_outside_lock = {}]
      BY <2>3 DEF ThreadLoopBreak
    <3>2. Moved("ExitSignal")
      BY <2>3 DEF ThreadLoopBreak, At, CreationInv, PromiseKept
    <3> HIDE DEF Moved, Framed
    <3> QED
      BY <2>1, <3>1, <3>2
  <2>4. CASE WorkerClear(w)
    <3> DEFINE pc == IF worker[w].new_thread_id # 0 THEN "Create" ELSE "Run"
    <3>1. worker' = [worker EXCEPT ![w].pc = pc, ![w].delete_these_outside_lock = {}]
      BY <2>4 DEF WorkerClear
    <3>2. Moved(pc)
      BY <2>4 DEF WorkerClear, At, Promised
    <3> HIDE DEF Moved, Framed, pc
    <3> QED
      BY <2>1, <3>1, <3>2
  <2> QED
    BY <1>3, <2>2, <2>3, <2>4
<1>4. ASSUME WorkerSignal(w) \/ WorkerExitSignal(w) PROVE Framed
  <2>1. PICK pc \in {"Clear", "ExitShutdown"} :
          SignalHasWork([worker EXCEPT ![w].pc = pc]) /\ Moved(pc)
    BY <1>4 DEF WorkerSignal, WorkerExitSignal, At, CreationInv, PromiseKept
  <2> DEFINE f == [worker EXCEPT ![w].pc = pc]
  <2>2. /\ f \in [Workers -> WorkerState]
        /\ f[w].pc = pc /\ f[w].new_thread_id = worker[w].new_thread_id
        /\ \A v \in Workers : v # w => f[v] = worker[v]
    BY <2>1 DEF TypeOK, WorkerState, WorkerPoints
  <2>3. SignalHasWork(f)
    BY <2>1
  <2> HIDE DEF f, Moved
  <2>4. \A v \in Workers : /\ worker'[v].new_thread_id = f[v].new_thread_id
                           /\ \/ worker'[v].pc = f[v].pc
                              \/ f[v].pc = "Wait" /\ worker'[v].pc = "Woken"
    BY <2>2, <2>3, SignalHasWorkType
  <2> QED
    BY <2>1, <2>2, <2>4
<1>5. ASSUME DidRunWorkerTask(w) PROVE Framed
  <2>1. worker' = [worker EXCEPT ![w].pc = "GetWork", ![w].task = NoTask]
    BY <1>5 DEF DidRunWorkerTask
  <2>2. /\ worker'[w].pc = "GetWork"
        /\ worker'[w].new_thread_id = worker[w].new_thread_id
        /\ \A v \in Workers : v # w => worker'[v] = worker[v]
    BY <2>1 DEF TypeOK, WorkerState
  <2>3. Moved("GetWork")
    BY <1>5 DEF DidRunWorkerTask, At, CreationInv, PromiseKept
  <2> HIDE DEF Moved
  <2> QED
    BY <2>2, <2>3
<1>6. ASSUME OtherSteps PROVE CreationInv'
  <2>1. Framed
    BY <1>2, <1>3, <1>4, <1>5, <1>6
  <2>2. /\ threads_' = threads_ /\ thread_being_created_' = thread_being_created_
        /\ call' = call
    BY <1>6 DEF GetWorkWait, GetWorkExit, ThreadLoopBreak, WorkerSignal, WorkerClear,
                WorkerRun, DidRunWorkerTask, WorkerWake, WorkerExitSignal,
                WorkerExitShutdown, ReleaseWorkerRef
  <2>3. \A v \in Workers : worker[v].pc = "Wait" => ~Promised(v)
    BY DEF CreationInv, PromiseKept
  <2>4. CreationFrame
    BY <2>1, <2>2, <2>3 DEF CreationFrame
  <2> QED
    BY <2>4, CreationFrameInv
<1> QED
  BY <1>1, <1>6 DEF WorkerStep

\* Every step keeps at most one thread on its way.
LEMMA NextCreation == TypeOK /\ CreationInv /\ [Next]_vars => CreationInv'
<1> SUFFICES ASSUME TypeOK, CreationInv, [Next]_vars PROVE CreationInv'
  OBVIOUS
<1> USE DEF creation, counts, tokens, clients, life, tasks
<1>1. ASSUME UNCHANGED <<worker, call, creation>> PROVE CreationInv'
  BY <1>1, CreationFrameInv DEF CreationFrame
<1>2. ASSUME UNCHANGED <<call, creation>>,
             \A w \in Workers : /\ worker'[w].new_thread_id = worker[w].new_thread_id
                                /\ \/ worker'[w].pc = worker[w].pc
                                   \/ worker[w].pc = "Wait" /\ worker'[w].pc = "Woken"
      PROVE  CreationInv'
  <2>1. \A w \in Workers : worker[w].pc = "Wait" => ~Promised(w)
    BY DEF CreationInv, PromiseKept
  <2> QED
    BY <1>2, <2>1, CreationFrameInv DEF CreationFrame
<1>3. ASSUME NEW c \in Callers, PostStep(c) \/ CallStep(c) PROVE CreationInv'
  <2>1. CASE \E t \in Tasks : PostTaskRejected(c, t)
    BY <1>1, <2>1 DEF PostTaskRejected
  <2>2. CASE \E t \in Tasks, behavior \in Behaviors :
               \/ \E token \in 0 .. last_sequence_number_ :
                    PostTask(c, t, NoName, token, behavior)
               \/ \E name \in Names : PostTask(c, t, name, 0, behavior)
    BY <2>2, PostTaskCreation
  <2>3. CASE PostTaskCreate(c)
    BY <2>3, PostTaskCreateCreation
  <2>4. CASE PostTaskSignal(c)
    <3>1. \A w \in Workers : /\ worker'[w].new_thread_id = worker[w].new_thread_id
                             /\ \/ worker'[w].pc = worker[w].pc
                                \/ worker[w].pc = "Wait" /\ worker'[w].pc = "Woken"
      BY <2>4, SignalHasWorkType DEF PostTaskSignal, TypeOK
    <3>2. /\ call'[c].thread = 0 /\ call'[c].pc = "none" /\ call[c].pc = "signal"
          /\ \A d \in Callers : d # c => call'[d] = call[d]
      BY <2>4 DEF PostTaskSignal, NoCall, TypeOK
    <3>3. call[c].thread = 0
      BY <3>2 DEF CreationInv, PromiseKept, Creating
    <3>4. \A w \in Workers : worker[w].pc = "Wait" => ~Promised(w)
      BY DEF CreationInv, PromiseKept
    <3>5. threads_' = threads_ /\ thread_being_created_' = thread_being_created_
      BY <2>4 DEF PostTaskSignal
    <3>6. \A d \in Callers : /\ call'[d].thread = call[d].thread
                             /\ call'[d].pc = "create" <=> call[d].pc = "create"
      BY <3>2, <3>3
    <3> QED
      BY <3>1, <3>4, <3>5, <3>6, CreationFrameInv DEF CreationFrame
  <2> QED
    BY <1>3, <2>1, <2>2, <2>3, <2>4 DEF PostStep, CallStep
<1>4. CASE \E w \in Workers : WorkerStep(w)
  BY <1>4, WorkerStepCreation
<1>5. CASE SignalHasWorkForTesting \/ ShutdownCall
  <2>1. \A w \in Workers : /\ worker'[w].new_thread_id = worker[w].new_thread_id
                           /\ \/ worker'[w].pc = worker[w].pc
                              \/ worker[w].pc = "Wait" /\ worker'[w].pc = "Woken"
    BY <1>5, SignalHasWorkType DEF SignalHasWorkForTesting, ShutdownCall, TypeOK
  <2> QED
    BY <1>2, <1>5, <2>1 DEF SignalHasWorkForTesting, ShutdownCall
<1>6. CASE SpuriousWake
  <2>1. \A w \in Workers : /\ worker'[w].new_thread_id = worker[w].new_thread_id
                           /\ \/ worker'[w].pc = worker[w].pc
                              \/ worker[w].pc = "Wait" /\ worker'[w].pc = "Woken"
    BY <1>6 DEF SpuriousWake, At, TypeOK, WorkerState
  <2> QED
    BY <1>2, <1>6, <2>1 DEF SpuriousWake
<1>7. CASE \/ GetSequenceToken \/ \E name \in Names : GetNamedSequenceToken(name)
           \/ ShutdownWait \/ \E f \in Flushers : FlushForTesting(f)
           \/ ReleaseClientRef \/ DestroyInner
  BY <1>1, <1>7 DEF GetSequenceToken, GetNamedSequenceToken, ShutdownWait,
                    FlushForTesting, ReleaseClientRef, DestroyInner
<1>8. CASE UNCHANGED vars
  BY <1>1, <1>8 DEF vars
<1> QED
  BY <1>3, <1>4, <1>5, <1>6, <1>7, <1>8 DEF Next

\* No thread is there, and none is on its way, when the pool is created.
LEMMA InitCreation == Init => CreationInv
<1> SUFFICES ASSUME Init PROVE CreationInv
  OBVIOUS
<1>1. /\ \A c \in Callers : call[c] = NoCall
      /\ \A w \in Workers : worker[w] = NoWorker
      /\ threads_ = {} /\ thread_being_created_ = FALSE
  BY DEF Init
<1>2. threads_ = 1 .. Cardinality(threads_)
  <2>1. Cardinality({}) = 0
    BY FS_EmptySet
  <2>2. 1 .. 0 = {}
    OBVIOUS
  <2> QED
    BY <1>1, <2>1, <2>2
<1> QED
  BY <1>1, <1>2 DEF CreationInv, OneComing, Numbered, PromiseKept, Creating, Promised,
                    Starting, NoCall, NoWorker

\* The invariant behind thread creation.
LEMMA CreationInvariant == Spec => []CreationInv
BY InitCreation, NextCreation, TypeCorrect, PTL DEF Spec

\* Creating a thread takes a promise under the lock, a start outside it and an
\* entry under it again, by up to three threads: at most one is on its way at
\* any time, under a number of its own within max_threads_, and the DCHECKs of
\* ThreadLoop hold when it arrives.
THEOREM OneCreation == Spec => []OneThreadAtATime
<1>1. TypeOK /\ CreationInv => OneThreadAtATime
  BY CreationOneThread
<1> QED
  BY <1>1, CreationInvariant, TypeCorrect, PTL

-----------------------------------------------------------------------------
(* Order within a sequence *)

\* A task that waits is in the list, one that runs is in the hands of a worker
\* that has not finished it, and a worker with a task is past GetWork.
OrderInv ==
  /\ \A t \in Tasks : status[t] = "pending" => t \in pending_tasks_
  /\ \A t \in Tasks : status[t] = "running" =>
       \E w \in Workers : worker[w].task = t /\ worker[w].pc # "DidRun"
  /\ \A w \in Workers : Busy(w) => worker[w].pc \in TaskPoints

\* Steps that neither take a task nor finish one.
OrderFrame ==
  /\ \A t \in Tasks : /\ status'[t] = "pending" => status[t] = "pending"
                      /\ status'[t] = "running" => status[t] = "running"
                      /\ status'[t] = "pending" /\ t \in pending_tasks_
                           => t \in pending_tasks_'
  /\ \A w \in Workers : /\ worker'[w].task = worker[w].task
                        /\ worker'[w].pc \in TaskPoints <=> worker[w].pc \in TaskPoints
                        /\ worker'[w].pc = "DidRun" => worker[w].pc = "DidRun"

\* OrderInv speaks of these variables only.
LEMMA OrderFrameInv ==
  ASSUME OrderInv, OrderFrame
  PROVE  OrderInv'
<1>1. \A t \in Tasks : status'[t] = "running" =>
        \E w \in Workers : worker'[w].task = t /\ worker'[w].pc # "DidRun"
  BY DEF OrderInv, OrderFrame
<1>2. \A w \in Workers : Busy(w)' => worker'[w].pc \in TaskPoints
  BY DEF OrderInv, OrderFrame, Busy
<1> QED
  BY <1>1, <1>2 DEF OrderInv, OrderFrame

\* GetWork moves a task from the list into the hands of the worker.
LEMMA GetWorkFoundOrder ==
  ASSUME TypeOK, OrderInv, NEW w \in Workers, NEW t \in Tasks, GetWorkFound(w, t)
  PROVE  OrderInv'
<1>1. /\ worker'[w].task = t /\ worker'[w].pc = "Signal"
      /\ \A v \in Workers : v # w => worker'[v] = worker[v]
      /\ worker[w].pc = "GetWork"
  BY DEF GetWorkFound, At, TypeOK
<1>2. /\ \A u \in Tasks : u # t /\ status'[u] = "running" => status[u] = "running"
      /\ \A u \in Tasks : status'[u] = "pending"
           => status[u] = "pending" /\ (u \in pending_tasks_ => u \in pending_tasks_')
  BY DEF GetWorkFound
<1>3. \A u \in Tasks : status'[u] = "running" =>
        \E v \in Workers : worker'[v].task = u /\ worker'[v].pc # "DidRun"
  <2> SUFFICES ASSUME NEW u \in Tasks, u # t, status'[u] = "running"
               PROVE  \E v \in Workers : worker'[v].task = u /\ worker'[v].pc # "DidRun"
    BY <1>1
  <2>1. PICK v \in Workers : worker[v].task = u /\ worker[v].pc # "DidRun"
    BY <1>2 DEF OrderInv
  <2>2. v # w
    BY <1>1, <2>1, ConstantsAssumption
    DEF ConstantsAssumption, OrderInv, Busy, TaskPoints
  <2> QED
    BY <1>1, <2>1, <2>2
<1>4. \A v \in Workers : Busy(v)' => worker'[v].pc \in TaskPoints
  BY <1>1 DEF OrderInv, Busy, TaskPoints
<1> QED
  BY <1>2, <1>3, <1>4 DEF OrderInv

\* The end of a task, and DidRunWorkerTask.
LEMMA FinishOrder ==
  ASSUME TypeOK, OrderInv, NEW w \in Workers, WorkerRun(w) \/ DidRunWorkerTask(w)
  PROVE  OrderInv'
<1>1. CASE WorkerRun(w)
  <2>1. /\ worker'[w].task = worker[w].task /\ worker'[w].pc = "DidRun"
        /\ \A v \in Workers : v # w => worker'[v] = worker[v]
        /\ pending_tasks_' = pending_tasks_
    BY <1>1 DEF WorkerRun, TypeOK, WorkerState
  <2>2. \A t \in Tasks : \/ status'[t] = status[t] /\ t # worker[w].task
                         \/ status'[t] = "done"
    BY <1>1 DEF WorkerRun, TypeOK
  <2>3. \A v \in Workers : Busy(v)' => worker'[v].pc \in TaskPoints
    BY <2>1 DEF OrderInv, Busy, TaskPoints
  <2>4. \A t \in Tasks : status'[t] = "running" =>
          \E v \in Workers : worker'[v].task = t /\ worker'[v].pc # "DidRun"
    BY <2>1, <2>2 DEF OrderInv
  <2> QED
    BY <2>1, <2>2, <2>3, <2>4 DEF OrderInv
<1>2. CASE DidRunWorkerTask(w)
  <2>1. worker' = [worker EXCEPT ![w].pc = "GetWork", ![w].task = NoTask]
    BY <1>2 DEF DidRunWorkerTask
  <2>2. /\ worker'[w].task = NoTask
        /\ \A v \in Workers : v # w => worker'[v] = worker[v]
    BY <2>1 DEF TypeOK, WorkerState
  <2>3. /\ pending_tasks_' = pending_tasks_ /\ status' = status
        /\ worker[w].pc = "DidRun"
    BY <1>2 DEF DidRunWorkerTask, At, tasks
  <2>4. \A v \in Workers : Busy(v)' => worker'[v].pc \in TaskPoints
    BY <2>2 DEF OrderInv, Busy
  <2>5. \A t \in Tasks : status'[t] = "running" =>
          \E v \in Workers : worker'[v].task = t /\ worker'[v].pc # "DidRun"
    BY <2>2, <2>3 DEF OrderInv
  <2> QED
    BY <2>3, <2>4, <2>5 DEF OrderInv
<1> QED
  BY <1>1, <1>2

\* Starting a thread gives it nobody's place.
LEMMA CreateOrder ==
  ASSUME TypeOK, CreationInv, NEW f \in [Workers -> WorkerState],
         NEW n \in Workers, n = NextNumber, FinishStartingAdditionalThread(f, n),
         \A w \in Workers : /\ f[w].task = worker[w].task
                            /\ f[w].pc \in TaskPoints <=> worker[w].pc \in TaskPoints
                            /\ f[w].pc # "DidRun" \/ worker[w].pc = "DidRun"
  PROVE  \A w \in Workers : /\ worker'[w].task = worker[w].task
                            /\ worker'[w].pc \in TaskPoints <=> worker[w].pc \in TaskPoints
                            /\ worker'[w].pc = "DidRun" => worker[w].pc = "DidRun"
<1>1. Cardinality(threads_) \in Nat
  <2>1. IsFiniteSet(Workers)
    BY FS_Interval, ConstantsAssumption DEF ConstantsAssumption, Workers
  <2> QED
    BY <2>1, FS_Subset, FS_CardinalityType DEF TypeOK
<1>2. worker[n].pc \in {"none", "starting"}
  BY <1>1 DEF CreationInv, Numbered, NextNumber
<1>3. \A w \in Workers : /\ worker'[w].task = f[w].task
                         /\ worker'[w].pc = IF w = n THEN "starting" ELSE f[w].pc
  BY StartThreadType
<1> QED
  BY <1>2, <1>3 DEF TaskPoints

\* The worker's other steps neither take nor finish a task.
LEMMA WorkerStepOrder ==
  ASSUME TypeOK, CreationInv, OrderInv, NEW w \in Workers, WorkerStep(w)
  PROVE  OrderInv'
<1> USE DEF creation, counts, tokens, clients, life, tasks
<1> DEFINE InHand == \A v \in Workers :
                       /\ worker'[v].task = worker[v].task
                       /\ worker'[v].pc \in TaskPoints <=> worker[v].pc \in TaskPoints
                       /\ worker'[v].pc = "DidRun" => worker[v].pc = "DidRun"
           Moved(pc) == /\ pc \in TaskPoints <=> worker[w].pc \in TaskPoints
                        /\ pc # "DidRun"
<1>1. ASSUME \E t \in Tasks : GetWorkFound(w, t) PROVE OrderInv'
  BY <1>1, GetWorkFoundOrder
<1>2. ASSUME WorkerRun(w) \/ DidRunWorkerTask(w) PROVE OrderInv'
  BY <1>2, FinishOrder
<1>3. ASSUME \/ ThreadLoopEnter(w) \/ GetWorkWait(w) \/ WorkerWake(w)
             \/ WorkerExitShutdown(w) \/ ReleaseWorkerRef(w)
      PROVE  OrderFrame
  <2>1. PICK pc \in {"GetWork", "Wait", "Release", "Joinable"} :
          worker' = [worker EXCEPT ![w].pc = pc]
    BY <1>3 DEF ThreadLoopEnter, GetWorkWait, WorkerWake, WorkerExitShutdown,
                ReleaseWorkerRef
  <2>2. Moved(pc)
    BY <1>3 DEF ThreadLoopEnter, GetWorkWait, WorkerWake, WorkerExitShutdown,
                ReleaseWorkerRef, At, TaskPoints
  <2>3. InHand
    BY <2>1, <2>2 DEF TypeOK, WorkerState
  <2> QED
    BY <1>3, <2>3 DEF OrderFrame, ThreadLoopEnter, GetWorkWait, WorkerWake,
                      WorkerExitShutdown, ReleaseWorkerRef
<1>4. ASSUME GetWorkExit(w) \/ ThreadLoopBreak(w) \/ WorkerClear(w) PROVE OrderFrame
  <2>1. ASSUME NEW pc, NEW D,
               worker' = [worker EXCEPT ![w].pc = pc, ![w].delete_these_outside_lock = D],
               Moved(pc)
        PROVE  InHand
    BY <2>1 DEF TypeOK, WorkerState
  <2>2. InHand
    <3>1. CASE GetWorkExit(w)
      <4>1. worker' = [worker EXCEPT ![w].pc = "Break",
                         ![w].delete_these_outside_lock = {u \in pending_tasks_ : Runnable(u)}]
        BY <3>1 DEF GetWorkExit
      <4>2. Moved("Break")
        BY <3>1 DEF GetWorkExit, At, TaskPoints
      <4> HIDE DEF Moved, InHand
      <4> QED
        BY <2>1, <4>1, <4>2
    <3>2. CASE ThreadLoopBreak(w)
      <4>1. worker' = [worker EXCEPT ![w].pc = "ExitSignal",
                                     ![w].delete_these_outside_lock = {}]
        BY <3>2 DEF ThreadLoopBreak
      <4>2. Moved("ExitSignal")
        BY <3>2 DEF ThreadLoopBreak, At, TaskPoints
      <4> HIDE DEF Moved, InHand
      <4> QED
        BY <2>1, <4>1, <4>2
    <3>3. CASE WorkerClear(w)
      <4>1. PICK pc \in {"Create", "Run"} :
              worker' = [worker EXCEPT ![w].pc = pc, ![w].delete_these_outside_lock = {}]
        BY <3>3 DEF WorkerClear
      <4>2. Moved(pc)
        BY <3>3 DEF WorkerClear, At, TaskPoints
      <4> HIDE DEF Moved, InHand
      <4> QED
        BY <2>1, <4>1, <4>2
    <3> QED
      BY <1>4, <3>1, <3>2, <3>3
  <2>3. \A t \in Tasks : /\ status'[t] = "pending" => status[t] = "pending"
                         /\ status'[t] = "running" => status[t] = "running"
                         /\ status'[t] = "pending" /\ t \in pending_tasks_
                              => t \in pending_tasks_'
    BY <1>4 DEF GetWorkExit, ThreadLoopBreak, WorkerClear, Deleted
  <2> QED
    BY <2>2, <2>3 DEF OrderFrame
<1>5. ASSUME WorkerSignal(w) \/ WorkerExitSignal(w) PROVE OrderFrame
  <2>1. PICK pc \in {"Clear", "ExitShutdown"} :
          SignalHasWork([worker EXCEPT ![w].pc = pc]) /\ Moved(pc)
    BY <1>5 DEF WorkerSignal, WorkerExitSignal, At, TaskPoints
  <2> DEFINE f == [worker EXCEPT ![w].pc = pc]
  <2>2. /\ f \in [Workers -> WorkerState]
        /\ f[w].pc = pc /\ f[w].task = worker[w].task
        /\ \A v \in Workers : v # w => f[v] = worker[v]
    BY <2>1 DEF TypeOK, WorkerState, WorkerPoints
  <2>3. SignalHasWork(f)
    BY <2>1
  <2> HIDE DEF f
  <2>4. \A v \in Workers : /\ worker'[v].task = f[v].task
                           /\ \/ worker'[v].pc = f[v].pc
                              \/ f[v].pc = "Wait" /\ worker'[v].pc = "Woken"
    BY <2>2, <2>3, SignalHasWorkType
  <2>5. InHand
    BY <2>1, <2>2, <2>4 DEF TaskPoints
  <2> QED
    BY <1>5, <2>5 DEF OrderFrame, WorkerSignal, WorkerExitSignal
<1>6. ASSUME WorkerCreate(w) PROVE OrderFrame
  <2> DEFINE f == [worker EXCEPT ![w].pc = "Run", ![w].new_thread_id = 0]
             n == worker[w].new_thread_id
  <2>1. f \in [Workers -> WorkerState]
    <3>1. worker \in [Workers -> WorkerState] /\ "Run" \in WorkerPoints
      BY DEF TypeOK, WorkerPoints
    <3>2. 0 \in 0 .. max_threads_
      BY ConstantsAssumption DEF ConstantsAssumption
    <3> QED
      BY <3>1, <3>2, NewThreadUpdateType
  <2>2. \A v \in Workers : /\ f[v].task = worker[v].task
                           /\ f[v].pc \in TaskPoints <=> worker[v].pc \in TaskPoints
                           /\ f[v].pc # "DidRun" \/ worker[v].pc = "DidRun"
    BY <1>6 DEF TypeOK, WorkerState, WorkerCreate, At, TaskPoints
  <2>3. FinishStartingAdditionalThread(f, n)
    BY <1>6 DEF WorkerCreate
  <2>4. n \in Workers /\ n = NextNumber
    BY <1>6 DEF WorkerCreate, At, CreationInv, PromiseKept, Numbered, Promised, TypeOK,
                WorkerState, Workers
  <2> HIDE DEF f, n
  <2>5. InHand
    BY <2>1, <2>2, <2>3, <2>4, CreateOrder
  <2> QED
    BY <1>6, <2>5 DEF OrderFrame, WorkerCreate
<1> QED
  BY <1>1, <1>2, <1>3, <1>4, <1>5, <1>6, OrderFrameInv DEF WorkerStep

\* Every step keeps the list and the tasks in hand in line with what became of
\* the posts.
LEMMA NextOrder == TypeOK /\ CreationInv /\ OrderInv /\ [Next]_vars => OrderInv'
<1> SUFFICES ASSUME TypeOK, CreationInv, OrderInv, [Next]_vars PROVE OrderInv'
  OBVIOUS
<1> USE DEF creation, counts, tokens, clients, life, tasks
<1>1. ASSUME UNCHANGED tasks,
             \A w \in Workers : /\ worker'[w].task = worker[w].task
                                /\ \/ worker'[w].pc = worker[w].pc
                                   \/ worker[w].pc = "Wait" /\ worker'[w].pc = "Woken"
      PROVE  OrderInv'
  BY <1>1, OrderFrameInv DEF OrderFrame, TaskPoints
<1>2. ASSUME NEW c \in Callers, PostStep(c) \/ CallStep(c) PROVE OrderInv'
  <2>1. CASE \E t \in Tasks : PostTaskRejected(c, t)
    <3>1. \A t \in Tasks : /\ status'[t] = "pending" => status[t] = "pending"
                           /\ status'[t] = "running" => status[t] = "running"
      BY <2>1 DEF PostTaskRejected, TypeOK
    <3> QED
      BY <2>1, <3>1, OrderFrameInv DEF PostTaskRejected, OrderFrame
  <2>2. ASSUME NEW t \in Tasks, NEW behavior, NEW name, NEW token,
               PostTask(c, t, name, token, behavior)
        PROVE  OrderInv'
    <3>1. /\ worker' = worker /\ pending_tasks_' = pending_tasks_ \cup {t}
          /\ \A u \in Tasks : status'[u] = IF u = t THEN "pending" ELSE status[u]
      BY <2>2 DEF PostTask, TypeOK
    <3> QED
      BY <3>1 DEF OrderInv, Busy
  <2>3. CASE PostTaskCreate(c)
    <3>1. call[c].thread \in Workers /\ call[c].thread = NextNumber
      BY <2>3 DEF PostTaskCreate, CreationInv, PromiseKept, Numbered, Creating, TypeOK,
                  CallState, Workers
    <3>2. \A w \in Workers : /\ worker'[w].task = worker[w].task
                             /\ worker'[w].pc \in TaskPoints <=> worker[w].pc \in TaskPoints
                             /\ worker'[w].pc = "DidRun" => worker[w].pc = "DidRun"
      BY <2>3, <3>1, CreateOrder DEF PostTaskCreate, TypeOK
    <3> QED
      BY <2>3, <3>2, OrderFrameInv DEF PostTaskCreate, OrderFrame
  <2>4. CASE PostTaskSignal(c)
    BY <1>1, <2>4, SignalHasWorkType DEF PostTaskSignal, TypeOK
  <2> QED
    BY <1>2, <2>1, <2>2, <2>3, <2>4 DEF PostStep, CallStep
<1>3. CASE \E w \in Workers : WorkerStep(w)
  BY <1>3, WorkerStepOrder
<1>4. CASE SignalHasWorkForTesting \/ ShutdownCall
  BY <1>1, <1>4, SignalHasWorkType DEF SignalHasWorkForTesting, ShutdownCall, TypeOK
<1>5. CASE SpuriousWake
  <2>1. \A w \in Workers : /\ worker'[w].task = worker[w].task
                           /\ \/ worker'[w].pc = worker[w].pc
                              \/ worker[w].pc = "Wait" /\ worker'[w].pc = "Woken"
    BY <1>5 DEF SpuriousWake, At, TypeOK, WorkerState
  <2> QED
    BY <1>1, <1>5, <2>1 DEF SpuriousWake
<1>6. CASE \/ GetSequenceToken \/ \E name \in Names : GetNamedSequenceToken(name)
           \/ ShutdownWait \/ \E f \in Flushers : FlushForTesting(f)
           \/ ReleaseClientRef
  BY <1>1, <1>6 DEF GetSequenceToken, GetNamedSequenceToken, ShutdownWait,
                    FlushForTesting, ReleaseClientRef
<1>7. CASE DestroyInner
  BY <1>7, OrderFrameInv DEF DestroyInner, OrderFrame
<1>8. CASE UNCHANGED vars
  BY <1>1, <1>8 DEF vars
<1> QED
  BY <1>2, <1>3, <1>4, <1>5, <1>6, <1>7, <1>8 DEF Next

\* GetWork, which scans from the front, takes no task out of turn.
LEMMA GetWorkFoundInOrder ==
  ASSUME TypeOK, SequenceInv, OrderInv, NEW w \in Workers, NEW t \in Tasks,
         GetWorkFound(w, t), NEW u \in Tasks,
         posted[t].token # 0, posted[u].token = posted[t].token, u # t,
         posted[u].ticket < posted[t].ticket
  PROVE  status'[u] \notin {"pending", "running"}
<1>1. Runnable(t) /\ posted[t].token \notin current_sequences_
  BY DEF GetWorkFound, Wanted, Runnable, IsSequenceTokenRunnable
<1>2. Runnable(u)
  BY <1>1 DEF Runnable
<1>3. ASSUME status'[u] = "running" PROVE FALSE
  <2>1. status[u] = "running"
    BY <1>3 DEF GetWorkFound
  <2>2. PICK v \in Workers : worker[v].task = u
    BY <2>1 DEF OrderInv
  <2>3. Busy(v) /\ Token(v) = posted[t].token
    BY <2>2, ConstantsAssumption DEF ConstantsAssumption, Busy, Token
  <2> QED
    BY <1>1, <2>3 DEF SequenceInv
<1>4. ASSUME status'[u] = "pending" PROVE FALSE
  <2>1. /\ status[u] = "pending"
        /\ ~(u \in pending_tasks_ /\ Runnable(u) /\ Skippable(u))
    BY <1>4 DEF GetWorkFound
  <2>2. u \in Wanted
    BY <1>2, <2>1 DEF OrderInv, Wanted
  <2>3. posted[t].ticket <= posted[u].ticket
    BY <2>2 DEF GetWorkFound, FirstInList
  <2>4. posted[t].ticket \in Nat /\ posted[u].ticket \in Nat
    BY DEF TypeOK, SequencedTask
  <2> QED
    BY <2>3, <2>4
<1> QED
  BY <1>3, <1>4

\* Nothing but GetWork starts a task.
LEMMA OnlyGetWorkStarts ==
  ASSUME TypeOK, [Next]_vars, NEW t \in Tasks,
         status[t] # "running", status'[t] = "running"
  PROVE  \E w \in Workers : GetWorkFound(w, t)
<1> USE DEF creation, counts, tokens, clients, life, tasks
<1>1. status' # status
  OBVIOUS
<1>2. ASSUME NEW c \in Callers, PostStep(c) \/ CallStep(c) PROVE FALSE
  <2>1. CASE CallStep(c)
    BY <1>1, <2>1 DEF CallStep, PostTaskCreate, PostTaskSignal
  <2>2. CASE PostStep(c)
    <3>1. PICK u \in Tasks, s \in {"rejected", "pending"} :
            status' = [status EXCEPT ![u] = s]
      BY <2>2 DEF PostStep, PostTaskRejected, PostTask
    <3> QED
      BY <3>1 DEF TypeOK
  <2> QED
    BY <1>2, <2>1, <2>2
<1>3. ASSUME NEW w \in Workers, WorkerStep(w) PROVE GetWorkFound(w, t)
  <2>1. CASE \/ ThreadLoopEnter(w) \/ GetWorkWait(w) \/ WorkerSignal(w)
             \/ WorkerCreate(w) \/ DidRunWorkerTask(w) \/ WorkerWake(w)
             \/ WorkerExitSignal(w) \/ WorkerExitShutdown(w) \/ ReleaseWorkerRef(w)
    BY <1>1, <2>1 DEF ThreadLoopEnter, GetWorkWait, WorkerSignal, WorkerCreate,
                      DidRunWorkerTask, WorkerWake, WorkerExitSignal,
                      WorkerExitShutdown, ReleaseWorkerRef
  <2>2. CASE GetWorkExit(w) \/ ThreadLoopBreak(w) \/ WorkerClear(w)
    BY <2>2 DEF GetWorkExit, ThreadLoopBreak, WorkerClear, Deleted
  <2>3. CASE WorkerRun(w)
    BY <2>3 DEF WorkerRun, TypeOK
  <2>4. ASSUME NEW u \in Tasks, GetWorkFound(w, u) PROVE u = t
    BY <2>4 DEF GetWorkFound
  <2> QED
    BY <1>3, <2>1, <2>2, <2>3, <2>4 DEF WorkerStep
<1>4. ~(SignalHasWorkForTesting \/ ShutdownCall \/ SpuriousWake \/ ShutdownWait)
  BY <1>1 DEF SignalHasWorkForTesting, ShutdownCall, SpuriousWake, ShutdownWait
<1>5. ~(\/ GetSequenceToken \/ ReleaseClientRef
        \/ \E name \in Names : GetNamedSequenceToken(name)
        \/ \E f \in Flushers : FlushForTesting(f))
  BY <1>1 DEF GetSequenceToken, GetNamedSequenceToken, FlushForTesting,
              ReleaseClientRef
<1>6. ~DestroyInner
  BY DEF DestroyInner
<1>7. ~UNCHANGED vars
  BY <1>1 DEF vars
<1> QED
  BY <1>2, <1>3, <1>4, <1>5, <1>6, <1>7 DEF Next

\* Tasks of one sequence start in the order of their posts, however the posts,
\* the workers' scans and shutdown interleave: no task is taken while an
\* earlier one of its sequence waits or runs.
THEOREM SequencesInOrder == Spec => StartInOrder
<1>1. Init => OrderInv
  BY DEF Init, OrderInv, Busy, NoWorker
<1>2. TypeOK /\ SequenceInv /\ OrderInv /\ [Next]_vars => [TakenInOrder]_vars
  <2> SUFFICES ASSUME TypeOK, SequenceInv, OrderInv, [Next]_vars,
                      NEW t \in Tasks, NEW u \in Tasks,
                      status[t] = "pending", status'[t] = "running",
                      posted[t].token # 0, posted[u].token = posted[t].token,
                      u # t, posted[u].ticket < posted[t].ticket
               PROVE  status'[u] \notin {"pending", "running"}
    BY DEF TakenInOrder
  <2>1. PICK w \in Workers : GetWorkFound(w, t)
    BY OnlyGetWorkStarts
  <2> QED
    BY <2>1, GetWorkFoundInOrder
<1> QED
  BY <1>1, <1>2, NextOrder, TypeCorrect, SequenceInvariant, CreationInvariant, PTL
  DEF Spec, StartInOrder

-----------------------------------------------------------------------------
(* Quiet steps.  Six kinds of step move a counter; all others are Quiet,   *)
(* and what they may do to the workers is stated once.                     *)

Doomed(w) == worker[w].delete_these_outside_lock

\* The moves of a worker in a quiet step.
QuietMove(p, q) ==
  \/ p = "none" /\ q = "starting"
  \/ p = "starting" /\ q = "GetWork"
  \/ p = "Signal" /\ q = "Clear"
  \/ p = "Clear" /\ q \in {"Create", "Run"}
  \/ p = "Create" /\ q = "Run"
  \/ p = "Run" /\ q = "DidRun"
  \/ p = "Wait" /\ q = "Woken"
  \/ p = "Break" /\ q = "ExitSignal"
  \/ p = "ExitSignal" /\ q = "ExitShutdown"
  \/ p = "ExitShutdown" /\ q = "Release"
  \/ p = "Release" /\ q = "Joinable"

\* The workers keep their tasks; closures only go together with their tasks, and
\* no worker goes on while a call it made is in progress.
WorkersQuiet ==
  /\ \A w \in Workers : worker'[w].task = worker[w].task
  /\ \A w \in Workers :
       worker'[w].pc = worker[w].pc \/ QuietMove(worker[w].pc, worker'[w].pc)
  /\ \A t \in Tasks : status'[t] = "doomed" =>
       /\ status[t] = "doomed"
       /\ \A w \in Workers : t \in Doomed(w) => t \in Doomed(w)'
  /\ \A w \in Workers : worker'[w].pc # worker[w].pc =>
       /\ worker[w].pc \in {"Clear", "Run"} => call[w] = NoCall
       /\ worker[w].pc \in {"Clear", "Break"} => Doomed(w)' = {}

Quiet ==
  /\ WorkersQuiet
  /\ UNCHANGED <<counts, pending_tasks_, posted, current_sequences_>>
  /\ shutdown_called_ => shutdown_called_'
  /\ thread_being_created_' => thread_being_created_
  /\ \/ threads_' = threads_ /\ thread_being_created_' = thread_being_created_
     \/ \E w \in Workers : ThreadLoopEnter(w)

\* A worker that only moves.
LEMMA MoveEffect ==
  ASSUME TypeOK, NEW w \in Workers, NEW q, worker' = [worker EXCEPT ![w].pc = q]
  PROVE  /\ worker'[w].pc = q
         /\ \A v \in Workers : v # w => worker'[v] = worker[v]
         /\ \A v \in Workers : /\ worker'[v].task = worker[v].task
                               /\ Doomed(v)' = Doomed(v)
BY DEF TypeOK, WorkerState, Doomed

\* has_work_cv_.Signal() by a worker that moves, or by somebody else.
LEMMA SignalEffect ==
  ASSUME NEW f \in [Workers -> WorkerState], SignalHasWork(f)
  PROVE  \A w \in Workers :
           /\ worker'[w].task = f[w].task
           /\ worker'[w].delete_these_outside_lock = f[w].delete_these_outside_lock
           /\ worker'[w].pc = f[w].pc \/ (f[w].pc = "Wait" /\ worker'[w].pc = "Woken")
BY DEF SignalHasWork, WorkerState

\* A thread is started where there was none.
LEMMA StartEffect ==
  ASSUME NEW f \in [Workers -> WorkerState], NEW n, FinishStartingAdditionalThread(f, n)
  PROVE  \A w \in Workers :
           /\ worker'[w].task = f[w].task
           /\ worker'[w].delete_these_outside_lock = f[w].delete_these_outside_lock
           /\ worker'[w].pc = IF w = n THEN "starting" ELSE f[w].pc
BY DEF FinishStartingAdditionalThread, WorkerState

\* The next thread does not run yet.
LEMMA NextIsNew ==
  ASSUME TypeOK, CreationInv, NextNumber \in Workers,
         \A w \in Workers : ~Starting(w)
  PROVE  worker[NextNumber].pc = "none"
<1>1. IsFiniteSet(threads_) /\ Cardinality(threads_) \in Nat
  <2>1. IsFiniteSet(Workers)
    BY FS_Interval, ConstantsAssumption DEF ConstantsAssumption, Workers
  <2> QED
    BY <2>1, FS_Subset, FS_CardinalityType DEF TypeOK
<1>2. NextNumber \notin threads_
  BY <1>1 DEF CreationInv, Numbered, NextNumber
<1> QED
  BY <1>2 DEF CreationInv, Numbered, Starting

\* A worker's steps that move no counter.
LEMMA WorkerQuiet ==
  ASSUME TypeOK, CreationInv, NEW w \in Workers,
         \/ ThreadLoopEnter(w) \/ ThreadLoopBreak(w) \/ WorkerSignal(w)
         \/ WorkerClear(w) \/ WorkerCreate(w) \/ WorkerRun(w) \/ WorkerExitSignal(w)
         \/ WorkerExitShutdown(w) \/ ReleaseWorkerRef(w)
  PROVE  Quiet
<1> USE DEF creation, counts, tokens, clients, life, tasks
<1>1. /\ UNCHANGED <<counts, pending_tasks_, posted, current_sequences_, shutdown_called_>>
      /\ thread_being_created_' => thread_being_created_
      /\ \/ threads_' = threads_ /\ thread_being_created_' = thread_being_created_
         \/ \E v \in Workers : ThreadLoopEnter(v)
  BY DEF ThreadLoopEnter, ThreadLoopBreak, WorkerSignal, WorkerClear, WorkerCreate,
         WorkerRun, WorkerExitSignal, WorkerExitShutdown, ReleaseWorkerRef
<1>2. CASE ThreadLoopEnter(w) \/ WorkerRun(w) \/ WorkerExitShutdown(w) \/ ReleaseWorkerRef(w)
  <2>1. PICK q : /\ worker' = [worker EXCEPT ![w].pc = q]
                 /\ QuietMove(worker[w].pc, q)
                 /\ worker[w].pc \in {"starting", "Run", "ExitShutdown", "Release"}
                 /\ worker[w].pc = "Run" => call[w] = NoCall
    BY <1>2 DEF ThreadLoopEnter, WorkerRun, WorkerExitShutdown, ReleaseWorkerRef, At, QuietMove
  <2>2. \A t \in Tasks : status'[t] = "doomed" => status[t] = "doomed"
    BY <1>2 DEF ThreadLoopEnter, WorkerRun, WorkerExitShutdown, ReleaseWorkerRef, TypeOK
  <2>3. WorkersQuiet
    <3>1. /\ \A v \in Workers : v # w => worker'[v] = worker[v]
          /\ worker'[w].pc = q
          /\ \A v \in Workers : worker'[v].task = worker[v].task /\ Doomed(v)' = Doomed(v)
      BY <2>1, MoveEffect
    <3>2. \A v \in Workers : worker'[v].pc # worker[v].pc => v = w
      BY <3>1
    <3>3. \A v \in Workers :
            worker'[v].pc = worker[v].pc \/ QuietMove(worker[v].pc, worker'[v].pc)
      BY <2>1, <3>1
    <3> QED
      BY <2>1, <2>2, <3>1, <3>2, <3>3 DEF WorkersQuiet
  <2> QED
    BY <1>1, <2>3 DEF Quiet
<1>3. CASE ThreadLoopBreak(w) \/ WorkerClear(w)
  <2>1. PICK q : /\ worker' = [worker EXCEPT ![w].pc = q, ![w].delete_these_outside_lock = {}]
                 /\ QuietMove(worker[w].pc, q)
                 /\ worker[w].pc \in {"Break", "Clear"}
                 /\ worker[w].pc = "Clear" => call[w] = NoCall
    BY <1>3 DEF ThreadLoopBreak, WorkerClear, At, QuietMove
  <2>2. /\ worker'[w].pc = q
        /\ \A v \in Workers : v # w => worker'[v] = worker[v]
        /\ \A v \in Workers : worker'[v].task = worker[v].task
        /\ worker'[w].delete_these_outside_lock = {}
    BY <2>1 DEF TypeOK, WorkerState
  <2>3. \A t \in Tasks : status'[t] = "doomed" => status[t] = "doomed" /\ t \notin Doomed(w)
    BY <1>3 DEF ThreadLoopBreak, WorkerClear, Deleted, Doomed
  <2>4. WorkersQuiet
    BY <2>1, <2>2, <2>3 DEF WorkersQuiet, Doomed
  <2> QED
    BY <1>1, <2>4 DEF Quiet
<1>4. CASE WorkerSignal(w) \/ WorkerExitSignal(w)
  <2>1. PICK q \in {"Clear", "ExitShutdown"} :
          /\ SignalHasWork([worker EXCEPT ![w].pc = q])
          /\ QuietMove(worker[w].pc, q)
          /\ worker[w].pc \in {"Signal", "ExitSignal"}
    BY <1>4 DEF WorkerSignal, WorkerExitSignal, At, QuietMove
  <2> DEFINE f == [worker EXCEPT ![w].pc = q]
  <2>2. /\ f \in [Workers -> WorkerState] /\ f[w].pc = q /\ q # "Wait"
        /\ \A v \in Workers : v # w => f[v] = worker[v]
        /\ \A v \in Workers : /\ f[v].task = worker[v].task
                              /\ f[v].delete_these_outside_lock = Doomed(v)
    BY <2>1 DEF TypeOK, WorkerState, WorkerPoints, Doomed
  <2>3. SignalHasWork(f)
    BY <2>1
  <2> HIDE DEF f
  <2>4. \A v \in Workers :
          /\ worker'[v].task = f[v].task
          /\ worker'[v].delete_these_outside_lock = f[v].delete_these_outside_lock
          /\ worker'[v].pc = f[v].pc \/ (f[v].pc = "Wait" /\ worker'[v].pc = "Woken")
    BY <2>2, <2>3, SignalEffect
  <2>5. \A v \in Workers : worker'[v].pc = worker[v].pc \/ QuietMove(worker[v].pc, worker'[v].pc)
    <3> SUFFICES ASSUME NEW v \in Workers
                 PROVE  worker'[v].pc = worker[v].pc \/ QuietMove(worker[v].pc, worker'[v].pc)
      OBVIOUS
    <3>1. CASE v = w
      BY <2>1, <2>2, <2>4, <3>1
    <3>2. CASE v # w
      BY <2>2, <2>4, <3>2 DEF QuietMove
    <3> QED
      BY <3>1, <3>2
  <2>6. status' = status
    BY <1>4 DEF WorkerSignal, WorkerExitSignal
  <2>7. WorkersQuiet
    <3>1. \A v \in Workers : worker'[v].pc # worker[v].pc
                                => worker[v].pc \in {"Signal", "ExitSignal", "Wait"}
      BY <2>1, <2>2, <2>4
    <3> QED
      BY <2>2, <2>4, <2>5, <2>6, <3>1 DEF WorkersQuiet, Doomed
  <2> QED
    BY <1>1, <2>7 DEF Quiet
<1>5. CASE WorkerCreate(w)
  <2> DEFINE f == [worker EXCEPT ![w].pc = "Run", ![w].new_thread_id = 0]
             n == worker[w].new_thread_id
  <2>1. /\ f \in [Workers -> WorkerState] /\ f[w].pc = "Run"
        /\ \A v \in Workers : v # w => f[v] = worker[v]
        /\ \A v \in Workers : /\ f[v].task = worker[v].task
                              /\ f[v].delete_these_outside_lock = Doomed(v)
    <3>1. worker \in [Workers -> WorkerState] /\ "Run" \in WorkerPoints
      BY DEF TypeOK, WorkerPoints
    <3>2. 0 \in 0 .. max_threads_
      BY ConstantsAssumption DEF ConstantsAssumption
    <3>3. f \in [Workers -> WorkerState]
      BY <3>1, <3>2, NewThreadUpdateType
    <3> QED
      BY <3>1, <3>3 DEF WorkerState, Doomed
  <2>2. FinishStartingAdditionalThread(f, n) /\ status' = status /\ worker[w].pc = "Create"
    BY <1>5 DEF WorkerCreate, At
  <2>3. n = NextNumber /\ n \in Workers /\ \A v \in Workers : ~Starting(v)
    <3>1. Promised(w)
      BY <2>2 DEF CreationInv, PromiseKept
    <3>2. n = NextNumber /\ \A v \in Workers : ~Starting(v)
      BY <3>1 DEF CreationInv, OneComing, Numbered
    <3>3. n \in 0 .. max_threads_ /\ n # 0
      BY <3>1 DEF Promised, TypeOK, WorkerState
    <3> QED
      BY <3>2, <3>3, ConstantsAssumption DEF ConstantsAssumption, Workers
  <2>4. worker[n].pc = "none"
    BY <2>3, NextIsNew
  <2> HIDE DEF f, n
  <2>5. \A v \in Workers :
          /\ worker'[v].task = f[v].task
          /\ worker'[v].delete_these_outside_lock = f[v].delete_these_outside_lock
          /\ worker'[v].pc = IF v = n THEN "starting" ELSE f[v].pc
    BY <2>1, <2>2, StartEffect
  <2>6. \A v \in Workers : worker'[v].pc = worker[v].pc \/ QuietMove(worker[v].pc, worker'[v].pc)
    BY <2>1, <2>2, <2>4, <2>5 DEF QuietMove
  <2>7. WorkersQuiet
    <3>1. \A v \in Workers : worker'[v].pc # worker[v].pc
                                => worker[v].pc \in {"Create", "none"}
      BY <2>1, <2>2, <2>4, <2>5
    <3> QED
      BY <2>1, <2>2, <2>5, <2>6, <3>1 DEF WorkersQuiet, Doomed
  <2> QED
    BY <1>1, <2>7 DEF Quiet
<1> QED
  BY <1>2, <1>3, <1>4, <1>5

\* The critical section of a PostTask that is accepted.
Posting(t) ==
  \E c \in Callers, behavior \in Behaviors, name \in Names \cup {NoName} :
    \E token \in 0 .. last_sequence_number_ : PostTask(c, t, name, token, behavior)

\* Posts, what GetWork finds, the end of a task, and the waits move a counter or
\* take a task; all other steps are quiet.
LEMMA StepKinds ==
  ASSUME TypeOK, CreationInv, [Next]_vars
  PROVE  \/ Quiet
         \/ \E t \in Tasks : Posting(t)
         \/ \E w \in Workers, t \in Tasks : GetWorkFound(w, t)
         \/ \E w \in Workers : \/ GetWorkExit(w) \/ GetWorkWait(w)
                               \/ DidRunWorkerTask(w) \/ WorkerWake(w)
<1> USE DEF creation, counts, tokens, clients, life, tasks
<1>1. ASSUME UNCHANGED <<counts, pending_tasks_, posted, current_sequences_, threads_,
                         thread_being_created_, worker>>,
             shutdown_called_ => shutdown_called_',
             \A t \in Tasks : status'[t] = "doomed" => status[t] = "doomed"
      PROVE  Quiet
  BY <1>1 DEF Quiet, WorkersQuiet, Doomed
<1>2. ASSUME UNCHANGED <<counts, pending_tasks_, posted, current_sequences_, threads_,
                         thread_being_created_, status>>,
             shutdown_called_ => shutdown_called_',
             SignalHasWork(worker)
      PROVE  Quiet
  <2>1. \A w \in Workers :
          /\ worker'[w].task = worker[w].task /\ Doomed(w)' = Doomed(w)
          /\ worker'[w].pc = worker[w].pc \/ (worker[w].pc = "Wait" /\ worker'[w].pc = "Woken")
    BY <1>2, SignalEffect DEF TypeOK, Doomed
  <2> QED
    BY <1>2, <2>1 DEF Quiet, WorkersQuiet, QuietMove
<1>3. CASE GetSequenceToken \/ \E name \in Names : GetNamedSequenceToken(name)
  BY <1>1, <1>3 DEF GetSequenceToken, GetNamedSequenceToken
<1>4. ASSUME NEW c \in Callers, PostStep(c)
      PROVE  Quiet \/ \E t \in Tasks : Posting(t)
  <2>1. CASE \E t \in Tasks : PostTaskRejected(c, t)
    BY <1>1, <2>1 DEF PostTaskRejected, TypeOK
  <2>2. CASE \E t \in Tasks, behavior \in Behaviors :
               \/ \E token \in 0 .. last_sequence_number_ :
                    PostTask(c, t, NoName, token, behavior)
               \/ \E name \in Names : PostTask(c, t, name, 0, behavior)
    <3>1. 0 \in 0 .. last_sequence_number_
      BY DEF TypeOK
    <3> QED
      BY <2>2, <3>1 DEF Posting
  <2> QED
    BY <1>4, <2>1, <2>2 DEF PostStep
<1>5. ASSUME NEW c \in Callers, PostTaskSignal(c)
      PROVE  Quiet
  BY <1>2, <1>5 DEF PostTaskSignal
<1>6. ASSUME NEW c \in Callers, PostTaskCreate(c)
      PROVE  Quiet
  <2> DEFINE n == call[c].thread
  <2>1. FinishStartingAdditionalThread(worker, n) /\ Creating(c)
    BY <1>6 DEF PostTaskCreate, CreationInv, PromiseKept
  <2>2. n = NextNumber /\ n \in Workers /\ \A v \in Workers : ~Starting(v)
    <3>1. n = NextNumber /\ \A v \in Workers : ~Starting(v)
      BY <2>1 DEF CreationInv, OneComing, Numbered
    <3>2. n \in 0 .. max_threads_ /\ n # 0
      BY <2>1 DEF Creating, TypeOK, CallState
    <3> QED
      BY <3>1, <3>2, ConstantsAssumption DEF ConstantsAssumption, Workers
  <2>3. worker[n].pc = "none"
    BY <2>2, NextIsNew
  <2> HIDE DEF n
  <2>4. \A v \in Workers :
          /\ worker'[v].task = worker[v].task /\ Doomed(v)' = Doomed(v)
          /\ worker'[v].pc = IF v = n THEN "starting" ELSE worker[v].pc
    BY <2>1, StartEffect DEF TypeOK, Doomed
  <2>5. WorkersQuiet
    BY <1>6, <2>3, <2>4 DEF PostTaskCreate, WorkersQuiet, QuietMove
  <2> QED
    BY <1>6, <2>5 DEF PostTaskCreate, Quiet
<1>7. CASE SignalHasWorkForTesting \/ ShutdownCall
  BY <1>2, <1>7 DEF SignalHasWorkForTesting, ShutdownCall
<1>8. CASE SpuriousWake
  <2>1. CASE \E w \in Workers : At(w, "Wait") /\ worker' = [worker EXCEPT ![w].pc = "Woken"]
    <3>1. PICK w \in Workers : At(w, "Wait") /\ worker' = [worker EXCEPT ![w].pc = "Woken"]
      BY <2>1
    <3>2. WorkersQuiet
      BY <1>8, <3>1, MoveEffect DEF SpuriousWake, WorkersQuiet, QuietMove, At
    <3> QED
      BY <1>8, <3>2 DEF SpuriousWake, Quiet
  <2>2. CASE worker' = worker
    BY <1>1, <1>8, <2>2 DEF SpuriousWake
  <2> QED
    BY <1>8, <2>1, <2>2 DEF SpuriousWake
<1>9. CASE ShutdownWait \/ ReleaseClientRef \/ (\E f \in Flushers : FlushForTesting(f))
  BY <1>1, <1>9 DEF ShutdownWait, ReleaseClientRef, FlushForTesting
<1>10. CASE DestroyInner
  BY <1>1, <1>10 DEF DestroyInner
<1>11. CASE UNCHANGED vars
  BY <1>1, <1>11 DEF vars
<1>12. ASSUME NEW w \in Workers, WorkerStep(w)
       PROVE  \/ Quiet \/ \E t \in Tasks : GetWorkFound(w, t)
              \/ GetWorkExit(w) \/ GetWorkWait(w) \/ DidRunWorkerTask(w) \/ WorkerWake(w)
  BY <1>12, WorkerQuiet DEF WorkerStep
<1> QED
  BY <1>3, <1>4, <1>5, <1>6, <1>7, <1>8, <1>9, <1>10, <1>11, <1>12 DEF Next, CallStep

-----------------------------------------------------------------------------
(* The counters *)

IsBlocking(t)  == posted[t].behavior = "BLOCK_SHUTDOWN"
BlockedPending == {t \in pending_tasks_ : posted[t].behavior = "BLOCK_SHUTDOWN"}
BlockedThreads ==
  {w \in Workers : Busy(w) /\ posted[worker[w].task].behavior = "BLOCK_SHUTDOWN"}
WaitingThreads == {w \in Workers : worker[w].pc \in {"Wait", "Woken"}}

\* CountsAgree, by the names of what is counted.
LEMMA CountsNamed ==
  CountsAgree <=> /\ pending_task_count_ = Cardinality(pending_tasks_)
                  /\ blocking_shutdown_pending_task_count_ = Cardinality(BlockedPending)
                  /\ blocking_shutdown_thread_count_ = Cardinality(BlockedThreads)
                  /\ waiting_thread_count_ = Cardinality(WaitingThreads)
BY DEF CountsAgree, BlockedPending, BlockedThreads, WaitingThreads

\* What is counted is finite.
LEMMA Finite ==
  ASSUME TypeOK
  PROVE  /\ IsFiniteSet(Workers) /\ IsFiniteSet(threads_)
         /\ IsFiniteSet(pending_tasks_) /\ IsFiniteSet(BlockedPending)
         /\ IsFiniteSet(BlockedThreads) /\ IsFiniteSet(WaitingThreads)
         /\ \A S \in SUBSET pending_tasks_ : IsFiniteSet(S)
<1>1. IsFiniteSet(Workers)
  BY FS_Interval, ConstantsAssumption DEF ConstantsAssumption, Workers
<1>2. IsFiniteSet(pending_tasks_)
  BY FS_Subset, ConstantsAssumption DEF ConstantsAssumption, TypeOK
<1>3. threads_ \subseteq Workers /\ BlockedThreads \subseteq Workers
      /\ WaitingThreads \subseteq Workers
  BY DEF TypeOK, BlockedThreads, WaitingThreads
<1>4. BlockedPending \subseteq pending_tasks_
  BY DEF BlockedPending
<1> QED
  BY <1>1, <1>2, <1>3, <1>4, FS_Subset

\* One more and one less.
LEMMA OneMore ==
  ASSUME NEW S, IsFiniteSet(S), NEW x, x \notin S
  PROVE  Cardinality(S \cup {x}) = Cardinality(S) + 1
BY FS_AddElement

\* A finite set without one of its members.
LEMMA OneLess ==
  ASSUME NEW S, IsFiniteSet(S), NEW x \in S
  PROVE  Cardinality(S \ {x}) = Cardinality(S) - 1
BY FS_RemoveElement

\* A finite set without some of its members.
LEMMA SomeLess ==
  ASSUME NEW S, IsFiniteSet(S), NEW T \in SUBSET S
  PROVE  /\ IsFiniteSet(T) /\ Cardinality(T) \in Nat /\ Cardinality(S) \in Nat
         /\ Cardinality(S \ T) = Cardinality(S) - Cardinality(T)
<1>1. IsFiniteSet(T)
  BY FS_Subset
<1>2. Cardinality(S \ T) = Cardinality(S) - Cardinality(S \cap T)
  BY FS_Difference
<1>3. S \cap T = T
  OBVIOUS
<1> QED
  BY <1>1, <1>2, <1>3, FS_CardinalityType

\* A quiet step changes nothing that is counted.
LEMMA QuietCounts ==
  ASSUME TypeOK, CountsAgree, Quiet
  PROVE  CountsAgree'
<1>1. /\ pending_tasks_' = pending_tasks_ /\ posted' = posted /\ UNCHANGED counts
      /\ \A w \in Workers : worker'[w].task = worker[w].task
  BY DEF Quiet, WorkersQuiet
<1>2. \A w \in Workers : worker'[w].pc \in {"Wait", "Woken"} <=> worker[w].pc \in {"Wait", "Woken"}
  BY DEF Quiet, WorkersQuiet, QuietMove
<1>3. BlockedPending' = BlockedPending
  BY <1>1 DEF BlockedPending
<1>4. BlockedThreads' = BlockedThreads
  BY <1>1 DEF BlockedThreads, Busy
<1>5. WaitingThreads' = WaitingThreads
  BY <1>2 DEF WaitingThreads
<1> QED
  BY <1>1, <1>3, <1>4, <1>5, CountsNamed DEF counts, CountsAgree, BlockedPending,
     BlockedThreads, WaitingThreads

\* The same after a step.
LEMMA CountsAfter ==
  ASSUME pending_task_count_' = Cardinality(pending_tasks_'),
         blocking_shutdown_pending_task_count_' = Cardinality(BlockedPending'),
         blocking_shutdown_thread_count_' = Cardinality(BlockedThreads'),
         waiting_thread_count_' = Cardinality(WaitingThreads')
  PROVE  CountsAgree'
BY DEF CountsAgree, BlockedPending, BlockedThreads, WaitingThreads

\* A post adds to the list a task that was not there and that nobody runs.
LEMMA PostCounts ==
  ASSUME TypeOK, SequenceInv, CountsAgree, NEW t \in Tasks, Posting(t)
  PROVE  CountsAgree'
<1>1. PICK c \in Callers, behavior \in Behaviors, name \in Names \cup {NoName} :
        \E token \in 0 .. last_sequence_number_ : PostTask(c, t, name, token, behavior)
  BY DEF Posting
<1>2. /\ status[t] = "unposted" /\ worker' = worker
      /\ pending_tasks_' = pending_tasks_ \cup {t}
      /\ pending_task_count_' = pending_task_count_ + 1
      /\ blocking_shutdown_pending_task_count_' =
           blocking_shutdown_pending_task_count_ + Blocking(behavior)
      /\ UNCHANGED <<waiting_thread_count_, blocking_shutdown_thread_count_>>
      /\ \A u \in Tasks \ {t} : posted'[u] = posted[u]
      /\ posted'[t].behavior = behavior
  BY <1>1 DEF PostTask, TypeOK
<1>3. t \notin pending_tasks_ /\ \A w \in Workers : Busy(w) => worker[w].task \in Tasks \ {t}
  <2>1. \A w \in Workers : worker[w].task \in Tasks \cup {NoTask}
    BY DEF TypeOK, WorkerState
  <2> QED
    BY <1>2, <2>1 DEF SequenceInv, Busy
<1>4. Cardinality(pending_tasks_') = Cardinality(pending_tasks_) + 1
  BY <1>2, <1>3, Finite, OneMore
<1>5. BlockedThreads' = BlockedThreads /\ WaitingThreads' = WaitingThreads
  BY <1>2, <1>3 DEF BlockedThreads, WaitingThreads, Busy
<1>6. Cardinality(BlockedPending') = Cardinality(BlockedPending) + Blocking(behavior)
  <2>1. CASE behavior = "BLOCK_SHUTDOWN"
    <3>1. BlockedPending' = BlockedPending \cup {t} /\ t \notin BlockedPending
      BY <1>2, <1>3, <2>1 DEF BlockedPending, TypeOK
    <3> QED
      BY <2>1, <3>1, Finite, OneMore DEF Blocking
  <2>2. CASE behavior # "BLOCK_SHUTDOWN"
    <3>1. BlockedPending' = BlockedPending
      BY <1>2, <1>3, <2>2 DEF BlockedPending, TypeOK
    <3>2. Cardinality(BlockedPending) \in Nat
      BY Finite, FS_CardinalityType
    <3> QED
      BY <2>2, <3>1, <3>2 DEF Blocking
  <2> QED
    BY <2>1, <2>2
<1> QED
  BY <1>2, <1>4, <1>5, <1>6, CountsNamed, CountsAfter

\* GetWork moves a task from the list to a worker that had none, and the tasks it
\* drops on the way do not block shutdown.
LEMMA FoundCounts ==
  ASSUME TypeOK, OrderInv, CountsAgree, NEW w \in Workers, NEW t \in Tasks, GetWorkFound(w, t)
  PROVE  CountsAgree'
<1> DEFINE skipped == {u \in pending_tasks_ : /\ Runnable(u) /\ Skippable(u)
                                              /\ posted[u].ticket < posted[t].ticket}
<1>1. /\ t \in pending_tasks_ /\ t \notin skipped /\ skipped \in SUBSET pending_tasks_
      /\ \A u \in skipped : ~IsBlocking(u)
  BY DEF GetWorkFound, Wanted, Skippable, IsBlocking
<1>2. /\ pending_tasks_' = pending_tasks_ \ (skipped \cup {t})
      /\ pending_task_count_' = pending_task_count_ - Cardinality(skipped) - 1
      /\ blocking_shutdown_pending_task_count_' =
           blocking_shutdown_pending_task_count_ - Blocking(posted[t].behavior)
      /\ blocking_shutdown_thread_count_' =
           blocking_shutdown_thread_count_ + Blocking(posted[t].behavior)
      /\ UNCHANGED <<waiting_thread_count_, posted>>
      /\ worker[w].pc = "GetWork"
  BY DEF GetWorkFound, At
<1>3. /\ worker'[w].task = t /\ worker'[w].pc = "Signal"
      /\ \A v \in Workers : v # w => worker'[v] = worker[v]
  BY DEF GetWorkFound, TypeOK
<1> HIDE DEF skipped
<1>4. ~Busy(w) /\ Busy(w)' /\ \A v \in Workers : v # w => Busy(v)' = Busy(v)
  BY <1>2, <1>3, ConstantsAssumption DEF ConstantsAssumption, OrderInv, TaskPoints, Busy
<1>5. Cardinality(pending_tasks_') = Cardinality(pending_tasks_) - Cardinality(skipped) - 1
  <2>1. IsFiniteSet(pending_tasks_) /\ IsFiniteSet(pending_tasks_ \ skipped)
    BY Finite
  <2>2. Cardinality(pending_tasks_ \ skipped) = Cardinality(pending_tasks_) - Cardinality(skipped)
    BY <1>1, <2>1, SomeLess
  <2>3. t \in pending_tasks_ \ skipped /\ pending_tasks_' = (pending_tasks_ \ skipped) \ {t}
    BY <1>1, <1>2
  <2> QED
    BY <2>1, <2>2, <2>3, OneLess
<1>6. WaitingThreads' = WaitingThreads
  BY <1>2, <1>3 DEF WaitingThreads
<1>7. /\ Cardinality(BlockedPending) \in Nat /\ Cardinality(BlockedThreads) \in Nat
      /\ w \notin BlockedThreads
  BY <1>4, Finite, FS_CardinalityType DEF BlockedThreads
<1>8. CASE posted[t].behavior = "BLOCK_SHUTDOWN"
  <2>1. BlockedPending' = BlockedPending \ {t} /\ t \in BlockedPending
    BY <1>1, <1>2, <1>8 DEF BlockedPending, IsBlocking
  <2>2. BlockedThreads' = BlockedThreads \cup {w}
    BY <1>2, <1>3, <1>4, <1>8 DEF BlockedThreads
  <2>3. Cardinality(BlockedPending') = Cardinality(BlockedPending) - 1
    BY <2>1, Finite, OneLess
  <2>4. Cardinality(BlockedThreads') = Cardinality(BlockedThreads) + 1
    BY <1>7, <2>2, Finite, OneMore
  <2> QED
    BY <1>2, <1>5, <1>6, <1>8, <2>3, <2>4, CountsNamed, CountsAfter DEF Blocking
<1>9. CASE posted[t].behavior # "BLOCK_SHUTDOWN"
  <2>1. BlockedPending' = BlockedPending
    BY <1>1, <1>2, <1>9 DEF BlockedPending, IsBlocking
  <2>2. BlockedThreads' = BlockedThreads
    BY <1>2, <1>3, <1>4, <1>9 DEF BlockedThreads
  <2> QED
    BY <1>2, <1>5, <1>6, <1>7, <1>9, <2>1, <2>2, CountsNamed, CountsAfter DEF Blocking
<1> QED
  BY <1>8, <1>9

\* At shutdown, nothing GetWork drops from the list blocks it.
LEMMA ExitCounts ==
  ASSUME TypeOK, CountsAgree, NEW w \in Workers, GetWorkExit(w)
  PROVE  CountsAgree'
<1> DEFINE skipped == {u \in pending_tasks_ : Runnable(u)}
<1>1. skipped \in SUBSET pending_tasks_ /\ \A u \in skipped : ~IsBlocking(u)
  BY DEF GetWorkExit, Wanted, Skippable, IsBlocking
<1>2. /\ pending_tasks_' = pending_tasks_ \ skipped /\ worker[w].pc = "GetWork"
      /\ pending_task_count_' = pending_task_count_ - Cardinality(skipped)
      /\ UNCHANGED <<waiting_thread_count_, blocking_shutdown_thread_count_,
                     blocking_shutdown_pending_task_count_, posted>>
      /\ worker' = [worker EXCEPT ![w].pc = "Break", ![w].delete_these_outside_lock = skipped]
  BY DEF GetWorkExit, At
<1> HIDE DEF skipped
<1>3. /\ worker'[w].task = worker[w].task /\ worker'[w].pc = "Break"
      /\ \A v \in Workers : v # w => worker'[v] = worker[v]
  BY <1>2 DEF TypeOK, WorkerState
<1>4. Cardinality(pending_tasks_') = Cardinality(pending_tasks_) - Cardinality(skipped)
  BY <1>1, <1>2, Finite, SomeLess
<1>5. BlockedPending' = BlockedPending
  BY <1>1, <1>2 DEF BlockedPending, IsBlocking
<1>6. BlockedThreads' = BlockedThreads
  BY <1>2, <1>3 DEF BlockedThreads, Busy
<1>7. WaitingThreads' = WaitingThreads
  BY <1>2, <1>3 DEF WaitingThreads
<1> QED
  BY <1>2, <1>4, <1>5, <1>6, <1>7, CountsNamed, CountsAfter

\* The end of a task, and the two ends of a wait.
LEMMA LoopCounts ==
  ASSUME TypeOK, SequenceInv, CountsAgree, NEW w \in Workers,
         DidRunWorkerTask(w) \/ GetWorkWait(w) \/ WorkerWake(w), ~Busy(w) \/ DidRunWorkerTask(w)
  PROVE  CountsAgree'
<1> USE DEF creation, counts, tokens, clients, life, tasks
<1>1. /\ pending_tasks_' = pending_tasks_ /\ posted' = posted
      /\ UNCHANGED <<pending_task_count_, blocking_shutdown_pending_task_count_>>
  BY DEF DidRunWorkerTask, GetWorkWait, WorkerWake
<1>2. BlockedPending' = BlockedPending
  BY <1>1 DEF BlockedPending
<1>3. /\ Cardinality(BlockedThreads) \in Nat /\ Cardinality(WaitingThreads) \in Nat
  BY Finite, FS_CardinalityType
<1>4. CASE DidRunWorkerTask(w)
  <2>1. /\ worker[w].pc = "DidRun"
        /\ worker' = [worker EXCEPT ![w].pc = "GetWork", ![w].task = NoTask]
        /\ blocking_shutdown_thread_count_' =
             blocking_shutdown_thread_count_ - Blocking(posted[worker[w].task].behavior)
        /\ waiting_thread_count_' = waiting_thread_count_
    BY <1>4 DEF DidRunWorkerTask, At
  <2>2. /\ worker'[w].task = NoTask /\ worker'[w].pc = "GetWork" /\ Busy(w)
        /\ \A v \in Workers : v # w => worker'[v] = worker[v]
    BY <2>1 DEF TypeOK, WorkerState, SequenceInv, TaskPoints
  <2>3. WaitingThreads' = WaitingThreads
    BY <2>1, <2>2 DEF WaitingThreads
  <2>4. CASE posted[worker[w].task].behavior = "BLOCK_SHUTDOWN"
    <3>1. BlockedThreads' = BlockedThreads \ {w} /\ w \in BlockedThreads
      BY <1>1, <2>2, <2>4 DEF BlockedThreads, Busy
    <3>2. Cardinality(BlockedThreads') = Cardinality(BlockedThreads) - 1
      BY <3>1, Finite, OneLess
    <3> QED
      BY <1>1, <1>2, <2>1, <2>3, <2>4, <3>2, CountsNamed, CountsAfter DEF Blocking
  <2>5. CASE posted[worker[w].task].behavior # "BLOCK_SHUTDOWN"
    <3>1. BlockedThreads' = BlockedThreads
      BY <1>1, <2>2, <2>5 DEF BlockedThreads, Busy
    <3> QED
      BY <1>1, <1>2, <1>3, <2>1, <2>3, <2>5, <3>1, CountsNamed, CountsAfter DEF Blocking
  <2> QED
    BY <2>4, <2>5
<1>5. CASE GetWorkWait(w)
  <2>1. /\ worker[w].pc = "GetWork" /\ worker' = [worker EXCEPT ![w].pc = "Wait"]
        /\ waiting_thread_count_' = waiting_thread_count_ + 1
        /\ blocking_shutdown_thread_count_' = blocking_shutdown_thread_count_
    BY <1>5 DEF GetWorkWait, At
  <2>2. BlockedThreads' = BlockedThreads
    BY <1>1, <2>1, MoveEffect DEF BlockedThreads, Busy
  <2>3. WaitingThreads' = WaitingThreads \cup {w} /\ w \notin WaitingThreads
    BY <2>1, MoveEffect DEF WaitingThreads
  <2>4. Cardinality(WaitingThreads') = Cardinality(WaitingThreads) + 1
    BY <2>3, Finite, OneMore
  <2> QED
    BY <1>1, <1>2, <2>1, <2>2, <2>4, CountsNamed, CountsAfter
<1>6. CASE WorkerWake(w)
  <2>1. /\ worker[w].pc = "Woken" /\ worker' = [worker EXCEPT ![w].pc = "GetWork"]
        /\ waiting_thread_count_' = waiting_thread_count_ - 1
        /\ blocking_shutdown_thread_count_' = blocking_shutdown_thread_count_
    BY <1>6 DEF WorkerWake, At
  <2>2. BlockedThreads' = BlockedThreads
    BY <1>1, <2>1, MoveEffect DEF BlockedThreads, Busy
  <2>3. WaitingThreads' = WaitingThreads \ {w} /\ w \in WaitingThreads
    <3>1. /\ worker'[w].pc = "GetWork"
          /\ \A v \in Workers : v # w => worker'[v] = worker[v]
      BY <2>1, MoveEffect
    <3> QED
      BY <2>1, <3>1 DEF WaitingThreads
  <2>4. Cardinality(WaitingThreads') = Cardinality(WaitingThreads) - 1
    BY <2>3, Finite, OneLess
  <2> QED
    BY <1>1, <1>2, <2>1, <2>2, <2>4, CountsNamed, CountsAfter
<1> QED
  BY <1>4, <1>5, <1>6

\* What was proved of the sequences, the threads and the order of tasks.
PoolInv == TypeOK /\ SequenceInv /\ CreationInv /\ OrderInv

\* PoolInv holds in every state.
LEMMA PoolInvariant == Spec => []PoolInv
<1>1. Init => OrderInv
  BY DEF Init, OrderInv, Busy, NoWorker
<1>2. TypeOK /\ SequenceInv /\ CreationInv /\ OrderInv => PoolInv
  BY DEF PoolInv
<1> QED
  BY <1>1, <1>2, NextOrder, TypeCorrect, SequenceInvariant, CreationInvariant, PTL DEF Spec

\* Every step keeps the counters right.
LEMMA NextCounts == PoolInv /\ CountsAgree /\ [Next]_vars => CountsAgree'
<1> SUFFICES ASSUME PoolInv, CountsAgree, [Next]_vars PROVE CountsAgree'
  OBVIOUS
<1> USE DEF PoolInv
<1>1. \A w \in Workers : GetWorkWait(w) \/ WorkerWake(w) => ~Busy(w)
  BY DEF OrderInv, GetWorkWait, WorkerWake, At, TaskPoints
<1> QED
  BY <1>1, StepKinds, QuietCounts, PostCounts, FoundCounts, ExitCounts, LoopCounts

\* The counters that CanShutdown, IsIdle and the creation of threads trust are the
\* numbers of pending and running tasks and of waiting threads, for any number of
\* workers and tasks; size_t in the code, they never fall below zero.
THEOREM CountersRight == Spec => []CountsAgree
<1>1. Init => CountsAgree
  <2> SUFFICES ASSUME Init PROVE CountsAgree
    OBVIOUS
  <2>0. \A w \in Workers : worker[w].task = NoTask /\ worker[w].pc = "none"
    BY DEF Init, NoWorker
  <2>1. BlockedPending = {} /\ BlockedThreads = {} /\ WaitingThreads = {} /\ pending_tasks_ = {}
    BY <2>0 DEF Init, BlockedPending, BlockedThreads, WaitingThreads, Busy
  <2> QED
    BY <2>1, CountsNamed, FS_EmptySet DEF Init
<1> QED
  BY <1>1, NextCounts, PoolInvariant, PTL DEF Spec

-----------------------------------------------------------------------------
(* Shutdown *)

\* Once Shutdown was allowed to return, it stays allowed.
ShutdownInv ==
  /\ shutdown # "none" => shutdown_called_
  /\ shutdown = "returned" => CanShutdown

\* The counters at zero: nothing blocks shutdown.
LEMMA NothingBlocks ==
  ASSUME TypeOK, CountsAgree, CanShutdown
  PROVE  BlockedPending = {} /\ BlockedThreads = {}
BY Finite, FS_EmptySet, CountsNamed DEF CanShutdown

\* Nobody can post any more, and no task that blocks shutdown is left to be taken,
\* so that CanShutdown stays true.
LEMMA CanShutdownStays ==
  ASSUME PoolInv, CountsAgree, [Next]_vars, shutdown_called_, CanShutdown
  PROVE  CanShutdown'
<1> USE DEF PoolInv, creation, counts, tokens, clients, life, tasks
<1>1. CASE Quiet
  BY <1>1 DEF Quiet, CanShutdown
<1>2. ASSUME NEW t \in Tasks, Posting(t) PROVE FALSE
  BY <1>2 DEF Posting, PostTask
<1>3. ASSUME NEW w \in Workers, NEW t \in Tasks, GetWorkFound(w, t) PROVE CanShutdown'
  <2>1. posted[t].behavior # "BLOCK_SHUTDOWN"
    BY <1>3, NothingBlocks DEF GetWorkFound, Wanted, BlockedPending
  <2>2. PrepareToStartAdditionalThreadIfHelpful = 0
    BY DEF PrepareToStartAdditionalThreadIfHelpful
  <2>3. /\ thread_being_created_' = (thread_being_created_
                                       \/ PrepareToStartAdditionalThreadIfHelpful # 0)
        /\ blocking_shutdown_pending_task_count_' =
             blocking_shutdown_pending_task_count_ - Blocking(posted[t].behavior)
        /\ blocking_shutdown_thread_count_' =
             blocking_shutdown_thread_count_ + Blocking(posted[t].behavior)
    BY <1>3 DEF GetWorkFound
  <2>4. ~thread_being_created_'
    BY <2>2, <2>3 DEF CanShutdown
  <2>5. blocking_shutdown_pending_task_count_' = 0 /\ blocking_shutdown_thread_count_' = 0
    <3>1. blocking_shutdown_pending_task_count_ = 0 /\ blocking_shutdown_thread_count_ = 0
      BY DEF CanShutdown
    <3>2. Blocking(posted[t].behavior) = 0
      BY <2>1 DEF Blocking
    <3> QED
      BY <2>3, <3>1, <3>2
  <2> QED
    BY <2>4, <2>5 DEF CanShutdown
<1>4. ASSUME NEW w \in Workers, DidRunWorkerTask(w) PROVE CanShutdown'
  <2>1. posted[worker[w].task].behavior # "BLOCK_SHUTDOWN"
    BY <1>4, NothingBlocks DEF DidRunWorkerTask, At, SequenceInv, TaskPoints, BlockedThreads
  <2>2. UNCHANGED <<thread_being_created_, blocking_shutdown_pending_task_count_>>
    BY <1>4 DEF DidRunWorkerTask
  <2>3. blocking_shutdown_thread_count_' = 0
    <3>1. blocking_shutdown_thread_count_ = 0
      BY DEF CanShutdown
    <3>2. Blocking(posted[worker[w].task].behavior) = 0
      BY <2>1 DEF Blocking
    <3> QED
      BY <1>4, <3>1, <3>2 DEF DidRunWorkerTask
  <2> QED
    BY <2>2, <2>3 DEF CanShutdown
<1>5. ASSUME NEW w \in Workers, GetWorkExit(w) \/ GetWorkWait(w) \/ WorkerWake(w)
      PROVE  CanShutdown'
  <2>1. UNCHANGED <<thread_being_created_, blocking_shutdown_pending_task_count_,
                    blocking_shutdown_thread_count_>>
    BY <1>5 DEF GetWorkExit, GetWorkWait, WorkerWake
  <2> QED
    BY <2>1 DEF CanShutdown
<1> QED
  BY <1>1, <1>2, <1>3, <1>4, <1>5, StepKinds

\* Only Shutdown itself returns from Shutdown.
LEMMA ShutdownSteps ==
  ASSUME TypeOK, [Next]_vars
  PROVE  \/ ShutdownCall \/ ShutdownWait
         \/ /\ shutdown_called_' = shutdown_called_
            /\ shutdown' = shutdown \/ (shutdown = "waiting" /\ shutdown' = "woken")
<1> USE DEF creation, counts, tokens, clients, life, tasks
<1>1. ASSUME NEW w \in Workers, WorkerStep(w)
      PROVE  /\ shutdown_called_' = shutdown_called_
             /\ shutdown' = shutdown \/ (shutdown = "waiting" /\ shutdown' = "woken")
  BY <1>1 DEF WorkerStep, ThreadLoopEnter, GetWorkFound, GetWorkWait, GetWorkExit,
     ThreadLoopBreak, WorkerSignal, WorkerClear, WorkerCreate, WorkerRun, DidRunWorkerTask,
     WorkerWake, WorkerExitSignal, WorkerExitShutdown, ReleaseWorkerRef
<1>2. ASSUME NEW c \in Callers, PostStep(c) \/ CallStep(c)
      PROVE  shutdown_called_' = shutdown_called_ /\ shutdown' = shutdown
  BY <1>2 DEF PostStep, CallStep, PostTaskRejected, PostTask, PostTaskCreate, PostTaskSignal
<1>3. CASE GetSequenceToken \/ (\E name \in Names : GetNamedSequenceToken(name))
           \/ SignalHasWorkForTesting \/ (\E f \in Flushers : FlushForTesting(f))
           \/ ReleaseClientRef \/ DestroyInner
  BY <1>3 DEF GetSequenceToken, GetNamedSequenceToken, SignalHasWorkForTesting,
     FlushForTesting, ReleaseClientRef, DestroyInner
<1>4. CASE SpuriousWake
  BY <1>4 DEF SpuriousWake
<1>5. CASE UNCHANGED vars
  BY <1>5 DEF vars
<1> QED
  BY <1>1, <1>2, <1>3, <1>4, <1>5 DEF Next

\* Every step keeps what Shutdown relied on.
LEMMA NextShutdown == PoolInv /\ CountsAgree /\ ShutdownInv /\ [Next]_vars => ShutdownInv'
<1> SUFFICES ASSUME PoolInv, CountsAgree, ShutdownInv, [Next]_vars PROVE ShutdownInv'
  OBVIOUS
<1> USE DEF PoolInv, creation, counts
<1>1. CASE ShutdownCall \/ ShutdownWait
  <2>1. shutdown_called_' /\ (shutdown' = "returned" => CanShutdown)
    BY <1>1 DEF ShutdownCall, ShutdownWait, ShutdownInv
  <2>2. CanShutdown => CanShutdown'
    BY <1>1 DEF ShutdownCall, ShutdownWait, CanShutdown
  <2> QED
    BY <2>1, <2>2 DEF ShutdownInv
<1>2. CASE /\ shutdown_called_' = shutdown_called_
           /\ shutdown' = shutdown \/ (shutdown = "waiting" /\ shutdown' = "woken")
  BY <1>2, CanShutdownStays DEF ShutdownInv
<1> QED
  BY <1>1, <1>2, ShutdownSteps

\* ShutdownInv holds in every state.
LEMMA ShutdownInvariant == Spec => []ShutdownInv
<1>1. Init => ShutdownInv
  BY DEF Init, ShutdownInv
<1> QED
  BY <1>1, NextShutdown, PoolInvariant, CountersRight, PTL DEF Spec

\* When Shutdown has returned, no BLOCK_SHUTDOWN task waits or runs and no thread
\* is on its way that would not be joined, then and ever after.
THEOREM ShutdownWaits == Spec => []ShutdownBlocks
<1>1. PoolInv /\ CountsAgree /\ ShutdownInv => ShutdownBlocks
  <2> SUFFICES ASSUME PoolInv, CountsAgree, ShutdownInv, shutdown = "returned"
               PROVE  /\ Coming = {}
                      /\ \A t \in Tasks : posted[t].behavior = "BLOCK_SHUTDOWN"
                                            => status[t] \notin {"pending", "running"}
    BY DEF ShutdownBlocks
  <2>1. CanShutdown
    BY DEF ShutdownInv
  <2>2. BlockedPending = {} /\ BlockedThreads = {}
    BY <2>1, NothingBlocks DEF PoolInv
  <2>3. Coming = {}
    BY <2>1, CreationOneThread DEF PoolInv, OneThreadAtATime, CanShutdown
  <2>4. ASSUME NEW t \in Tasks, posted[t].behavior = "BLOCK_SHUTDOWN", status[t] = "running"
        PROVE  FALSE
    <3>1. PICK w \in Workers : worker[w].task = t
      BY <2>4 DEF PoolInv, OrderInv
    <3>2. w \in BlockedThreads
      BY <2>4, <3>1, ConstantsAssumption DEF ConstantsAssumption, BlockedThreads, Busy
    <3> QED
      BY <2>2, <3>2
  <2>5. ASSUME NEW t \in Tasks, posted[t].behavior = "BLOCK_SHUTDOWN", status[t] = "pending"
        PROVE  FALSE
    BY <2>2, <2>5 DEF PoolInv, OrderInv, BlockedPending
  <2> QED
    BY <2>3, <2>4, <2>5
<1> QED
  BY <1>1, PoolInvariant, CountersRight, ShutdownInvariant, PTL

-----------------------------------------------------------------------------
(* FlushForTesting *)

\* A count that reaches the whole, and one that is zero.
LEMMA WholeAndEmpty ==
  ASSUME NEW P, NEW S, NEW T, IsFiniteSet(P), IsFiniteSet(T), S \subseteq T
  PROVE  Cardinality(P) = 0 /\ Cardinality(S) = Cardinality(T) <=> P = {} /\ S = T
<1>1. Cardinality(P) = 0 <=> P = {}
  BY FS_EmptySet
<1>2. Cardinality(S) = Cardinality(T) <=> S = T
  BY FS_Subset
<1> QED
  BY <1>1, <1>2

\* IsIdle counts right: the list is empty and every thread of the pool waits.
LEMMA IdleMeans ==
  ASSUME PoolInv, CountsAgree
  PROVE  IsIdle <=> pending_tasks_ = {} /\ WaitingThreads = threads_
<1>1. WaitingThreads \subseteq threads_
  BY DEF PoolInv, CreationInv, Numbered, WaitingThreads
<1> QED
  BY <1>1, WholeAndEmpty, Finite, CountsNamed DEF PoolInv, IsIdle

\* The same after a step.
LEMMA IdleAfter ==
  ASSUME PoolInv, CountsAgree, [Next]_vars, IsIdle'
  PROVE  pending_tasks_' = {} /\ WaitingThreads' = threads_'
<1>1. TypeOK' /\ CreationInv' /\ CountsAgree'
  BY NextType, NextCreation, NextCounts DEF PoolInv
<1>2. WaitingThreads' \subseteq threads_'
  BY <1>1 DEF CreationInv, Numbered, WaitingThreads
<1>3. IsFiniteSet(pending_tasks_') /\ IsFiniteSet(threads_')
  <2>1. IsFiniteSet(Workers) /\ IsFiniteSet(Tasks)
    BY FS_Interval, ConstantsAssumption DEF ConstantsAssumption, Workers
  <2> QED
    BY <1>1, <2>1, FS_Subset DEF TypeOK
<1>4. Cardinality(pending_tasks_') = 0 /\ Cardinality(WaitingThreads') = Cardinality(threads_')
  BY <1>1 DEF IsIdle, CountsAgree, WaitingThreads
<1> QED
  BY <1>2, <1>3, <1>4, WholeAndEmpty

\* The pool becomes idle where a worker starts to wait, and nowhere else.
LEMMA OnlyWaitingIdles ==
  ASSUME PoolInv, CountsAgree, [Next]_vars, ~IsIdle, IsIdle'
  PROVE  \E w \in Workers : GetWorkWait(w)
<1> USE DEF PoolInv, creation, counts, tokens, clients, life, tasks
<1>1. pending_tasks_' = {} /\ WaitingThreads' = threads_'
  BY IdleAfter
<1>2. ~(pending_tasks_ = {} /\ WaitingThreads = threads_)
  BY IdleMeans
<1>3. \A w \in Workers : worker[w].pc \notin {"none", "starting"} => w \in threads_
  BY DEF CreationInv, Numbered
<1>4. ASSUME NEW w \in Workers, w \in threads_', worker'[w].pc \notin {"Wait", "Woken"}
      PROVE  FALSE
  BY <1>1, <1>4 DEF WaitingThreads
<1>5. ~Quiet
  <2>1. ASSUME NEW w \in Workers, ThreadLoopEnter(w) PROVE FALSE
    <3>1. w \in threads_' /\ worker'[w].pc = "GetWork"
      BY <2>1 DEF ThreadLoopEnter, TypeOK, WorkerState
    <3> QED
      BY <1>4, <3>1
  <2>2. Quiet => pending_tasks_' = pending_tasks_ /\ WaitingThreads' = WaitingThreads
    BY DEF Quiet, WorkersQuiet, QuietMove, WaitingThreads
  <2> QED
    BY <1>1, <1>2, <2>1, <2>2 DEF Quiet
<1>6. \A t \in Tasks : ~Posting(t)
  BY <1>1 DEF Posting, PostTask
<1>7. ASSUME NEW w \in Workers, NEW t \in Tasks, GetWorkFound(w, t) PROVE FALSE
  <2>1. worker[w].pc = "GetWork" /\ threads_' = threads_ /\ worker'[w].pc = "Signal"
    BY <1>7 DEF GetWorkFound, At, TypeOK, WorkerState
  <2> QED
    BY <1>3, <1>4, <2>1
<1>8. ASSUME NEW w \in Workers, GetWorkExit(w) \/ DidRunWorkerTask(w) \/ WorkerWake(w) PROVE FALSE
  <2>1. /\ worker[w].pc \in {"GetWork", "DidRun", "Woken"} /\ threads_' = threads_
        /\ worker'[w].pc \in {"Break", "GetWork"}
    BY <1>8 DEF GetWorkExit, DidRunWorkerTask, WorkerWake, At, TypeOK, WorkerState
  <2> QED
    BY <1>3, <1>4, <2>1
<1> QED
  BY <1>5, <1>6, <1>7, <1>8, StepKinds

\* Only a FlushForTesting that finds the pool idle returns.
LEMMA OnlyIdleReturns ==
  ASSUME TypeOK, [Next]_vars, NEW f \in Flushers,
         flusher[f] # "returned", flusher'[f] = "returned"
  PROVE  IsIdle
<1> USE DEF creation, counts, tokens, clients, life, tasks
<1>1. flusher' # flusher
  OBVIOUS
<1>2. ASSUME NEW g \in Flushers, flusher' = [flusher EXCEPT ![g] = "woken"] PROVE FALSE
  BY <1>2 DEF TypeOK
<1>3. ASSUME NEW w \in Workers, WorkerStep(w) PROVE FALSE
  <2>1. GetWorkWait(w)
    BY <1>1, <1>3 DEF WorkerStep, ThreadLoopEnter, GetWorkFound, GetWorkExit,
       ThreadLoopBreak, WorkerSignal, WorkerClear, WorkerCreate, WorkerRun, DidRunWorkerTask,
       WorkerWake, WorkerExitSignal, WorkerExitShutdown, ReleaseWorkerRef
  <2> QED
    BY <1>1, <1>2, <2>1 DEF GetWorkWait, SignalIsIdle
<1>4. ASSUME NEW c \in Callers, PostStep(c) \/ CallStep(c) PROVE FALSE
  BY <1>1, <1>4 DEF PostStep, CallStep, PostTaskRejected, PostTask, PostTaskCreate,
     PostTaskSignal
<1>5. ~(\/ GetSequenceToken \/ SignalHasWorkForTesting \/ ShutdownCall \/ ShutdownWait
        \/ ReleaseClientRef \/ DestroyInner \/ \E name \in Names : GetNamedSequenceToken(name))
  BY <1>1 DEF GetSequenceToken, GetNamedSequenceToken, SignalHasWorkForTesting, ShutdownCall,
     ShutdownWait, ReleaseClientRef, DestroyInner
<1>6. ~SpuriousWake
  BY <1>1, <1>2 DEF SpuriousWake
<1>7. ~UNCHANGED vars
  BY <1>1 DEF vars
<1>8. PICK g \in Flushers : FlushForTesting(g)
  BY <1>3, <1>4, <1>5, <1>6, <1>7 DEF Next
<1> QED
  BY <1>8 DEF FlushForTesting, TypeOK

\* In an idle pool no task waits or runs.
LEMMA IdleIsEmpty ==
  ASSUME PoolInv, CountsAgree, IsIdle, NEW t \in Tasks
  PROVE  status[t] \notin {"pending", "running"}
<1> USE DEF PoolInv
<1>1. pending_tasks_ = {} /\ WaitingThreads = threads_
  BY IdleMeans
<1>2. status[t] # "pending"
  BY <1>1 DEF OrderInv
<1>3. ASSUME status[t] = "running" PROVE FALSE
  <2>1. PICK w \in Workers : worker[w].task = t
    BY <1>3 DEF OrderInv
  <2>2. worker[w].pc \in TaskPoints
    BY <2>1, ConstantsAssumption DEF ConstantsAssumption, OrderInv, Busy
  <2>3. w \in threads_ /\ w \notin WaitingThreads
    BY <2>2 DEF TaskPoints, CreationInv, Numbered, WaitingThreads
  <2> QED
    BY <1>1, <2>3
<1> QED
  BY <1>2, <1>3

\* Only a worker that starts to wait makes the pool idle, so that GetWork's own
\* signal is enough; and FlushForTesting returns at a moment when no task waits or
\* runs.
THEOREM FlushReturnsIdle == Spec => FlushIdle
<1> DEFINE OnlyByWaiting ==
             ~IsIdle /\ IsIdle'
               => \E w \in Workers : At(w, "GetWork") /\ worker'[w].pc = "Wait"
           ReturnsIdle ==
             \A f \in Flushers :
               flusher[f] # "returned" /\ flusher'[f] = "returned"
                 => \A t \in Tasks : status[t] \notin {"pending", "running"}
<1>1. PoolInv /\ CountsAgree /\ [Next]_vars => OnlyByWaiting
  <2> SUFFICES ASSUME PoolInv, CountsAgree, [Next]_vars, ~IsIdle, IsIdle'
               PROVE  \E w \in Workers : At(w, "GetWork") /\ worker'[w].pc = "Wait"
    OBVIOUS
  <2>1. PICK w \in Workers : GetWorkWait(w)
    BY OnlyWaitingIdles
  <2>2. At(w, "GetWork") /\ worker'[w].pc = "Wait"
    BY <2>1 DEF GetWorkWait, PoolInv, TypeOK, WorkerState
  <2> QED
    BY <2>2
<1>2. PoolInv /\ CountsAgree /\ [Next]_vars => ReturnsIdle
  BY OnlyIdleReturns, IdleIsEmpty DEF PoolInv
<1>3. PoolInv /\ CountsAgree /\ [Next]_vars => [OnlyByWaiting /\ ReturnsIdle]_vars
  BY <1>1, <1>2
<1> HIDE DEF OnlyByWaiting, ReturnsIdle
<1>4. Spec => [][OnlyByWaiting /\ ReturnsIdle]_vars
  BY <1>3, PoolInvariant, CountersRight, PTL DEF Spec
<1> QED
  BY <1>4, PTL DEF FlushIdle, OnlyByWaiting, ReturnsIdle
-----------------------------------------------------------------------------
(* The end of the pool: no task is left behind *)

\* Where a worker will come to GetWork again, and where it is on its way out.
LoopPoints == {"GetWork", "Signal", "Clear", "Create", "Run", "DidRun", "Wait", "Woken"}
ExitPoints == {"Break", "ExitSignal", "ExitShutdown", "Release", "Joinable"}

\* Workers leave at shutdown only.
LeaveLate == \A w \in Workers : worker[w].pc \in ExitPoints => shutdown_called_

\* A task in the list has a worker that will look at it.
ListWatched ==
  pending_tasks_ # {} =>
    thread_being_created_ \/ \E w \in Workers : worker[w].pc \in LoopPoints

\* A task taken off the list unrun is in the hands of a worker that destroys it.
DoomedHeld ==
  \A t \in Tasks : status[t] = "doomed" =>
    \E w \in Workers : worker[w].pc \in {"Signal", "Clear", "Break"} /\ t \in Doomed(w)

\* A token in use is the token of a task in hand.
TokensHeld == \A k \in current_sequences_ : \E w \in Workers : Busy(w) /\ Token(w) = k

LeftInv == LeaveLate /\ ListWatched /\ DoomedHeld /\ TokensHeld

\* Who may still use the pool: nobody after its deletion has begun.
LifeInv ==
  /\ ~client_ref => shutdown = "returned" /\ \A p \in Posters : call[p] = NoCall
  /\ deletion # "none" => ~client_ref /\ \A w \in Workers : ~HoldsRef(w)
  /\ \A w \in Workers : call[w] # NoCall => worker[w].pc \in {"Run", "Clear"}
\* The steps that are not quiet are steps of one worker, under the lock.
LEMMA LoopEffect ==
  ASSUME TypeOK, NEW w \in Workers,
         \/ \E t \in Tasks : GetWorkFound(w, t)
         \/ GetWorkExit(w) \/ GetWorkWait(w) \/ DidRunWorkerTask(w) \/ WorkerWake(w)
  PROVE  /\ worker[w].pc \in {"GetWork", "DidRun", "Woken"}
         /\ \A v \in Workers : v # w => worker'[v] = worker[v]
         /\ worker'[w].pc \in IF GetWorkExit(w) THEN {"Break"} ELSE {"Signal", "Wait", "GetWork"}
         /\ shutdown_called_' = shutdown_called_
         /\ threads_' = threads_ /\ posted' = posted
         /\ thread_being_created_ => thread_being_created_'
<1> USE DEF creation, counts, tokens, clients, life, tasks, At
<1>1. CASE \E t \in Tasks : GetWorkFound(w, t)
  <2>1. PICK t \in Tasks : GetWorkFound(w, t)
    BY <1>1
  <2>2. thread_being_created_' = (thread_being_created_
                                    \/ PrepareToStartAdditionalThreadIfHelpful # 0)
    BY <2>1 DEF GetWorkFound
  <2>3. /\ worker[w].pc = "GetWork" /\ worker'[w].pc = "Signal"
        /\ \A v \in Workers : v # w => worker'[v] = worker[v]
        /\ UNCHANGED <<shutdown_called_, threads_, posted>>
    BY <2>1 DEF GetWorkFound, TypeOK
  <2>4. ~GetWorkExit(w)
    BY <2>3 DEF GetWorkExit, TypeOK, WorkerState
  <2> QED
    BY <2>2, <2>3, <2>4
<1>2. CASE GetWorkExit(w)
  BY <1>2 DEF GetWorkExit, TypeOK, WorkerState
<1>3. CASE GetWorkWait(w)
  BY <1>3 DEF GetWorkWait, GetWorkExit, TypeOK, WorkerState
<1>4. CASE DidRunWorkerTask(w)
  BY <1>4 DEF DidRunWorkerTask, GetWorkExit, TypeOK, WorkerState
<1>5. CASE WorkerWake(w)
  BY <1>5 DEF WorkerWake, GetWorkExit, TypeOK, WorkerState
<1> QED
  BY <1>1, <1>2, <1>3, <1>4, <1>5

\* Workers leave in GetWorkExit, which tests shutdown_called_.
LEMMA NextLeaveLate == TypeOK /\ CreationInv /\ LeaveLate /\ [Next]_vars => LeaveLate'
<1> SUFFICES ASSUME TypeOK, CreationInv, LeaveLate, [Next]_vars PROVE LeaveLate'
  OBVIOUS
<1>1. CASE Quiet
  BY <1>1 DEF Quiet, WorkersQuiet, QuietMove, LeaveLate, ExitPoints
<1>2. ASSUME NEW t \in Tasks, Posting(t) PROVE LeaveLate'
  BY <1>2 DEF Posting, PostTask, LeaveLate
<1>3. ASSUME NEW w \in Workers,
             \/ \E t \in Tasks : GetWorkFound(w, t)
             \/ GetWorkExit(w) \/ GetWorkWait(w) \/ DidRunWorkerTask(w) \/ WorkerWake(w)
      PROVE  LeaveLate'
  <2>1. GetWorkExit(w) => shutdown_called_
    BY DEF GetWorkExit
  <2> QED
    BY <1>3, <2>1, LoopEffect DEF LeaveLate, ExitPoints
<1> QED
  BY <1>1, <1>2, <1>3, StepKinds

\* A token comes into use with its task, and a task given up gives its token up.
LEMMA NextTokensHeld == PoolInv /\ TokensHeld /\ [Next]_vars => TokensHeld'
<1> SUFFICES ASSUME PoolInv, TokensHeld, [Next]_vars, NEW k \in current_sequences_'
             PROVE  \E v \in Workers : Busy(v)' /\ Token(v)' = k
  BY DEF TokensHeld
<1> USE DEF PoolInv
<1>1. CASE Quiet
  BY <1>1 DEF Quiet, WorkersQuiet, TokensHeld, Busy, Token
<1>2. ASSUME NEW t \in Tasks, Posting(t)
      PROVE  \E v \in Workers : Busy(v)' /\ Token(v)' = k
  <2>1. /\ status[t] = "unposted" /\ worker' = worker /\ current_sequences_' = current_sequences_
        /\ \A u \in Tasks \ {t} : posted'[u] = posted[u]
    BY <1>2 DEF Posting, PostTask, TypeOK
  <2>2. PICK v \in Workers : Busy(v) /\ Token(v) = k
    BY <2>1 DEF TokensHeld
  <2>3. worker[v].task \in Tasks \ {t}
    <3>1. worker[v].task \in Tasks \cup {NoTask}
      BY DEF TypeOK, WorkerState
    <3> QED
      BY <2>1, <2>2, <3>1 DEF SequenceInv, Busy
  <2> QED
    BY <2>1, <2>2, <2>3 DEF Busy, Token
<1>3. ASSUME NEW w \in Workers, NEW t \in Tasks, GetWorkFound(w, t)
      PROVE  \E v \in Workers : Busy(v)' /\ Token(v)' = k
  <2>1. /\ worker'[w].task = t /\ posted' = posted /\ worker[w].pc = "GetWork"
        /\ \A v \in Workers : v # w => worker'[v] = worker[v]
        /\ current_sequences_' \subseteq current_sequences_ \cup {posted[t].token}
    BY <1>3 DEF GetWorkFound, TypeOK, At
  <2>2. CASE k = posted[t].token
    BY <2>1, <2>2, ConstantsAssumption DEF ConstantsAssumption, Busy, Token
  <2>3. CASE k \in current_sequences_
    <3>1. PICK v \in Workers : Busy(v) /\ Token(v) = k
      BY <2>3 DEF TokensHeld
    <3>2. v # w
      BY <2>1, <3>1 DEF OrderInv, TaskPoints
    <3> QED
      BY <2>1, <3>1, <3>2 DEF Busy, Token
  <2> QED
    BY <2>1, <2>2, <2>3
<1>4. ASSUME NEW w \in Workers, DidRunWorkerTask(w)
      PROVE  \E v \in Workers : Busy(v)' /\ Token(v)' = k
  <2>1. /\ posted' = posted
        /\ \A v \in Workers : v # w => worker'[v] = worker[v]
        /\ current_sequences_' = current_sequences_ \ {Token(w)}
    BY <1>4 DEF DidRunWorkerTask, EraseSequence, TypeOK, Token, tasks
  <2>2. PICK v \in Workers : Busy(v) /\ Token(v) = k
    BY <2>1 DEF TokensHeld
  <2> QED
    BY <2>1, <2>2 DEF Busy, Token
<1>5. ASSUME NEW w \in Workers, GetWorkExit(w) \/ GetWorkWait(w) \/ WorkerWake(w)
      PROVE  \E v \in Workers : Busy(v)' /\ Token(v)' = k
  <2>1. /\ posted' = posted /\ current_sequences_' = current_sequences_
        /\ \A v \in Workers : worker'[v].task = worker[v].task
    BY <1>5 DEF GetWorkExit, GetWorkWait, WorkerWake, TypeOK, WorkerState, tasks
  <2> QED
    BY <2>1 DEF TokensHeld, Busy, Token
<1> QED
  BY <1>1, <1>2, <1>3, <1>4, <1>5, StepKinds
\* The closures a scan collects stay with the worker until it destroys them.
LEMMA NextDoomedHeld == PoolInv /\ DoomedHeld /\ [Next]_vars => DoomedHeld'
<1> SUFFICES ASSUME PoolInv, DoomedHeld, [Next]_vars, NEW t \in Tasks, status'[t] = "doomed"
             PROVE  \E v \in Workers : /\ worker'[v].pc \in {"Signal", "Clear", "Break"}
                                       /\ t \in Doomed(v)'
  BY DEF DoomedHeld
<1> DEFINE Held == \E v \in Workers : /\ worker'[v].pc \in {"Signal", "Clear", "Break"}
                                      /\ t \in Doomed(v)'
<1> USE DEF PoolInv
<1>1. CASE Quiet
  <2>1. status[t] = "doomed" /\ \A w \in Workers : t \in Doomed(w) => t \in Doomed(w)'
    BY <1>1 DEF Quiet, WorkersQuiet
  <2>2. PICK w \in Workers : worker[w].pc \in {"Signal", "Clear", "Break"} /\ t \in Doomed(w)
    BY <2>1 DEF DoomedHeld
  <2>3. worker'[w].pc \in {"Signal", "Clear", "Break"}
    <3>1. worker'[w].pc # worker[w].pc => worker[w].pc = "Signal"
      BY <1>1, <2>1, <2>2 DEF Quiet, WorkersQuiet
    <3>2. worker'[w].pc = worker[w].pc \/ QuietMove(worker[w].pc, worker'[w].pc)
      BY <1>1 DEF Quiet, WorkersQuiet
    <3> QED
      BY <2>2, <3>1, <3>2 DEF QuietMove
  <2> QED
    BY <2>1, <2>2, <2>3
<1>2. ASSUME NEW u \in Tasks, Posting(u) PROVE Held
  <2>1. worker' = worker /\ status[t] = "doomed"
    BY <1>2 DEF Posting, PostTask, TypeOK
  <2> QED
    BY <2>1 DEF DoomedHeld, Doomed
<1>3. ASSUME NEW w \in Workers,
             \/ \E u \in Tasks : GetWorkFound(w, u)
             \/ GetWorkExit(w) \/ GetWorkWait(w) \/ DidRunWorkerTask(w) \/ WorkerWake(w)
      PROVE  Held
  <2>1. CASE status[t] = "doomed"
    <3>1. PICK v \in Workers : worker[v].pc \in {"Signal", "Clear", "Break"} /\ t \in Doomed(v)
      BY <2>1 DEF DoomedHeld
    <3>2. v # w /\ worker'[v] = worker[v]
      BY <1>3, <3>1, LoopEffect
    <3> QED
      BY <3>1, <3>2 DEF Doomed
  <2>2. CASE status[t] # "doomed"
    <3>1. ~(GetWorkWait(w) \/ DidRunWorkerTask(w) \/ WorkerWake(w))
      BY <2>2 DEF GetWorkWait, DidRunWorkerTask, WorkerWake, tasks
    <3>2. ASSUME NEW u \in Tasks, GetWorkFound(w, u)
          PROVE  worker'[w].pc = "Signal" /\ t \in Doomed(w)'
      BY <2>2, <3>2 DEF GetWorkFound, Doomed, TypeOK
    <3>3. ASSUME GetWorkExit(w)
          PROVE  worker'[w].pc = "Break" /\ t \in Doomed(w)'
      BY <2>2, <3>3 DEF GetWorkExit, Doomed, TypeOK, WorkerState
    <3> QED
      BY <1>3, <3>1, <3>2, <3>3
  <2> QED
    BY <2>1, <2>2
<1> QED
  BY <1>1, <1>2, <1>3, StepKinds

\* A post to a pool with no worker in its loop makes a thread: nobody has left yet,
\* no token is in use, and so the task just posted can be run.
LEMMA PostCreates ==
  ASSUME PoolInv, CountsAgree, LeaveLate, TokensHeld, NEW t \in Tasks, Posting(t),
         \A w \in Workers : worker[w].pc \notin LoopPoints
  PROVE  thread_being_created_'
<1> USE DEF PoolInv
<1>1. PICK c \in Callers, behavior \in Behaviors, name \in Names \cup {NoName} :
        \E token \in 0 .. last_sequence_number_ : PostTask(c, t, name, token, behavior)
  BY DEF Posting
<1>2. /\ ~shutdown_called_ /\ t \in pending_tasks_' /\ current_sequences_' = current_sequences_
      /\ thread_being_created_' = (thread_being_created_
                                     \/ PrepareToStartAdditionalThreadIfHelpful # 0)
  BY <1>1 DEF PostTask
<1>3. SUFFICES ASSUME ~thread_being_created_
               PROVE  PrepareToStartAdditionalThreadIfHelpful # 0
  BY <1>2
<1>4. \A w \in Workers : worker[w].pc = "none"
  <2>1. \A w \in Workers : worker[w].pc \in WorkerPoints
    BY DEF TypeOK, WorkerState
  <2>2. \A w \in Workers : worker[w].pc \notin ExitPoints
    BY <1>2 DEF LeaveLate
  <2>3. \A w \in Workers : worker[w].pc # "starting"
    BY <1>3 DEF CreationInv, OneComing, Starting
  <2> QED
    BY <2>1, <2>2, <2>3 DEF WorkerPoints, LoopPoints, ExitPoints
<1>5. threads_ = {} /\ WaitingThreads = {}
  BY <1>4 DEF TypeOK, CreationInv, Numbered, WaitingThreads
<1>6. Cardinality(threads_) = 0 /\ waiting_thread_count_ = 0
  BY <1>5, FS_EmptySet, CountsNamed
<1>7. current_sequences_' = {}
  BY <1>2, <1>4 DEF TokensHeld, OrderInv, TaskPoints
<1>8. IsSequenceTokenRunnable(posted'[t].token, current_sequences_')
  BY <1>7 DEF IsSequenceTokenRunnable
<1>9. Cardinality(threads_) < max_threads_
  BY <1>6, ConstantsAssumption DEF ConstantsAssumption
<1>10. PrepareToStartAdditionalThreadIfHelpful = Cardinality(threads_) + 1
  BY <1>2, <1>3, <1>6, <1>8, <1>9 DEF PrepareToStartAdditionalThreadIfHelpful
<1> QED
  BY <1>6, <1>10

\* A worker leaves behind only tasks whose sequence another worker is busy with.
LEMMA NextListWatched ==
  ASSUME PoolInv, CountsAgree, LeftInv, [Next]_vars
  PROVE  ListWatched'
<1> SUFFICES ASSUME pending_tasks_' # {}, ~thread_being_created_'
             PROVE  \E v \in Workers : worker'[v].pc \in LoopPoints
  BY DEF ListWatched
<1> USE DEF PoolInv
<1>1. CASE Quiet
  <2>1. CASE \E w \in Workers : ThreadLoopEnter(w)
    BY <2>1 DEF ThreadLoopEnter, TypeOK, WorkerState, LoopPoints
  <2>2. CASE thread_being_created_' = thread_being_created_
    <3>1. PICK v \in Workers : worker[v].pc \in LoopPoints
      BY <1>1, <2>2 DEF Quiet, LeftInv, ListWatched
    <3>2. worker'[v].pc = worker[v].pc \/ QuietMove(worker[v].pc, worker'[v].pc)
      BY <1>1 DEF Quiet, WorkersQuiet
    <3> QED
      BY <3>1, <3>2 DEF QuietMove, LoopPoints
  <2> QED
    BY <1>1, <2>1, <2>2 DEF Quiet
<1>2. ASSUME NEW t \in Tasks, Posting(t)
      PROVE  \E v \in Workers : worker'[v].pc \in LoopPoints
  <2>1. worker' = worker
    BY <1>2 DEF Posting, PostTask
  <2> QED
    BY <1>2, <2>1, PostCreates DEF LeftInv
<1>3. ASSUME NEW w \in Workers,
             \/ \E t \in Tasks : GetWorkFound(w, t)
             \/ GetWorkWait(w) \/ DidRunWorkerTask(w) \/ WorkerWake(w),
             ~GetWorkExit(w)
      PROVE  worker'[w].pc \in LoopPoints
  BY <1>3, LoopEffect DEF LoopPoints
<1>4. ASSUME NEW w \in Workers, GetWorkExit(w)
      PROVE  \E v \in Workers : worker'[v].pc \in LoopPoints
  <2>1. PICK t \in pending_tasks_ : ~Runnable(t)
    BY <1>4 DEF GetWorkExit
  <2>2. posted[t].token \in current_sequences_
    BY <2>1 DEF Runnable, IsSequenceTokenRunnable
  <2>3. PICK v \in Workers : Busy(v) /\ Token(v) = posted[t].token
    BY <2>2 DEF LeftInv, TokensHeld
  <2>4. worker[v].pc \in TaskPoints
    BY <2>3 DEF OrderInv
  <2>5. v # w
    BY <1>4, <2>4 DEF GetWorkExit, At, TaskPoints
  <2>6. worker'[v] = worker[v]
    BY <1>4, <2>5, LoopEffect
  <2> QED
    BY <2>4, <2>6 DEF TaskPoints, LoopPoints
<1> QED
  BY <1>1, <1>2, <1>3, <1>4, StepKinds

\* Nothing is left behind, at every moment.
LEMMA LeftInvariant == Spec => []LeftInv
<1>1. Init => LeftInv
  BY DEF Init, LeftInv, LeaveLate, ListWatched, DoomedHeld, TokensHeld, NoWorker, ExitPoints
<1>2. PoolInv /\ CountsAgree /\ LeftInv /\ [Next]_vars => LeftInv'
  BY NextLeaveLate, NextTokensHeld, NextDoomedHeld, NextListWatched DEF LeftInv, PoolInv
<1> QED
  BY <1>1, <1>2, PoolInvariant, CountersRight, PTL DEF Spec
-----------------------------------------------------------------------------
(* The end of the pool: it outlives its workers *)

\* Who lets go of the pool, who begins its deletion, and who begins a post.
LEMMA LifeSteps ==
  ASSUME TypeOK, [Next]_vars
  PROVE  /\ client_ref' = client_ref \/ ReleaseClientRef
         /\ \/ deletion' = deletion \/ ReleaseClientRef \/ DestroyInner
            \/ \E w \in Workers : ReleaseWorkerRef(w)
         /\ \A c \in Callers : \/ call'[c] = call[c] \/ call'[c] = NoCall
                               \/ CanPost(c) /\ worker' = worker /\ UNCHANGED life
<1> USE DEF creation, counts, tokens, clients, life, tasks
<1>1. ASSUME NEW w \in Workers, WorkerStep(w)
      PROVE  /\ client_ref' = client_ref /\ call' = call
             /\ deletion' = deletion \/ ReleaseWorkerRef(w)
  BY <1>1 DEF WorkerStep, ThreadLoopEnter, GetWorkFound, GetWorkWait, GetWorkExit,
     ThreadLoopBreak, WorkerSignal, WorkerClear, WorkerCreate, WorkerRun, DidRunWorkerTask,
     WorkerWake, WorkerExitSignal, WorkerExitShutdown, ReleaseWorkerRef
<1>2. ASSUME NEW c \in Callers, CallStep(c) \/ \E t \in Tasks : PostTaskRejected(c, t)
      PROVE  /\ UNCHANGED life
             /\ call' = call \/ call' = [call EXCEPT ![c] = NoCall]
  BY <1>2 DEF CallStep, PostTaskRejected, PostTaskCreate, PostTaskSignal
<1>3. ASSUME NEW c \in Callers, NEW t \in Tasks, NEW name, NEW token, NEW behavior,
             PostTask(c, t, name, token, behavior)
      PROVE  /\ UNCHANGED life /\ CanPost(c) /\ worker' = worker
             /\ \A d \in Callers : d # c => call'[d] = call[d]
  BY <1>3 DEF PostTask, TypeOK
<1>4. CASE GetSequenceToken \/ (\E name \in Names : GetNamedSequenceToken(name))
           \/ SignalHasWorkForTesting \/ ShutdownCall \/ ShutdownWait
           \/ (\E f \in Flushers : FlushForTesting(f)) \/ SpuriousWake
  BY <1>4 DEF GetSequenceToken, GetNamedSequenceToken, SignalHasWorkForTesting,
     ShutdownCall, ShutdownWait, FlushForTesting, SpuriousWake
<1>5. CASE ReleaseClientRef \/ DestroyInner
  BY <1>5 DEF ReleaseClientRef, DestroyInner
<1>6. CASE UNCHANGED vars
  BY <1>6 DEF vars
<1>7. ASSUME NEW c \in Callers, PostStep(c) \/ CallStep(c)
      PROVE  /\ UNCHANGED life
             /\ \A d \in Callers : \/ call'[d] = call[d] \/ call'[d] = NoCall
                                   \/ CanPost(d) /\ worker' = worker
  <2>1. CASE CallStep(c) \/ \E t \in Tasks : PostTaskRejected(c, t)
    BY <1>2, <2>1 DEF TypeOK
  <2>2. CASE \E t \in Tasks, behavior \in Behaviors :
               \/ \E token \in 0 .. last_sequence_number_ :
                    PostTask(c, t, NoName, token, behavior)
               \/ \E name \in Names : PostTask(c, t, name, 0, behavior)
    BY <1>3, <2>2
  <2> QED
    BY <1>7, <2>1, <2>2 DEF PostStep
<1> QED
  BY <1>1, <1>4, <1>5, <1>6, <1>7 DEF Next

\* A pool that may shut down starts no thread.
LEMMA NobodyStarts ==
  ASSUME PoolInv, CountsAgree, [Next]_vars, shutdown_called_, CanShutdown, NEW w \in Workers,
         ~HoldsRef(w)
  PROVE  ~HoldsRef(w)'
<1> USE DEF PoolInv
<1>1. worker[w].pc \in {"none", "Joinable"}
  BY DEF HoldsRef
<1>2. worker'[w].pc # "starting"
  <2>1. CanShutdown'
    BY CanShutdownStays
  <2>2. CreationInv'
    BY NextCreation
  <2> QED
    BY <2>1, <2>2 DEF CanShutdown, CreationInv, OneComing, Starting
<1>3. CASE Quiet
  <2>1. worker'[w].pc = worker[w].pc \/ QuietMove(worker[w].pc, worker'[w].pc)
    BY <1>3 DEF Quiet, WorkersQuiet
  <2> QED
    BY <1>1, <1>2, <2>1 DEF QuietMove, HoldsRef
<1>4. ASSUME NEW t \in Tasks, Posting(t) PROVE ~HoldsRef(w)'
  BY <1>4 DEF Posting, PostTask
<1>5. ASSUME NEW v \in Workers,
             \/ \E t \in Tasks : GetWorkFound(v, t)
             \/ GetWorkExit(v) \/ GetWorkWait(v) \/ DidRunWorkerTask(v) \/ WorkerWake(v)
      PROVE  ~HoldsRef(w)'
  BY <1>1, <1>5, LoopEffect DEF HoldsRef
<1> QED
  BY <1>3, <1>4, <1>5, StepKinds

\* Shutdown, once returned, has returned for good.
LEMMA ReturnedStays ==
  ASSUME TypeOK, [Next]_vars, shutdown = "returned"
  PROVE  shutdown' = "returned"
BY ShutdownSteps DEF ShutdownCall, ShutdownWait

\* A worker with a post in progress stays where it is.
LEMMA PostingStays ==
  ASSUME PoolInv, [Next]_vars, NEW w \in Workers, call[w] # NoCall,
         worker[w].pc \in {"Run", "Clear"}
  PROVE  worker'[w].pc = worker[w].pc
<1> USE DEF PoolInv
<1>1. CASE Quiet
  BY <1>1 DEF Quiet, WorkersQuiet
<1>2. ASSUME NEW t \in Tasks, Posting(t) PROVE worker' = worker
  BY <1>2 DEF Posting, PostTask
<1>3. ASSUME NEW v \in Workers,
             \/ \E t \in Tasks : GetWorkFound(v, t)
             \/ GetWorkExit(v) \/ GetWorkWait(v) \/ DidRunWorkerTask(v) \/ WorkerWake(v)
      PROVE  worker'[w] = worker[w]
  BY <1>3, LoopEffect
<1> QED
  BY <1>1, <1>2, <1>3, StepKinds

\* The references keep the pool alive for everyone who uses it.
LEMMA LifeInvariant == Spec => []LifeInv
<1>1. Init => LifeInv
  BY DEF Init, LifeInv, Callers
<1>2. PoolInv /\ CountsAgree /\ ShutdownInv /\ LifeInv /\ [Next]_vars => LifeInv'
  <2> SUFFICES ASSUME PoolInv, CountsAgree, ShutdownInv, LifeInv, [Next]_vars PROVE LifeInv'
    OBVIOUS
  <2> USE DEF PoolInv
  <2>1. ASSUME ~client_ref'
        PROVE  shutdown' = "returned" /\ \A p \in Posters : call'[p] = NoCall
    <3>1. CASE ReleaseClientRef
      BY <3>1 DEF ReleaseClientRef, clients
    <3>2. CASE client_ref' = client_ref
      <4>1. ~client_ref /\ shutdown = "returned" /\ \A p \in Posters : call[p] = NoCall
        BY <2>1, <3>2 DEF LifeInv
      <4>2. \A p \in Posters : p \in Callers /\ ~CanPost(p)
        BY <4>1, ConstantsAssumption DEF ConstantsAssumption, CanPost, Callers, Workers
      <4> QED
        BY <4>1, <4>2, LifeSteps, ReturnedStays
    <3> QED
      BY <3>1, <3>2, LifeSteps
  <2>2. ASSUME deletion' # "none"
        PROVE  ~client_ref' /\ \A w \in Workers : ~HoldsRef(w)'
    <3>1. CASE deletion # "none"
      <4>1. ~client_ref /\ \A w \in Workers : ~HoldsRef(w)
        BY <3>1 DEF LifeInv
      <4>2. shutdown_called_ /\ CanShutdown
        BY <4>1 DEF LifeInv, ShutdownInv
      <4>3. ~client_ref'
        BY <4>1, LifeSteps DEF ReleaseClientRef
      <4> QED
        BY <4>1, <4>2, <4>3, NobodyStarts
    <3>2. CASE deletion = "none" /\ ReleaseClientRef
      BY <2>2, <3>2 DEF ReleaseClientRef, HoldsRef
    <3>3. CASE deletion = "none" /\ \E w \in Workers : ReleaseWorkerRef(w)
      <4>1. PICK w \in Workers : ReleaseWorkerRef(w)
        BY <3>3
      <4>2. ~client_ref /\ client_ref' = client_ref /\ \A v \in Workers \ {w} : ~HoldsRef(v)
        BY <2>2, <3>3, <4>1 DEF ReleaseWorkerRef
      <4>3. worker'[w].pc = "Joinable" /\ \A v \in Workers \ {w} : worker'[v] = worker[v]
        BY <4>1 DEF ReleaseWorkerRef, TypeOK, WorkerState
      <4> QED
        BY <4>2, <4>3 DEF HoldsRef
    <3> QED
      BY <2>2, <3>1, <3>2, <3>3, LifeSteps DEF DestroyInner
  <2>3. ASSUME NEW w \in Workers, call'[w] # NoCall
        PROVE  worker'[w].pc \in {"Run", "Clear"}
    <3>1. w \in Callers /\ w \notin Posters
      BY ConstantsAssumption DEF ConstantsAssumption, Callers, Workers
    <3>2. CASE CanPost(w) /\ worker' = worker
      BY <3>1, <3>2 DEF CanPost
    <3>3. CASE call'[w] = call[w]
      BY <2>3, <3>3, PostingStays DEF LifeInv
    <3> QED
      BY <2>3, <3>1, <3>2, <3>3, LifeSteps
  <2> QED
    BY <2>1, <2>2, <2>3 DEF LifeInv
<1> QED
  BY <1>1, <1>2, PoolInvariant, CountersRight, ShutdownInvariant, PTL DEF Spec

\* The end of the pool is clean.  When the last worker has left its loop nothing
\* is in the list, in hand or waiting to be destroyed; and the deletion of the pool
\* begins when no worker is in ThreadLoop and no post is in progress.
THEOREM PoolEndsClean == Spec => []EndsClean
<1>1. PoolInv /\ LeftInv => NothingLeft
  <2> SUFFICES ASSUME PoolInv, LeftInv, shutdown_called_, ~thread_being_created_,
                      \A w \in Workers : worker[w].pc \in {"none", "Release", "Joinable"}
               PROVE  /\ pending_tasks_ = {}
                      /\ \A t \in Tasks : status[t] \notin {"pending", "running", "doomed"}
    BY DEF NothingLeft
  <2> USE DEF PoolInv
  <2>1. pending_tasks_ = {}
    BY DEF LeftInv, ListWatched, LoopPoints
  <2>2. \A t \in Tasks : status[t] # "pending"
    BY <2>1 DEF OrderInv
  <2>3. \A t \in Tasks : status[t] # "doomed"
    BY DEF LeftInv, DoomedHeld
  <2>4. \A t \in Tasks : status[t] # "running"
    BY ConstantsAssumption DEF ConstantsAssumption, OrderInv, Busy, TaskPoints
  <2> QED
    BY <2>1, <2>2, <2>3, <2>4
<1>2. LifeInv => PoolOutlivesWorkers
  <2> SUFFICES ASSUME LifeInv, deletion # "none"
               PROVE  /\ \A w \in Workers : worker[w].pc \in {"none", "Joinable"}
                      /\ \A c \in Callers : call[c] = NoCall
    BY DEF PoolOutlivesWorkers, At
  <2>1. ~client_ref /\ \A w \in Workers : worker[w].pc \in {"none", "Joinable"}
    BY DEF LifeInv, HoldsRef
  <2>2. \A p \in Posters : call[p] = NoCall
    BY <2>1 DEF LifeInv
  <2>3. \A w \in Workers : call[w] = NoCall
    BY <2>1 DEF LifeInv
  <2> QED
    BY <2>1, <2>2, <2>3 DEF Callers
<1> QED
  BY <1>1, <1>2, PoolInvariant, LeftInvariant, LifeInvariant, PTL DEF EndsClean
=============================================================================
