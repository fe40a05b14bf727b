------------------------- MODULE SequencedWorkerPool -------------------------
(***************************************************************************)
(* base/threading/sequenced_worker_pool.cc: a pool that creates its worker *)
(* threads lazily, runs tasks with the same sequence token one after the   *)
(* other, and shuts down once the BLOCK_SHUTDOWN tasks are done.           *)
(*                                                                         *)
(* lock_ is a variable: a step made under it either is one whole critical  *)
(* section or leaves lock_ with the thread that goes on.  What the code    *)
(* does outside the lock (signalling, creating threads, destroying         *)
(* closures, running tasks) are steps of their own.  A condition variable  *)
(* is the set of threads blocked in it; Signal releases one of them, and a *)
(* released thread has to take lock_ again.                                *)
(***************************************************************************)
EXTENDS Integers, FiniteSets

CONSTANTS
  Tasks,        \* identities of the posts
  Posters,      \* threads outside the pool that post
  Flushers,     \* threads that call FlushForTesting
  Names,        \* names for GetNamedSequenceToken
  Behaviors,    \* the WorkerShutdown values in use
  max_threads_,
  MaxTokens,    \* bound: sequence tokens handed out
  Spurious,     \* whether wake-ups nobody asked for happen
  NoThread, NoTask, NoName

WorkerShutdown == {"CONTINUE_ON_SHUTDOWN", "SKIP_ON_SHUTDOWN", "BLOCK_SHUTDOWN"}

ASSUME ConstantsAssumption ==
  /\ IsFiniteSet(Tasks)
  /\ NoTask \notin Tasks
  /\ NoName \notin Names
  /\ max_threads_ \in Nat \ {0}
  /\ MaxTokens \in Nat
  /\ Behaviors \subseteq WorkerShutdown
  /\ Spurious \in BOOLEAN
  /\ Posters \cap (1 .. max_threads_) = {}
  /\ NoThread \notin 1 .. max_threads_

\* Thread numbers as PrepareToStartAdditionalThreadIfHelpful gives them.
Workers == 1 .. max_threads_
Callers == Posters \cup Workers

VARIABLES
  lock_,
  threads_,                               \* the workers inserted so far
  thread_being_created_,
  waiting_thread_count_,
  blocking_shutdown_thread_count_,
  pending_tasks_,                         \* the list; posted[t].ticket orders it
  pending_task_count_,
  blocking_shutdown_pending_task_count_,
  current_sequences_,
  shutdown_called_,
  last_sequence_number_,
  named_sequence_tokens_,                 \* 0: no token yet
  worker,                                 \* where each worker is in ThreadLoop
  call,                                   \* where each caller is in PostTask
  shutdown,                               \* where Shutdown() is
  flusher,                                \* where each FlushForTesting() is
  client_ref,                             \* the client's reference to the pool
  deletion,                               \* OnDestruct and ~Inner
  posted,                                 \* the SequencedTask of each post
  status                                  \* history: what became of each post

counts  == <<waiting_thread_count_, blocking_shutdown_thread_count_,
             pending_task_count_, blocking_shutdown_pending_task_count_>>
tokens  == <<last_sequence_number_, named_sequence_tokens_>>
tasks   == <<pending_tasks_, posted, status>>
creation == <<threads_, thread_being_created_>>
clients == <<shutdown, flusher>>
life    == <<client_ref, deletion>>
vars    == <<lock_, creation, counts, current_sequences_, shutdown_called_,
             tokens, worker, call, clients, life, tasks>>

-----------------------------------------------------------------------------
(* Types *)

WorkerPoints == {"none", "starting", "GetWork", "Signal", "Clear", "Create",
                 "Run", "DidRun", "Wait", "Woken", "Break", "ExitSignal",
                 "ExitShutdown", "Release", "Joinable"}
WorkerState == [pc : WorkerPoints, task : Tasks \cup {NoTask},
                delete_these_outside_lock : SUBSET Tasks,
                new_thread_id : 0 .. max_threads_]
SequencedTask == [token : 0 .. MaxTokens, behavior : WorkerShutdown,
                  ticket : Nat]
CallState == [pc : {"none", "create", "signal"}, thread : 0 .. max_threads_]
WaitPoints == {"none", "checked", "waiting", "woken", "returned"}

NoWorker == [pc |-> "none", task |-> NoTask, delete_these_outside_lock |-> {},
             new_thread_id |-> 0]
NoCall   == [pc |-> "none", thread |-> 0]

At(w, pc) == worker[w].pc = pc
Free      == lock_ = NoThread

-----------------------------------------------------------------------------
(* Helpers of Inner, called under the lock *)

\* Variant: the token in use is not looked up.
IsSequenceTokenRunnable_Unchecked(token, sequences) == TRUE

IsSequenceTokenRunnable(token, sequences) == token = 0 \/ token \notin sequences

IsIdle == pending_task_count_ = 0 /\ waiting_thread_count_ = Cardinality(threads_)

\* Variant: a thread on its way is forgotten.
CanShutdown_NoCreation ==
  /\ blocking_shutdown_thread_count_ = 0
  /\ blocking_shutdown_pending_task_count_ = 0

CanShutdown ==
  /\ ~thread_being_created_
  /\ blocking_shutdown_thread_count_ = 0
  /\ blocking_shutdown_pending_task_count_ = 0

\* What a task adds to the blocking_shutdown_ counters.
\* Variant: every task that is not CONTINUE_ON_SHUTDOWN counts, although only
\* BLOCK_SHUTDOWN tasks are certain to be run.
Blocking_Skip(behavior) == IF behavior # "CONTINUE_ON_SHUTDOWN" THEN 1 ELSE 0

Blocking(behavior) == IF behavior = "BLOCK_SHUTDOWN" THEN 1 ELSE 0

\* Variants: a second thread may be created while one is on its way; its number
\* is one too high.
PrepareToStartAdditionalThreadIfHelpful_Twice ==
  IF /\ ~shutdown_called_
     /\ Cardinality(threads_) < max_threads_
     /\ waiting_thread_count_ = 0
     /\ pending_tasks_' # {}
  THEN Cardinality(threads_) + 1
  ELSE 0

PrepareToStartAdditionalThreadIfHelpful_OffByOne ==
  IF /\ ~shutdown_called_ /\ ~thread_being_created_
     /\ Cardinality(threads_) < max_threads_
     /\ waiting_thread_count_ = 0
     /\ pending_tasks_' # {}
  THEN Cardinality(threads_) + 2
  ELSE 0

\* PrepareToStartAdditionalThreadIfHelpful at the end of a critical section:
\* the number of the thread to create, or 0.
PrepareToStartAdditionalThreadIfHelpful ==
  IF /\ ~shutdown_called_
     /\ ~thread_being_created_
     /\ Cardinality(threads_) < max_threads_
     /\ waiting_thread_count_ = 0
     /\ \E t \in pending_tasks_' :
          IsSequenceTokenRunnable(posted'[t].token, current_sequences_')
  THEN Cardinality(threads_) + 1
  ELSE 0

\* Variant: the signal is lost.
SignalHasWork_Lost(f) == worker' = f

\* has_work_cv_.Signal() by a thread that leaves the workers as f: one blocked
\* worker is released, if there is one.
SignalHasWork(f) ==
  IF \E w \in Workers : f[w].pc = "Wait"
  THEN \E w \in Workers : /\ f[w].pc = "Wait"
                          /\ worker' = [f EXCEPT ![w].pc = "Woken"]
  ELSE worker' = f

\* is_idle_cv_.Signal()
SignalIsIdle ==
  IF \E f \in Flushers : flusher[f] = "waiting"
  THEN \E f \in Flushers : /\ flusher[f] = "waiting"
                           /\ flusher' = [flusher EXCEPT ![f] = "woken"]
  ELSE UNCHANGED flusher

\* FinishStartingAdditionalThread: new Worker(...) starts the thread, which
\* holds a reference to the pool from here on.
FinishStartingAdditionalThread(f, n) == worker' = [f EXCEPT ![n].pc = "starting"]

-----------------------------------------------------------------------------
(* Tokens *)

GetSequenceToken ==
  /\ client_ref
  /\ last_sequence_number_ < MaxTokens
  /\ last_sequence_number_' = last_sequence_number_ + 1
  /\ UNCHANGED <<lock_, creation, counts, current_sequences_, shutdown_called_,
                 named_sequence_tokens_, worker, call, clients, life, tasks>>

\* LockedGetNamedTokenID: the token the name has, or a new one for it.
LockedGetNamedTokenID(name) ==
  IF named_sequence_tokens_[name] # 0
  THEN UNCHANGED tokens
  ELSE /\ last_sequence_number_ < MaxTokens
       /\ last_sequence_number_' = last_sequence_number_ + 1
       /\ named_sequence_tokens_' =
            [named_sequence_tokens_ EXCEPT ![name] = last_sequence_number_ + 1]

GetNamedSequenceToken(name) ==
  /\ client_ref
  /\ Free
  /\ LockedGetNamedTokenID(name)
  /\ UNCHANGED <<lock_, creation, counts, current_sequences_, shutdown_called_,
                 worker, call, clients, life, tasks>>

-----------------------------------------------------------------------------
(* PostTask: by client threads, by running tasks, and by the destructors of  *)
(* the closures a worker clears outside the lock                             *)

CanPost(c) ==
  /\ call[c].pc = "none"
  /\ \/ c \in Posters /\ client_ref
     \/ c \in Workers /\ worker[c].pc \in {"Run", "Clear"}

PostTaskRejected(c, t) ==
  /\ CanPost(c)
  /\ Free
  /\ shutdown_called_
  /\ status[t] = "unposted"
  /\ status' = [status EXCEPT ![t] = "rejected"]
  /\ UNCHANGED <<lock_, creation, counts, current_sequences_, shutdown_called_,
                 tokens, worker, call, clients, life, pending_tasks_, posted>>

\* The critical section of PostTask.  Without a name the caller gives a token
\* it got before, or 0.
PostTask(c, t, name, token, behavior) ==
  /\ CanPost(c)
  /\ Free
  /\ ~shutdown_called_
  /\ status[t] = "unposted"
  /\ IF name = NoName THEN UNCHANGED tokens ELSE LockedGetNamedTokenID(name)
  /\ status' = [status EXCEPT ![t] = "pending"]
  /\ posted' = [posted EXCEPT ![t] =
       [token |-> IF name = NoName THEN token ELSE named_sequence_tokens_'[name],
        behavior |-> behavior,
        ticket |-> 1 + Cardinality({u \in Tasks : posted[u].ticket > 0})]]
  /\ pending_tasks_' = pending_tasks_ \cup {t}
  /\ pending_task_count_' = pending_task_count_ + 1
  /\ blocking_shutdown_pending_task_count_' =
       blocking_shutdown_pending_task_count_
         + Blocking(behavior)
  /\ UNCHANGED current_sequences_
  /\ LET n == PrepareToStartAdditionalThreadIfHelpful IN
     /\ thread_being_created_' = (thread_being_created_ \/ n # 0)
     /\ call' = [call EXCEPT ![c] =
                   [pc |-> IF n # 0 THEN "create" ELSE "signal", thread |-> n]]
  /\ UNCHANGED <<lock_, threads_, waiting_thread_count_,
                 blocking_shutdown_thread_count_, shutdown_called_, worker,
                 clients, life>>

\* Outside the lock: start the additional thread ...
PostTaskCreate(c) ==
  /\ call[c].pc = "create"
  /\ FinishStartingAdditionalThread(worker, call[c].thread)
  /\ call' = [call EXCEPT ![c] = NoCall]
  /\ UNCHANGED <<lock_, creation, counts, current_sequences_, shutdown_called_,
                 tokens, clients, life, tasks>>

\* ... or signal an existing one.
PostTaskSignal(c) ==
  /\ call[c].pc = "signal"
  /\ SignalHasWork(worker)
  /\ call' = [call EXCEPT ![c] = NoCall]
  /\ UNCHANGED <<lock_, creation, counts, current_sequences_, shutdown_called_,
                 tokens, clients, life, tasks>>

SignalHasWorkForTesting ==
  /\ Spurious
  /\ client_ref
  /\ SignalHasWork(worker)
  /\ UNCHANGED <<lock_, creation, counts, current_sequences_, shutdown_called_,
                 tokens, call, clients, life, tasks>>

-----------------------------------------------------------------------------
(* ThreadLoop *)

\* The new thread takes the lock and enters itself into threads_.
ThreadLoopEnter(w) ==
  /\ At(w, "starting")
  /\ Free
  /\ lock_' = w
  /\ thread_being_created_' = FALSE
  /\ threads_' = threads_ \cup {w}
  /\ worker' = [worker EXCEPT ![w].pc = "GetWork"]
  /\ UNCHANGED <<counts, current_sequences_, shutdown_called_, tokens, call,
                 clients, life, tasks>>

\* What GetWork's scan finds in the list.
Runnable(t)  == IsSequenceTokenRunnable(posted[t].token, current_sequences_)
Skippable(t) == shutdown_called_ /\ posted[t].behavior # "BLOCK_SHUTDOWN"
Wanted       == {t \in pending_tasks_ : Runnable(t) /\ ~Skippable(t)}

\* Variant: the list is searched from the back.
FirstInList_Back(t) == \A u \in Wanted : posted[u].ticket <= posted[t].ticket

\* The scan goes through the list from the front.
FirstInList(t) == \A u \in Wanted : posted[t].ticket <= posted[u].ticket

\* GetWork finds a task; runnable tasks before it that shutdown lets go leave
\* the list.  WillRunWorkerTask, and the lock is released.
GetWorkFound(w, t) ==
  LET skipped == {u \in pending_tasks_ : /\ Runnable(u) /\ Skippable(u)
                                         /\ posted[u].ticket < posted[t].ticket}
      token   == posted[t].token IN
  /\ At(w, "GetWork") /\ lock_ = w
  /\ t \in Wanted
  /\ FirstInList(t)
  /\ pending_tasks_' = pending_tasks_ \ (skipped \cup {t})
  /\ pending_task_count_' = pending_task_count_ - Cardinality(skipped) - 1
  /\ blocking_shutdown_pending_task_count_' =
       blocking_shutdown_pending_task_count_ - Blocking(posted[t].behavior)
  /\ blocking_shutdown_thread_count_' =
       blocking_shutdown_thread_count_ + Blocking(posted[t].behavior)
  /\ current_sequences_' = IF token = 0 THEN current_sequences_
                           ELSE current_sequences_ \cup {token}
  /\ status' = [u \in Tasks |-> IF u = t THEN "running"
                                ELSE IF u \in skipped THEN "doomed"
                                ELSE status[u]]
  /\ UNCHANGED posted
  /\ LET n == PrepareToStartAdditionalThreadIfHelpful IN
     /\ thread_being_created_' = (thread_being_created_ \/ n # 0)
     /\ worker' = [worker EXCEPT ![w] =
                     [pc |-> "Signal", task |-> t,
                      delete_these_outside_lock |-> skipped,
                      new_thread_id |-> n]]
  /\ lock_' = NoThread
  /\ UNCHANGED <<threads_, waiting_thread_count_, shutdown_called_, tokens,
                 call, clients, life>>

\* GetWork finds nothing and the pool goes on: wait for has_work_cv_.
GetWorkWait(w) ==
  /\ At(w, "GetWork") /\ lock_ = w
  /\ Wanted = {}
  /\ ~shutdown_called_
  /\ waiting_thread_count_' = waiting_thread_count_ + 1
  /\ IF pending_task_count_ = 0 /\ waiting_thread_count_' = Cardinality(threads_)
     THEN SignalIsIdle
     ELSE UNCHANGED flusher
  /\ worker' = [worker EXCEPT ![w].pc = "Wait"]
  /\ lock_' = NoThread
  /\ UNCHANGED <<creation, blocking_shutdown_thread_count_, pending_task_count_,
                 blocking_shutdown_pending_task_count_, current_sequences_,
                 shutdown_called_, tokens, call, shutdown, life, tasks>>

\* GetWork finds nothing to run and the pool is shutting down: every runnable
\* task is taken off the list, and the loop is left with the lock held.
GetWorkExit(w) ==
  LET skipped == {u \in pending_tasks_ : Runnable(u)} IN
  /\ At(w, "GetWork") /\ lock_ = w
  /\ Wanted = {}
  /\ shutdown_called_
  /\ pending_tasks_' = pending_tasks_ \ skipped
  /\ pending_task_count_' = pending_task_count_ - Cardinality(skipped)
  /\ status' = [u \in Tasks |-> IF u \in skipped THEN "doomed" ELSE status[u]]
  /\ worker' = [worker EXCEPT ![w].pc = "Break",
                              ![w].delete_these_outside_lock = skipped]
  /\ UNCHANGED <<lock_, creation, waiting_thread_count_,
                 blocking_shutdown_thread_count_,
                 blocking_shutdown_pending_task_count_, current_sequences_,
                 shutdown_called_, tokens, call, clients, life, posted>>

Deleted(w) == [t \in Tasks |-> IF t \in worker[w].delete_these_outside_lock
                               THEN "deleted" ELSE status[t]]

\* The scope of delete_these_outside_lock ends at the break, before the scope
\* of the AutoLock does.
ThreadLoopBreak(w) ==
  /\ At(w, "Break") /\ lock_ = w
  /\ status' = Deleted(w)
  /\ worker' = [worker EXCEPT ![w].pc = "ExitSignal",
                              ![w].delete_these_outside_lock = {}]
  /\ lock_' = NoThread
  /\ UNCHANGED <<creation, counts, current_sequences_, shutdown_called_, tokens,
                 call, clients, life, pending_tasks_, posted>>

\* With a task in hand, outside the lock: wake another worker ...
WorkerSignal(w) ==
  /\ At(w, "Signal")
  /\ SignalHasWork([worker EXCEPT ![w].pc = "Clear"])
  /\ UNCHANGED <<lock_, creation, counts, current_sequences_, shutdown_called_,
                 tokens, call, clients, life, tasks>>

\* ... clear the closures ...
WorkerClear(w) ==
  /\ At(w, "Clear") /\ call[w] = NoCall
  /\ status' = Deleted(w)
  /\ worker' = [worker EXCEPT
       ![w].pc = IF worker[w].new_thread_id # 0 THEN "Create" ELSE "Run",
       ![w].delete_these_outside_lock = {}]
  /\ UNCHANGED <<lock_, creation, counts, current_sequences_, shutdown_called_,
                 tokens, call, clients, life, pending_tasks_, posted>>

\* ... create the additional thread ...
WorkerCreate(w) ==
  /\ At(w, "Create")
  /\ FinishStartingAdditionalThread(
       [worker EXCEPT ![w].pc = "Run", ![w].new_thread_id = 0],
       worker[w].new_thread_id)
  /\ UNCHANGED <<lock_, creation, counts, current_sequences_, shutdown_called_,
                 tokens, call, clients, life, tasks>>

\* ... and run the task to its end.
WorkerRun(w) ==
  /\ At(w, "Run") /\ call[w] = NoCall
  /\ status' = [status EXCEPT ![worker[w].task] = "done"]
  /\ worker' = [worker EXCEPT ![w].pc = "DidRun"]
  /\ UNCHANGED <<lock_, creation, counts, current_sequences_, shutdown_called_,
                 tokens, call, clients, life, pending_tasks_, posted>>

\* Variant: the token stays in use.
EraseSequence_Kept(token) == current_sequences_' = current_sequences_

EraseSequence(token) == current_sequences_' = current_sequences_ \ {token}

\* DidRunWorkerTask, once the lock is taken again.
DidRunWorkerTask(w) ==
  LET k == posted[worker[w].task] IN
  /\ At(w, "DidRun")
  /\ Free
  /\ lock_' = w
  /\ blocking_shutdown_thread_count_' =
       blocking_shutdown_thread_count_
         - Blocking(k.behavior)
  /\ EraseSequence(k.token)
  /\ worker' = [worker EXCEPT ![w].pc = "GetWork", ![w].task = NoTask]
  /\ UNCHANGED <<creation, waiting_thread_count_, pending_task_count_,
                 blocking_shutdown_pending_task_count_, shutdown_called_, tokens,
                 call, clients, life, tasks>>

\* has_work_cv_.Wait() returns with the lock.
WorkerWake(w) ==
  /\ At(w, "Woken")
  /\ Free
  /\ lock_' = w
  /\ waiting_thread_count_' = waiting_thread_count_ - 1
  /\ worker' = [worker EXCEPT ![w].pc = "GetWork"]
  /\ UNCHANGED <<creation, blocking_shutdown_thread_count_, pending_task_count_,
                 blocking_shutdown_pending_task_count_, current_sequences_,
                 shutdown_called_, tokens, call, clients, life, tasks>>

\* Variant: the next worker is not woken.
WorkerExitSignal_None(w) ==
  /\ At(w, "ExitSignal")
  /\ worker' = [worker EXCEPT ![w].pc = "ExitShutdown"]
  /\ UNCHANGED <<lock_, creation, counts, current_sequences_, shutdown_called_,
                 tokens, call, clients, life, tasks>>

\* After the loop: wake the next worker so that it exits too ...
WorkerExitSignal(w) ==
  /\ At(w, "ExitSignal")
  /\ SignalHasWork([worker EXCEPT ![w].pc = "ExitShutdown"])
  /\ UNCHANGED <<lock_, creation, counts, current_sequences_, shutdown_called_,
                 tokens, call, clients, life, tasks>>

\* ... and can_shutdown_cv_.Signal().
WorkerExitShutdown(w) ==
  /\ At(w, "ExitShutdown")
  /\ worker' = [worker EXCEPT ![w].pc = "Release"]
  /\ shutdown' = IF shutdown = "waiting" THEN "woken" ELSE shutdown
  /\ UNCHANGED <<lock_, creation, counts, current_sequences_, shutdown_called_,
                 tokens, call, flusher, life, tasks>>

\* A condition variable may release a thread without a signal.
SpuriousWake ==
  /\ Spurious
  /\ \/ /\ \E w \in Workers : /\ At(w, "Wait")
                              /\ worker' = [worker EXCEPT ![w].pc = "Woken"]
        /\ UNCHANGED clients
     \/ /\ shutdown = "waiting" /\ shutdown' = "woken"
        /\ UNCHANGED <<worker, flusher>>
     \/ /\ \E f \in Flushers : /\ flusher[f] = "waiting"
                               /\ flusher' = [flusher EXCEPT ![f] = "woken"]
        /\ UNCHANGED <<worker, shutdown>>
  /\ UNCHANGED <<lock_, creation, counts, current_sequences_, shutdown_called_,
                 tokens, call, life, tasks>>

-----------------------------------------------------------------------------
(* Shutdown and FlushForTesting *)

\* The first critical section of Shutdown; a second call returns at once.
ShutdownCall ==
  /\ client_ref
  /\ shutdown = "none"
  /\ Free
  /\ shutdown_called_' = TRUE
  /\ SignalHasWork(worker)
  /\ shutdown' = IF CanShutdown THEN "returned" ELSE "checked"
  /\ UNCHANGED <<lock_, creation, counts, current_sequences_, tokens, call,
                 flusher, life, tasks>>

\* The second one: while (!CanShutdown()) can_shutdown_cv_.Wait().
ShutdownWait ==
  /\ shutdown \in {"checked", "woken"}
  /\ Free
  /\ shutdown' = IF CanShutdown THEN "returned" ELSE "waiting"
  /\ UNCHANGED <<lock_, creation, counts, current_sequences_, shutdown_called_,
                 tokens, worker, call, flusher, life, tasks>>

\* Variant: the condition is not tested again after the wait.
FlushForTesting_Once(f) ==
  /\ client_ref
  /\ flusher[f] \in {"none", "woken"}
  /\ Free
  /\ flusher' = [flusher EXCEPT ![f] = IF @ = "woken" \/ IsIdle THEN "returned" ELSE "waiting"]
  /\ UNCHANGED <<lock_, creation, counts, current_sequences_, shutdown_called_,
                 tokens, worker, call, shutdown, life, tasks>>

FlushForTesting(f) ==
  /\ client_ref
  /\ flusher[f] \in {"none", "woken"}
  /\ Free
  /\ flusher' = [flusher EXCEPT ![f] = IF IsIdle THEN "returned" ELSE "waiting"]
  /\ UNCHANGED <<lock_, creation, counts, current_sequences_, shutdown_called_,
                 tokens, worker, call, shutdown, life, tasks>>

-----------------------------------------------------------------------------
(* The pool's references and its destruction *)

\* A worker holds a reference from its constructor to the end of Run().
HoldsRef(w) == worker[w].pc \notin {"none", "Joinable"}

\* OnDestruct on the thread that dropped the last reference: a worker leaves
\* the deletion to the constructor's message loop, others delete at once.
OnDestruct(runsTasksOnCurrentThread) ==
  deletion' = IF runsTasksOnCurrentThread THEN "delete_soon" ELSE "delete"

\* The client lets go of the pool when none of its calls is in progress.
ReleaseClientRef ==
  /\ client_ref
  /\ shutdown = "returned"
  /\ \A p \in Posters : call[p] = NoCall
  /\ \A f \in Flushers : flusher[f] \in {"none", "returned"}
  /\ client_ref' = FALSE
  /\ IF \E w \in Workers : HoldsRef(w) THEN UNCHANGED deletion
     ELSE OnDestruct(FALSE)
  /\ UNCHANGED <<lock_, creation, counts, current_sequences_, shutdown_called_,
                 tokens, worker, call, clients, tasks>>

\* worker_pool_ = NULL at the end of Worker::Run.
ReleaseWorkerRef(w) ==
  /\ At(w, "Release")
  /\ worker' = [worker EXCEPT ![w].pc = "Joinable"]
  /\ IF client_ref \/ \E v \in Workers \ {w} : HoldsRef(v) THEN UNCHANGED deletion
     ELSE OnDestruct(w \in threads_)
  /\ UNCHANGED <<lock_, creation, counts, current_sequences_, shutdown_called_,
                 tokens, call, clients, client_ref, tasks>>

\* ~Inner joins the threads it knows, and what is left in the list is
\* destroyed with it.
DestroyInner ==
  /\ deletion \in {"delete", "delete_soon"}
  /\ \A w \in threads_ : At(w, "Joinable")
  /\ deletion' = "destroyed"
  /\ status' = [t \in Tasks |-> IF t \in pending_tasks_ THEN "deleted"
                                ELSE status[t]]
  /\ UNCHANGED <<lock_, creation, counts, current_sequences_, shutdown_called_,
                 tokens, worker, call, clients, client_ref, pending_tasks_,
                 posted>>

-----------------------------------------------------------------------------

Init ==
  /\ lock_ = NoThread
  /\ threads_ = {}
  /\ thread_being_created_ = FALSE
  /\ waiting_thread_count_ = 0
  /\ blocking_shutdown_thread_count_ = 0
  /\ pending_tasks_ = {}
  /\ pending_task_count_ = 0
  /\ blocking_shutdown_pending_task_count_ = 0
  /\ current_sequences_ = {}
  /\ shutdown_called_ = FALSE
  /\ last_sequence_number_ = 0
  /\ named_sequence_tokens_ = [n \in Names |-> 0]
  /\ worker = [w \in Workers |-> NoWorker]
  /\ call = [c \in Callers |-> NoCall]
  /\ shutdown = "none"
  /\ flusher = [f \in Flushers |-> "none"]
  /\ client_ref = TRUE
  /\ deletion = "none"
  /\ posted = [t \in Tasks |-> [token |-> 0, behavior |-> "BLOCK_SHUTDOWN",
                                ticket |-> 0]]
  /\ status = [t \in Tasks |-> "unposted"]

PostStep(c) ==
  \/ \E t \in Tasks : PostTaskRejected(c, t)
  \/ \E t \in Tasks, behavior \in Behaviors :
       \/ \E token \in 0 .. last_sequence_number_ :
            PostTask(c, t, NoName, token, behavior)
       \/ \E name \in Names : PostTask(c, t, name, 0, behavior)

CallStep(c) == PostTaskCreate(c) \/ PostTaskSignal(c)

WorkerStep(w) ==
  \/ ThreadLoopEnter(w)
  \/ \E t \in Tasks : GetWorkFound(w, t)
  \/ GetWorkWait(w) \/ GetWorkExit(w) \/ ThreadLoopBreak(w)
  \/ WorkerSignal(w) \/ WorkerClear(w) \/ WorkerCreate(w) \/ WorkerRun(w)
  \/ DidRunWorkerTask(w) \/ WorkerWake(w)
  \/ WorkerExitSignal(w) \/ WorkerExitShutdown(w) \/ ReleaseWorkerRef(w)

Next ==
  \/ GetSequenceToken
  \/ \E name \in Names : GetNamedSequenceToken(name)
  \/ \E c \in Callers : PostStep(c) \/ CallStep(c)
  \/ \E w \in Workers : WorkerStep(w)
  \/ SignalHasWorkForTesting \/ SpuriousWake
  \/ ShutdownCall \/ ShutdownWait
  \/ \E f \in Flushers : FlushForTesting(f)
  \/ ReleaseClientRef \/ DestroyInner

Spec == Init /\ [][Next]_vars

\* Threads are scheduled, the lock is granted, and tasks end.  Nobody has to
\* post, to flush or to shut down.
Fairness ==
  /\ \A w \in Workers : WF_vars(WorkerStep(w))
  /\ \A c \in Callers : WF_vars(CallStep(c))
  /\ WF_vars(ShutdownWait)
  /\ \A f \in Flushers : WF_vars(flusher[f] # "none" /\ FlushForTesting(f))
  /\ WF_vars(DestroyInner)

FairSpec == Spec /\ Fairness

-----------------------------------------------------------------------------
(* Properties *)

TaskStatus == {"unposted", "rejected", "pending", "running", "done", "doomed",
               "deleted"}

\* Every variable has its type.  That the counters, size_t in the code, do not
\* fall below zero is part of CountsAgree.
TypeOK ==
  /\ lock_ \in Workers \cup {NoThread}
  /\ threads_ \subseteq Workers
  /\ thread_being_created_ \in BOOLEAN
  /\ waiting_thread_count_ \in Int
  /\ blocking_shutdown_thread_count_ \in Int
  /\ pending_tasks_ \subseteq Tasks
  /\ pending_task_count_ \in Int
  /\ blocking_shutdown_pending_task_count_ \in Int
  /\ current_sequences_ \subseteq 1 .. MaxTokens
  /\ shutdown_called_ \in BOOLEAN
  /\ last_sequence_number_ \in 0 .. MaxTokens
  /\ named_sequence_tokens_ \in [Names -> 0 .. MaxTokens]
  /\ worker \in [Workers -> WorkerState]
  /\ call \in [Callers -> CallState]
  /\ shutdown \in WaitPoints
  /\ flusher \in [Flushers -> WaitPoints]
  /\ client_ref \in BOOLEAN
  /\ deletion \in {"none", "delete", "delete_soon", "destroyed"}
  /\ posted \in [Tasks -> SequencedTask]
  /\ status \in [Tasks -> TaskStatus]

\* A worker between GetWork and DidRunWorkerTask.
Busy(w) == worker[w].task # NoTask
Token(w) == posted[worker[w].task].token

\* "All tasks with the same token are guaranteed to execute serially": two
\* workers never have tasks with the same sequence token in hand, from
\* WillRunWorkerTask to DidRunWorkerTask.
SequenceExclusive ==
  \A v, w \in Workers :
    v # w /\ Busy(v) /\ Busy(w) /\ Token(v) # 0 => Token(v) # Token(w)

\* Tasks with the same token start in the order of their posts: GetWork never
\* takes a task while an earlier one of its sequence is waiting or running.
TakenInOrder ==
  \A t, u \in Tasks :
    /\ status[t] = "pending" /\ status'[t] = "running"
    /\ posted[t].token # 0 /\ posted[u].token = posted[t].token
    /\ u # t /\ posted[u].ticket > 0 /\ posted[u].ticket < posted[t].ticket
    => status'[u] \notin {"pending", "running"}
StartInOrder == [][TakenInOrder]_vars

\* The counters GetWork, CanShutdown and IsIdle trust agree with the list and
\* the threads they count, in every interleaving of posts, runs and shutdown.
CountsAgree ==
  /\ pending_task_count_ = Cardinality(pending_tasks_)
  /\ blocking_shutdown_pending_task_count_ = Cardinality(
       {t \in pending_tasks_ : posted[t].behavior = "BLOCK_SHUTDOWN"})
  /\ blocking_shutdown_thread_count_ = Cardinality(
       {w \in Workers : Busy(w) /\ posted[worker[w].task].behavior = "BLOCK_SHUTDOWN"})
  /\ waiting_thread_count_ = Cardinality({w \in Workers : worker[w].pc \in {"Wait", "Woken"}})

\* Threads on their way: promised to a caller of PostTask, to a worker before
\* it runs its task, or started and not yet in threads_.
Coming == {<<"caller", c>> : c \in {d \in Callers : call[d].thread # 0}}
            \cup {<<"worker", w>> : w \in {v \in Workers : worker[v].new_thread_id # 0}}
            \cup {<<"thread", w>> : w \in {v \in Workers : At(v, "starting")}}

\* Thread creation spread over two threads and an unlocked gap: at most one
\* thread is on its way, it has a number of its own within max_threads_, and
\* ThreadLoop's DCHECK(thread_being_created_) and DCHECK(result.second) hold
\* when it arrives.
OneThreadAtATime ==
  /\ thread_being_created_ <=> Coming # {}
  /\ \A x, y \in Coming : x = y
  /\ \A c \in Callers : call[c].thread # 0 => At(call[c].thread, "none")
  /\ \A w \in Workers : worker[w].new_thread_id # 0 => At(worker[w].new_thread_id, "none")
  /\ \A w \in Workers : At(w, "starting") => w \notin threads_

\* Shutdown returns only when no BLOCK_SHUTDOWN task is waiting or running and
\* no thread is on its way that would not be joined.
ShutdownBlocks ==
  shutdown = "returned" =>
    /\ Coming = {}
    /\ \A t \in Tasks : posted[t].behavior = "BLOCK_SHUTDOWN"
                          => status[t] \notin {"pending", "running"}

\* "However, tasks already in progress will be completed": SKIP_ON_SHUTDOWN
\* tasks that run when Shutdown is called have ended when it returns.
SkipCompletes ==
  shutdown = "returned" =>
    \A t \in Tasks : posted[t].behavior = "SKIP_ON_SHUTDOWN" => status[t] # "running"

\* Workers that exit at shutdown leave no task behind: an unrunnable task
\* always has a worker that will come back for it.
NothingLeft ==
  /\ shutdown_called_
  /\ \A w \in Workers : worker[w].pc \in {"none", "Release", "Joinable"}
  /\ ~thread_being_created_
  => pending_tasks_ = {} /\ \A t \in Tasks : status[t] \notin {"pending", "running", "doomed"}

\* The pool is destroyed after every worker has left ThreadLoop, and never by
\* a worker, which would join itself.
PoolOutlivesWorkers ==
  /\ deletion # "none" =>
       /\ \A w \in Workers : worker[w].pc \in {"none", "Joinable"}
       /\ \A c \in Callers : call[c] = NoCall
  /\ deletion = "delete" => \A w \in Workers : ~At(w, "Release")

\* "We really want to delete these tasks outside the lock": a worker destroys
\* the closures it collected while it does not hold lock_.
ClosuresDestroyedUnlocked ==
  [][\A w \in Workers, t \in Tasks :
       /\ t \in worker[w].delete_these_outside_lock
       /\ status[t] = "doomed" /\ status'[t] = "deleted"
       => lock_ # w]_vars

\* "This is the only time that IsIdle() can go to true": nobody but a worker
\* that starts to wait makes the pool idle, so nobody else has to signal; and
\* FlushForTesting returns at a moment when no task is waiting or running.
FlushIdle ==
  [][/\ ~IsIdle /\ IsIdle'
          => \E w \in Workers : At(w, "GetWork") /\ worker'[w].pc = "Wait"
     /\ \A f \in Flushers :
          flusher[f] # "returned" /\ flusher'[f] = "returned"
            => \A t \in Tasks : status[t] \notin {"pending", "running"}]_vars

\* A posted task is eventually run, or let go at shutdown, although signals
\* are sent outside the lock and are lost when nobody waits.
TasksServed == \A t \in Tasks : status[t] = "pending" ~> status[t] # "pending"

\* Shutdown returns.
ShutdownReturns == shutdown # "none" ~> shutdown = "returned"

\* The single signal of Shutdown makes every worker exit, one after another.
WorkersExit ==
  shutdown_called_ ~> \A w \in Workers : worker[w].pc \in {"none", "Joinable"}

\* Shutdown ends for everyone: its caller and the workers.
ShutdownEnds == ShutdownReturns /\ WorkersExit

\* The end of the pool is clean: no task is left behind, and no thread outlives
\* the object it runs on.
EndsClean == NothingLeft /\ PoolOutlivesWorkers

\* "Blocks until all pending tasks are complete".
FlushReturns == \A f \in Flushers : flusher[f] = "waiting" ~> flusher[f] = "returned"
=============================================================================
