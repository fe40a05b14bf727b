----------------------- MODULE PosixDynamicThreadPool -----------------------
(***************************************************************************)
(* base/threading/worker_pool_posix.cc: a pool that adds a thread whenever *)
(* the idle ones are fewer than the pending tasks, and whose threads exit  *)
(* when they were idle for long.  num_idle_threads_ counts threads that    *)
(* have been signalled, or have timed out, and have not got the lock yet.  *)
(***************************************************************************)
EXTENDS Integers, Sequences, FiniteSets

CONSTANTS
  Workers,   \* one per task is enough: every AddTask starts at most one
  MaxTasks   \* bound: calls of PostTask; a task is known by its number

ASSUME PoolConstants ==
  /\ MaxTasks \in Nat
  /\ IsFiniteSet(Workers)

VARIABLES
  num_idle_threads_, pending_tasks_, terminated_,
  broadcast,   \* Terminate has waked the idle threads
  state,       \* where each WorkerThread is
  task,        \* the task each has got, 0 for none
  posted,      \* how many tasks have been posted
  after        \* history: the tasks handed out after Terminate

pool_vars == <<num_idle_threads_, pending_tasks_, terminated_, broadcast, state, task,
          posted, after>>

(***************************************************************************)
(* "unborn"; "calling" WaitForTask, without the lock; "waiting" on the     *)
(* condition variable; "woken", to return from TimedWait; "running" its    *)
(* task; "exited" (WaitForTask returned a null task, WorkerThread deleted).*)
(***************************************************************************)
States == {"unborn", "calling", "waiting", "woken", "running", "exited"}
Where(s) == {w \in Workers : state[w] = s}
Idle == {w \in Workers : state[w] \in {"waiting", "woken"}}
Coming == {w \in Workers : state[w] \in {"calling", "woken"}}
Move(w, s) == state' = [state EXCEPT ![w] = s]

-----------------------------------------------------------------------------
(* AddTask *)

Push ==
  /\ posted < MaxTasks /\ ~terminated_
  /\ posted' = posted + 1
  /\ pending_tasks_' = Append(pending_tasks_, posted')
  /\ UNCHANGED <<num_idle_threads_, terminated_, broadcast, task, after>>

\* Variant: any idle thread is enough.
EnoughThreads_Any == num_idle_threads_ > 0

\* Compared with the size of the queue after the push.
EnoughThreads == num_idle_threads_ >= Len(pending_tasks_')

\* Signal wakes a waiting thread, and none if all have been waked.
AddTaskSignal ==
  /\ Push /\ EnoughThreads
  /\ \/ \E w \in Where("waiting") : Move(w, "woken")
     \/ Where("waiting") = {} /\ UNCHANGED state

AddTaskCreate ==
  /\ Push /\ ~EnoughThreads
  /\ \E w \in Where("unborn") : Move(w, "calling")

-----------------------------------------------------------------------------
(* WaitForTask and the loop in WorkerThread::ThreadMain *)

Take(w) ==
  /\ Move(w, "running")
  /\ task' = [task EXCEPT ![w] = Head(pending_tasks_)]
  /\ pending_tasks_' = Tail(pending_tasks_)
  /\ after' = IF terminated_ THEN after \cup {Head(pending_tasks_)} ELSE after

Leave(w) == Move(w, "exited") /\ UNCHANGED <<task, pending_tasks_, after>>

CallExit(w) ==
  /\ state[w] = "calling" /\ terminated_
  /\ Leave(w)
  /\ UNCHANGED <<num_idle_threads_, terminated_, broadcast, posted>>

CallTake(w) ==
  /\ state[w] = "calling" /\ ~terminated_ /\ pending_tasks_ # <<>>
  /\ Take(w)
  /\ UNCHANGED <<num_idle_threads_, terminated_, broadcast, posted>>

CallWait(w) ==
  /\ state[w] = "calling" /\ ~terminated_ /\ pending_tasks_ = <<>>
  /\ num_idle_threads_' = num_idle_threads_ + 1
  /\ Move(w, "waiting")
  /\ UNCHANGED <<pending_tasks_, terminated_, broadcast, task, posted, after>>

\* idle_seconds_before_exit_ are over, or a spurious wakeup.
TimeOut(w) ==
  /\ state[w] = "waiting"
  /\ Move(w, "woken")
  /\ UNCHANGED <<num_idle_threads_, pending_tasks_, terminated_, broadcast, task,
                 posted, after>>

\* Variant: a thread that leaves is still counted.
Return_Counted(w) ==
  /\ state[w] = "woken"
  /\ IF pending_tasks_ = <<>>
     THEN Leave(w) /\ UNCHANGED num_idle_threads_
     ELSE Take(w) /\ num_idle_threads_' = num_idle_threads_ - 1
  /\ UNCHANGED <<terminated_, broadcast, posted>>

\* TimedWait returns, with the lock.
Return(w) ==
  /\ state[w] = "woken"
  /\ num_idle_threads_' = num_idle_threads_ - 1
  /\ IF pending_tasks_ = <<>> THEN Leave(w) ELSE Take(w)
  /\ UNCHANGED <<terminated_, broadcast, posted>>

TaskReturns(w) ==
  /\ state[w] = "running"
  /\ Move(w, "calling")
  /\ task' = [task EXCEPT ![w] = 0]
  /\ UNCHANGED <<num_idle_threads_, pending_tasks_, terminated_, broadcast, posted, after>>

-----------------------------------------------------------------------------
(* Terminate: the flag under the lock, then Broadcast *)

Terminate ==
  /\ ~terminated_
  /\ terminated_' = TRUE
  /\ UNCHANGED <<num_idle_threads_, pending_tasks_, broadcast, state, task, posted, after>>

\* Variant: one idle thread is waked.
Broadcast_One ==
  /\ terminated_ /\ ~broadcast
  /\ broadcast' = TRUE
  /\ \/ \E w \in Where("waiting") : Move(w, "woken")
     \/ Where("waiting") = {} /\ UNCHANGED state
  /\ UNCHANGED <<num_idle_threads_, pending_tasks_, terminated_, task, posted, after>>

Broadcast ==
  /\ terminated_ /\ ~broadcast
  /\ broadcast' = TRUE
  /\ state' = [w \in Workers |-> IF state[w] = "waiting" THEN "woken" ELSE state[w]]
  /\ UNCHANGED <<num_idle_threads_, pending_tasks_, terminated_, task, posted, after>>

-----------------------------------------------------------------------------

PoolInit ==
  /\ num_idle_threads_ = 0 /\ pending_tasks_ = <<>> /\ terminated_ = FALSE
  /\ broadcast = FALSE /\ posted = 0 /\ after = {}
  /\ state = [w \in Workers |-> "unborn"]
  /\ task = [w \in Workers |-> 0]

WaitForTask(w) == CallExit(w) \/ CallTake(w) \/ CallWait(w) \/ Return(w)

PoolNext ==
  \/ AddTaskSignal \/ AddTaskCreate \/ Terminate \/ Broadcast
  \/ \E w \in Workers : WaitForTask(w) \/ TimeOut(w) \/ TaskReturns(w)

PoolSpec == PoolInit /\ [][PoolNext]_pool_vars

\* Threads get the lock; nothing is said of tasks, which may run for ever, nor of
\* the idle time, which may be long.
FairPoolSpec == PoolSpec /\ WF_pool_vars(Broadcast) /\ \A w \in Workers : WF_pool_vars(WaitForTask(w))

-----------------------------------------------------------------------------
(* Properties *)

\* The counter is the number of threads inside TimedWait, the waked included.
PoolTypeOK ==
  /\ state \in [Workers -> States]
  /\ task \in [Workers -> 0 .. MaxTasks]
  /\ pending_tasks_ \in Seq(1 .. MaxTasks)
  /\ posted \in 0 .. MaxTasks
  /\ terminated_ \in BOOLEAN /\ broadcast \in BOOLEAN
  /\ after \subseteq 1 .. MaxTasks
  /\ num_idle_threads_ = Cardinality(Idle)

\* AddTask: for every pending task a thread of its own is on its way to the
\* queue, however long the running tasks take: signalling a thread that was
\* waked for an earlier task, or has timed out, never stands for a new thread.
EachTaskHasAThread == ~terminated_ => Len(pending_tasks_) <= Cardinality(Coming)

\* WaitForTask: a task is taken, whatever the others do, unless the pool ends.
TaskStarts ==
  \A k \in 1 .. MaxTasks :
    posted >= k ~> terminated_ \/ \A i \in DOMAIN pending_tasks_ : pending_tasks_[i] # k

\* Terminate: the idle threads go, although nobody waits for them.
IdleLeave == terminated_ ~> [](Idle = {})

\* Terminate "Stops handing out tasks to worker threads."
NothingAfterTerminate == after = {}

\* The pool goes on: tasks start, and idle threads leave once it is terminated.
Progress == TaskStarts /\ IdleLeave
=============================================================================
