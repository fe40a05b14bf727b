-------------------------------- MODULE Timer --------------------------------
(***************************************************************************)
(* base/timer.cc: a timer keeps at most one task of its own in the loop's  *)
(* delayed queue and reuses it when the wanted time moves later; Stop only *)
(* clears is_running_ and leaves the task in the queue.  Everything is on  *)
(* the loop's thread; time passes between any two readings of the clock.   *)
(***************************************************************************)
EXTENDS Integers, FiniteSets

CONSTANTS
  Kinds,         \* subset of {"OneShot", "Repeating", "Delay"}
  Delays,        \* the delays given to Start
  MaxTime,       \* bound: the clock
  MaxTimerTasks, \* bound: BaseTimerTaskInternal objects, known by their number
  MaxSkew        \* bound: time that passes inside PostNewScheduledTask

ASSUME TimerAssumption ==
  /\ Kinds \subseteq {"OneShot", "Repeating", "Delay"} /\ Kinds # {}
  /\ Delays \subseteq Nat /\ Delays # {}
  /\ MaxTime \in Nat /\ MaxTimerTasks \in Nat /\ MaxSkew \in Nat

NoTask == 0
Never == MaxTime + 1   \* beyond the clock: no call is due

VARIABLES
  timer,         \* its fields, and whether it exists
  queue,         \* the delayed tasks of the loop: number, time, and timer_ set
  has_loop,      \* whether the loop exists
  now,           \* TimeTicks::Now()
  tasks_posted,  \* tasks posted so far
  due,           \* history: the earliest time the user task may run
  fired          \* history: how often it ran

timer_vars == <<timer, queue, has_loop, now, tasks_posted, due, fired>>

is_repeating_     == timer.kind = "Repeating"
retain_user_task_ == timer.kind # "OneShot"

\* The timer's task in the queue.
Mine(task) == task.timer_ /\ task.id = timer.scheduled_task_

-----------------------------------------------------------------------------

\* PostNewScheduledTask: the loop reads the clock for the task, and the timer
\* reads it again, later.
PostNewScheduledTask(t, base, delay, skew) ==
  /\ tasks_posted < MaxTimerTasks /\ skew <= MaxSkew /\ now + skew <= MaxTime
  /\ tasks_posted' = tasks_posted + 1
  /\ queue' = base \cup {[id |-> tasks_posted', at |-> now + delay, timer_ |-> TRUE]}
  /\ now' = now + skew
  /\ timer' = [t EXCEPT !.is_running_ = TRUE, !.scheduled_task_ = tasks_posted',
                        !.scheduled_run_time_ = now' + delay,
                        !.desired_run_time_ = now' + delay]

\* AbandonScheduledTask: the task stays in the queue and forgets its timer.
Abandon(tasks) ==
  {IF Mine(task) THEN [task EXCEPT !.timer_ = FALSE] ELSE task : task \in tasks}

\* Variant: the existing task is used whenever there is one.
Reusable_Always(wanted) == TRUE

\* The scheduled task will arrive before the time that is wanted now.
Reusable(wanted) == wanted > timer.scheduled_run_time_

\* Reset: reuse the scheduled task ...
ResetReuse(t) ==
  /\ t.scheduled_task_ # NoTask /\ Reusable(now + t.delay_)
  /\ timer' = [t EXCEPT !.desired_run_time_ = now + t.delay_, !.is_running_ = TRUE]
  /\ UNCHANGED <<queue, now, tasks_posted>>

\* ... or post one, in the place of the old one if there is one.
ResetPost(t, skew) ==
  /\ t.scheduled_task_ # NoTask => ~Reusable(now + t.delay_)
  /\ PostNewScheduledTask(t, Abandon(queue), t.delay_, skew)

ResetTo(t, skew) ==
  /\ (skew = 0 /\ ResetReuse(t)) \/ ResetPost(t, skew)
  /\ due' = now + t.delay_
  /\ UNCHANGED <<has_loop, fired>>

Start(delay, skew) ==
  /\ timer.exists /\ has_loop
  /\ timer.kind # "Delay"
  /\ ResetTo([timer EXCEPT !.delay_ = delay, !.user_task_ = TRUE], skew)

Reset(skew) ==
  /\ timer.exists /\ has_loop /\ timer.user_task_
  /\ ResetTo(timer, skew)

Stopped(t) == [t EXCEPT !.is_running_ = FALSE,
                        !.user_task_ = @ /\ retain_user_task_]

Stop ==
  /\ timer.exists /\ timer.is_running_
  /\ timer' = Stopped(timer)
  /\ due' = Never
  /\ UNCHANGED <<queue, has_loop, now, tasks_posted, fired>>

\* ~Timer: StopAndAbandon.
Destroy ==
  /\ timer.exists
  /\ timer' = [Stopped(timer) EXCEPT !.exists = FALSE, !.scheduled_task_ = NoTask]
  /\ queue' = Abandon(queue)
  /\ due' = Never
  /\ UNCHANGED <<has_loop, now, tasks_posted, fired>>

-----------------------------------------------------------------------------
(* The loop runs a task that is due *)

\* Variant: a task whose time has just come waits for the next look at the clock.
Due_Later(task) == has_loop /\ task \in queue /\ task.at < now

\* BaseTimerTaskInternal::Run, up to RunScheduledTask.
Due(task) == has_loop /\ task \in queue /\ task.at <= now
Unscheduled == [timer EXCEPT !.scheduled_task_ = NoTask]

\* The task was abandoned, or the timer stopped.
RunNothing(task) ==
  /\ Due(task) /\ (task.timer_ => ~timer.is_running_)
  /\ queue' = queue \ {task}
  /\ timer' = IF task.timer_ THEN Unscheduled ELSE timer
  /\ UNCHANGED <<has_loop, now, tasks_posted, due, fired>>

\* Variant: the wanted time is not looked at again.
TooEarly_Never == FALSE

\* RunScheduledTask: the wanted time has moved and is still to come.
TooEarly ==
  timer.desired_run_time_ > timer.scheduled_run_time_ /\ timer.desired_run_time_ > now

\* The rest of the time is spanned by a new task.
RunContinue(task, skew) ==
  /\ Due(task) /\ task.timer_ /\ timer.is_running_ /\ TooEarly
  /\ PostNewScheduledTask(Unscheduled, queue \ {task}, timer.desired_run_time_ - now, skew)
  /\ UNCHANGED <<has_loop, due, fired>>

RunOneShot(task) ==
  /\ Due(task) /\ task.timer_ /\ timer.is_running_ /\ ~TooEarly
  /\ ~is_repeating_
  /\ queue' = queue \ {task}
  /\ timer' = Stopped(Unscheduled)
  /\ fired' = fired + 1 /\ due' = Never
  /\ UNCHANGED <<has_loop, now, tasks_posted>>

\* A repeating timer posts the next task first.
RunRepeating(task, skew) ==
  /\ Due(task) /\ task.timer_ /\ timer.is_running_ /\ ~TooEarly
  /\ is_repeating_
  /\ PostNewScheduledTask(Unscheduled, queue \ {task}, timer.delay_, skew)
  /\ fired' = fired + 1 /\ due' = now + timer.delay_
  /\ UNCHANGED has_loop

\* The loop goes with its tasks, and the timer's own stops it.
DestroyTimerLoop ==
  /\ has_loop /\ has_loop' = FALSE
  /\ queue' = {}
  /\ timer' = IF \E task \in queue : task.timer_
              THEN [Stopped(timer) EXCEPT !.scheduled_task_ = NoTask] ELSE timer
  /\ due' = Never
  /\ UNCHANGED <<now, tasks_posted, fired>>

Tick ==
  /\ now < MaxTime /\ now' = now + 1
  /\ UNCHANGED <<timer, queue, has_loop, tasks_posted, due, fired>>

-----------------------------------------------------------------------------

TimerInit ==
  /\ \E kind \in Kinds, delay \in Delays :
       timer = [exists |-> TRUE, kind |-> kind, is_running_ |-> FALSE,
                scheduled_task_ |-> NoTask, scheduled_run_time_ |-> 0,
                desired_run_time_ |-> 0, delay_ |-> delay,
                user_task_ |-> kind = "Delay"]
  /\ queue = {} /\ has_loop = TRUE
  /\ now = 0 /\ tasks_posted = 0 /\ due = Never /\ fired = 0

RunTimerTask(task) ==
  \/ RunNothing(task) \/ RunOneShot(task)
  \/ \E skew \in 0 .. MaxSkew : RunContinue(task, skew) \/ RunRepeating(task, skew)

TimerNext ==
  \/ \E delay \in Delays, skew \in 0 .. MaxSkew : Start(delay, skew)
  \/ \E skew \in 0 .. MaxSkew : Reset(skew)
  \/ Stop \/ Destroy \/ DestroyTimerLoop \/ Tick
  \/ \E task \in queue : RunTimerTask(task)

TimerSpec == TimerInit /\ [][TimerNext]_timer_vars

\* Time passes, and the loop runs its tasks.
FairTimerSpec ==
  TimerSpec /\ WF_timer_vars(Tick) /\ WF_timer_vars(\E task \in queue : RunTimerTask(task))

-----------------------------------------------------------------------------
(* Properties *)

TimerTypeOK ==
  /\ timer.scheduled_task_ \in 0 .. tasks_posted
  /\ {timer.exists, timer.is_running_, timer.user_task_, has_loop} \subseteq BOOLEAN
  /\ timer.is_running_ => timer.user_task_
  /\ \A task \in queue : task.id \in 1 .. tasks_posted /\ task.at \in Nat
  /\ now \in 0 .. MaxTime /\ tasks_posted \in 0 .. MaxTimerTasks

\* The user task runs only if the timer is running, and not before the delay of
\* the latest Start or Reset has passed, whichever task of the queue brings it.
NeverEarly == [][fired' # fired => due <= now /\ fired' = fired + 1]_timer_vars

\* A running timer has its task in the queue, early enough for the time that is
\* wanted: neither reuse nor abandoning lets it oversleep or sleep for ever.
Armed ==
  timer.is_running_ =>
    \E task \in queue : Mine(task) /\ task.at <= timer.desired_run_time_

\* The tasks and the timer point at each other or not at all: a task that runs,
\* or is deleted with its loop, touches a timer that exists, and the timer's
\* pointer is never that of a deleted task.
Linked ==
  /\ \A task \in queue : task.timer_ => timer.exists /\ Mine(task)
  /\ timer.scheduled_task_ # NoTask => \E task \in queue : Mine(task)

\* A one-shot timer that is started runs its task or is stopped, however often
\* it was reset, as long as clock and posts have not reached their bounds.
OneShotEnds ==
  timer.is_running_ /\ ~is_repeating_ ~>
    ~timer.is_running_ \/ timer.desired_run_time_ > MaxTime \/ tasks_posted = MaxTimerTasks

\* The timer and the task it reuses keep hold of each other while they need to.
TaskKept == TimerTypeOK /\ Armed /\ Linked
=============================================================================
