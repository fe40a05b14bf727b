# Verification of the task, threading and event core

The repository is the `ui` library of Chromium 21 with the parts of `base` it
stands on. This directory holds TLA+ models of the code that decides *when, where
and in which order* code runs: the message loop every UI thread lives in, the
worker pools, the events, watchers, timers, threads and observer lists built
around them, and the parts of `ui` whose state must survive callbacks that change
it (layer animations, gestures, the mouse events of the root window). TLC checks
them on small instances; TLAPS proves their safety for every instance, but for one
order of starts in the message loop.

    cd tla
    tlc -workers 2 -config MessageLoop.cfg MCMessageLoop
    tlc -workers 2 -config Timer.cfg Timer
    tlapm MessageLoopProofs.tla

`PROJECT.json` lists for every run the module, the configuration and the
properties, for every definition the source lines it stands for, and for every
hazard the line at which it bites and the properties aimed at it.

## 1. Inventory

| Part | State it keeps | Operations | What is hard |
|---|---|---|---|
| `base/message_loop.cc` | four task queues, `recent_time_`, `next_sequence_num_`, `nestable_tasks_allowed_`, a stack of `RunState` | `Post*Task`, `Run`, `RunAllPending`, `Quit`, `QuitNow`, `DoWork`, `DoDelayedWork`, `DoIdleWork`, destructor | posts from other threads, nested loops, deferral of non-nestable tasks, a cached clock, destruction with posts in progress |
| `base/message_pump_default.cc` | `keep_running_`, `delayed_work_time_`, `event_` | `Run`, `Quit`, `ScheduleWork`, `ScheduleDelayedWork` | sleeping exactly as long as allowed; one set of flags for all nested frames |
| `base/message_loop_proxy_impl.cc` | `target_message_loop_`, `message_loop_lock_` | `Post*Task`, `WillDestroyCurrentMessageLoop`, `OnDestruct` | posts that race with the death of the loop |
| `base/threading/sequenced_worker_pool.cc` | task list, counters, tokens in use, threads, three condition variables | `PostTask`, tokens, `ThreadLoop`, `Shutdown`, `FlushForTesting`, destruction | signals sent outside the lock, thread creation spread over two threads, three shutdown behaviours, the last reference dropped by a worker |
| `base/synchronization/waitable_event_posix.cc` | flag, wait-list and lock of each event; a `SyncWaiter` on each waiting stack | `Signal`, `Reset`, `IsSignaled`, `Wait`, `TimedWait`, `WaitMany` | a timeout against a signal, the lock order of `WaitMany`, a waiter reached after it left |
| `base/synchronization/waitable_event_watcher_posix.cc` | a flag per watch, a heap-allocated waiter, a posted callback | `StartWatching`, `StopWatching`, `Fire`, destruction of watcher, event and loop | cancel against a callback in flight, addresses that come back |
| `base/threading/thread.cc` | `started_`, `stopping_`, `running_`, `message_loop_`, `startup_data_` | `StartWithOptions`, `StopSoon`, `Stop`, `ThreadMain` | fields read and written by two threads without a lock, start-up data on another thread's stack |
| `base/threading/worker_pool_posix.cc` | tasks, a count of idle threads | `PostTask`, `WaitForTask`, `Terminate` | a task against an idle timeout, a thread counted twice |
| `base/timer.cc` | one task in the loop, desired and scheduled time | `Start`, `Stop`, `Reset`, destructor | a reused task that arrives early, pointers both ways |
| `base/observer_list*.h` | observers, iteration depth; a context per thread | add, remove, notify | removal during notification, notifications in flight to a removed context |
| `ui/compositor/layer_animator.cc` | animation queue, running animations | start, schedule, stop, `Step`, four preemption strategies | observers that change what is being stepped |
| `ui/base/gestures/gesture_sequence.cc` | state, point ids, long press timer | touches pressed, moved, released, cancelled, timer | every order of up to six fingers; events that handlers consume |
| `ui/aura/root_window.cc` | handlers of mouse events, capture, held move, tasks | mouse and key events, hold and release, capture, hide, resize | handlers that change what is being dispatched, tasks that must exist |
| `base/lazy_instance.cc`, `memory/weak_ptr.cc`, `at_exit.cc` | atomic words, flags | create once, invalidate | spinning creators, stale pointers |
| platform pumps (`message_pump_glib.cc`, `_libevent.cc`, `_win.cc`) | wake-up pipe, `has_work` | `Run`, prepare, check, dispatch | native loops that run inside tasks |
| `ui/views`, `ui/base/animation`, aura's window tree, focus | trees, focus, animation sets | event handlers on one thread | destruction during dispatch |
| `ui/gfx`, `ui/gl`, `ui/surface`, `skia/ext`, resources, clipboard, IME, `googleurl`, strings, files, processes | — | drawing, parsing, platform calls | not a matter of ordering |

How they interact: a client thread posts through `MessageLoopProxyImpl` (under
`message_loop_lock_`) into the `incoming_queue_` of a `MessageLoop` (under
`incoming_queue_lock_`), and wakes its pump by `event_`, an auto-reset
`WaitableEvent`. The pump calls the loop back (`DoWork`, `DoDelayedWork`,
`DoIdleWork`). `Thread` owns a thread with a loop, hands it start-up data through
a `WaitableEvent` and ends it with a quit task. `SequencedWorkerPool` uses the
proxy of the loop it was made on to get itself deleted there when a worker drops
its last reference. `Timer`, `WaitableEventWatcher` and `ObserverListThreadSafe`
keep a task, a callback or a notification in a loop's queue and have to
cope with its arriving late. `LayerAnimator`, `GestureSequence` and `RootWindow`
run on the UI thread, driven by a timer, by touches and by the mouse, and call
observers and handlers that call them back.

## 2. Modules

| Module | Code |
|---|---|
| `MessageLoop`, `MessageLoopProofs` | `message_loop.cc`, `message_pump_default.cc`, `message_loop_proxy_impl.cc`, `pending_task.cc` |
| `SequencedWorkerPool`, `SequencedWorkerPoolProofs` | `sequenced_worker_pool.cc` |
| `WaitableEvent`, `EventContract`, `WaitableEventProofs` | `waitable_event_posix.cc`; what `waitable_event.h` promises |
| `WaitableEventWatcher`, `WaitableEventWatcherProofs` | `waitable_event_watcher_posix.cc` |
| `Timer` | `timer.cc` |
| `Thread` | `thread.cc` |
| `PosixDynamicThreadPool` | `worker_pool_posix.cc` |
| `ThreadingProofs` | proofs about the last three, which share no state |
| `ObserverListThreadSafe`, `ObserverListThreadSafeProofs` | `observer_list_threadsafe.h`, `observer_list.h` |
| `LayerAnimator`, `LayerAnimatorProofs` | `layer_animator.cc`, `layer_animation_sequence.cc` |
| `GestureSequence` | `gesture_sequence.cc` |
| `RootWindowMouse` | `root_window.cc`, the mouse side |
| `AuraInputProofs` | proofs about the last two: the touches and the mouse of a root window |

The `MC` modules only give constants their values and name the symmetries.
Mutated forms of operators (`X_Something`, each right before the operator `X`
it varies, marked "Variant") are not part of the specifications; each is a
plausible slip in the code that one of the properties must notice. Each module's
properties are at its end; those with a name of their own that a run checks as a
part of a conjunction (`SleepsRight == NoLostWakeup /\ ...`) can be put into a
configuration one by one.

### MessageLoop

One loop thread and any number of posters. A *task* is one call of a `Post*`
method; its closure is left open, so whenever a task runs the loop thread may
post, quit, enter a nested `Run`, or finish.

| Model | Code |
|---|---|
| `incoming_queue_`, `work_queue_`, `delayed_work_queue_`, `deferred_non_nestable_work_queue_` | the queues; the priority queue is a set, its order is `Precedes` (`PendingTask::operator<` with the wrapped difference of sequence numbers modulo `SeqMod`) |
| `state_[1..depth]` | the `RunState` of each `Run()` on the stack, and the local state of its `MessagePumpDefault::Run` frame: position, `did_work`, task being run, allower |
| `keep_running_`, `delayed_work_time_`, `event_` | the pump's members, one for all frames |
| `poster[p]`, `message_loop_lock_` | a post through the proxy: lock and run time, push, signal are three steps |
| `dtor` | `~MessageLoop`: delete, reload, delete, up to `DtorLimit` passes; observers; the proxy's pointer; the members |
| `pending`, `status`, `before`, `owed` | the `PendingTask` of each post, and history |

`DoWork`'s loop is `ReloadWorkQueue`, `AddToDelayedWorkQueue`, `DoWorkTask` and
`DoWorkNothing`; other threads can post between any two of them. `DoWork`
compares closures to find out whether a task became the top of the delayed queue;
two posts may carry one closure, so for a task that is not the top the outcome is
a choice. A post by the loop thread itself is one step: only this thread waits
for `event_`.

Abstractions: `event_` is an auto-reset event by its contract (the subject of
`WaitableEvent`); the clock is an integer that advances at any moment;
`incoming_queue_lock_` covers single steps and is not a variable; signed
overflow of the sequence number is taken as wrapping. Posts of other threads
straight to `MessageLoop::PostTask` have no protection in the code (the caller
must keep the loop alive) and behave as posts through the proxy otherwise. Not
modelled: task observers, histograms, tracing, the Windows timer mode and
exception filter, the UI and IO pumps.

### SequencedWorkerPool

`lock_` is a variable. A critical section is one step, or a step that leaves
`lock_` with the thread that goes on; what the code does after releasing the
lock (signal, create the thread, clear closures, run the task) are steps of
their own, so every other thread can come between. A condition variable is the
set of threads at `Wait`; `Signal` moves one to `Woken`, from where it must take
the lock again.

| Model | Code |
|---|---|
| `worker[w]` | position in `ThreadLoop`, the local `task`, `delete_these_outside_lock`, `new_thread_id` |
| `pending_tasks_` with `posted[t].ticket` | the list; the ticket is the position of the post |
| `call[c]` | `PostTask` after its critical section, by a client or by a task |
| `shutdown`, `flusher[f]` | `Shutdown` and `FlushForTesting` |
| `client_ref`, `HoldsRef`, `deletion` | the references, `OnDestruct`, `~Inner` |

`GetWorkFound` is `GetWork` with `WillRunWorkerTask`; `GetWorkWait` and
`GetWorkExit` are its other two outcomes. `ThreadLoopBreak` is a step of its own
because the closures are destroyed there, with the lock still held. Tasks may
post while they run, and closures while they are cleared.

Abstractions: tokens are bounded by `MaxTokens` (the 32-bit wrap of the counter
is out of reach); `running_sequence_`, read by its own thread only, is left out;
all clients share one reference, dropped after `Shutdown` has returned, as the
`DCHECK` in `~Inner` demands; the loop that `DeleteSoon` posts to is alive.

### WaitableEvent and EventContract

Events are numbered by their addresses, the order in which `WaitMany` takes
their locks. The lock of each kernel and of each `SyncWaiter` is a variable
wherever it is held beyond one step. `thread[t]` is where a thread is in `Signal`
(walking the wait-list), in a wait (enqueueing, `check`, `blocked` on `cv_`) or in
taking itself out again; a thread in `cv_` can be woken by a broadcast, by its
timeout, or for no reason.

`EventContract` is the abstract event: a set of signaled events, who waits for
what, and what was given to whom. Waits are atomic there, and a signal is given
to one waiter or kept. `ImplementsContract` is `Contract!Spec` under the mapping
in `WaitableEvent`: a thread waits as long as its waiter has not been fired, and
has been given an event as soon as it was. It is checked on every step,
timeouts, `WaitMany` and `Reset` included.

### WaitableEventWatcher

The watchers live on one loop thread, and another thread signals. A waiter is an
object at an address that is free again once it is deleted: another watcher's
waiter may get it, and `StopWatching` compares addresses and flags (`Matches`)
to find its own. A watch is known by its flag. `signaler` is in `Signal` with the
kernel's lock, between reading the flag, posting and deleting the waiter. The
event may be deleted while watched; its kernel is counted. The loop's end is
`DestroyLoop`, a `WillDestroyCurrentMessageLoop` for each watcher, `LoopGone`.

### Thread

The owner's fields, the thread's `pc` in `ThreadMain`, and the loop reduced to a
queue that runs until it is idle after a quit. The end of `Run` is in steps:
`DoWorkNothing` finds the queue empty, `Wakes` or `DoIdleWorkQuit` goes by
`quit_received`, `RunEnds` returns to `ThreadMain`. Tasks of the thread and other
threads (through the proxy) post at any of these points: what comes after the last
look at the queue is deleted by `~MessageLoop` (`DestroyLoop`). The owner follows
`thread.h:100-102`: once it has told the thread to stop it does not use
`message_loop()` any more. `StartFails` is `PlatformThread::Create` returning
false. `Starters` are tasks that start a `Thread` of their own, which clears the mark
`ThreadWasQuitProperly` in this thread's storage; `before` and `quitAt` are history:
what was posted before the last look, and how many tasks had run at the quit.

### Timer

`timer` is the object, `queue` the `BaseTimerTaskInternal`s in the loop, each
with its time and whether `timer_` is set. `Stop` leaves the task where it is;
`Start` and `Reset` reuse it if it comes early enough (`Reusable`); a task that
comes too early posts another. The clock advances between any two calls, and by
up to `MaxSkew` between the two readings inside `PostNewScheduledTask`. Timer and
loop may be destroyed in either order. `due` is history: the earliest moment the
user's task may run.

### ObserverListThreadSafe

Threads, each with a loop whose queue holds notifications that carry the bare
address of a context; `frames[t]` are the notifications in progress, nested ones
included, with the iterator of `ObserverList`. Observers that are told add and
remove observers, and run nested loops. Contexts are at addresses that come
back. Both notification types are in `Init`.

### PosixDynamicThreadPool

A thread is in `TimedWait`, signalled but without the lock, timed out but without
the lock, running a task, or gone. `num_idle_threads_` counts the first three.
A signalled thread may find its task taken by another one and waits again.

### LayerAnimator

Everything is on one thread; the calls in progress are a stack of frames and a
frame's step is what its function does up to its next inner call, so that
observers can call back at each point where the code calls them. A sequence has
the properties it animates and a duration; addresses come back. `Step` walks its
copy with the start times of the moment it was made. `died` records the read of
`running_animations_[0]` of an empty vector (section 5); nothing is claimed after it.
`RemoveAnimation` erases the first match of each list, and a step of
`ReplaceQueuedAnimations` is one turn of its loop.

### GestureSequence

The states of `GestureState`, the points with their ids, the long press timer.
Positions, velocities and times only decide tests (`IsInsideManhattanSquare`,
the two-finger distances, whether there is a fling), and each test is a choice. A
handler may consume any event that reaches it (`Disregard`); `ReleasesSeen` says
that it does not consume the release of a touch whose press it let pass (section 5).
`open` and `tapped` are history: what has begun and not ended, and that the fingers
are left of a two-finger tap, with which they scroll though no scroll has begun.

### RootWindowMouse

`stack` holds the dispatches in progress, with the event, the target and the
point reached, so that a handler may hide or show windows, take or release the
capture, hold or release mouse moves, or resize the host at each call the code
makes. The window under the mouse is a choice. `held_tasks` and
`synthesize_tasks` are the tasks in the loop whose weak pointers are valid.
New events of the mouse, key events and tasks come when the stack is empty: a
message loop that a handler runs inside itself (a menu, a drag), which would dispatch
them in the middle of another dispatch, is left out. `stale` is history: the windows
that were hidden by the handler of a window that the mouse or the capture was leaving
for them (section 5). A released button leaves others down or not (`Begin`).

## 3. What is checked

| Run | Bounds | Properties |
|---|---|---|
| `MessageLoop` | 2 posts of four kinds (now and nestable or not, after one unit nestable, after two not), 1 poster, `Run` two deep, clock to 3, sequence number one before its roll-over | `Consistent`: a task is in exactly one queue or frame until it ends. `SleepsRight`: the pump never blocks on work, never sleeps past the earliest delayed task, and none runs early although the clock is cached. `NestingRules`: non-nestable tasks and the reentrancy block across `RunTask`, allowers and early quits. `NoUseAfterDestroy`: a post past its check works on a live loop. `StartOrder`, `QuitDrains`. `Progress`: waiting tasks are served while somebody runs the loop, and the destructor ends. |
| `SequencedWorkerPool_safety` | 2 tasks, 2 workers, 1 poster, 1 flusher, a name, three behaviours, spurious wake-ups | `SequenceExclusive`, `StartInOrder`, `CountsAgree`, `OneThreadAtATime`, `ShutdownBlocks`, `TypeOK` (no thread number beyond `max_threads_`). `EndsClean`: no task is left when the workers have gone, and the pool outlives them. `FlushIdle`: only a worker that starts to wait makes the pool idle, and `FlushForTesting` returns with nothing waiting or running. |
| `SequencedWorkerPool_liveness` | 2 tasks, 2 workers, fair | `TasksServed`; `ShutdownEnds`: `Shutdown` returns and its one signal makes every worker exit |
| `WaitableEvent` | 3 threads, a manual-reset and an automatic-reset event, `WaitMany` in both orders, 6 calls and spurious wake-ups | `ImplementsContract`. `WaitersSound`: nobody sleeps beside a signal or a fired waiter, and no waiter is fired after its thread left. `NoLockCycle`. |
| `WaitableEventWatcher` | 2 watchers, 2 events, 2 addresses, 2 watches, 2 signals | `WatchesSound`: a watch that is on can still be told, by a waiter and a loop that exist, in one list. `NoCallAfterStop`, `SignalReported`. |
| `Thread` | 3 starts, 4 posts, the second of a task that starts a `Thread` | `SharingSafe`: what is read without a lock is valid, one quit per start, `Stop` leaves the object as new. `TasksRun`: what is posted before the loop's last look at its queue runs, once and in order; the thread's own quit ends the loop, and the mark says so unless a task behind it started a `Thread`. `CallsReturn`. |
| `Timer` | the three kinds of timer, delays 0, 1 and 3, clock to 5, 3 tasks | `TaskKept`: a running timer has a task early enough, and the pointers never dangle. `NeverEarly`, `OneShotEnds`. |
| `ObserverListThreadSafe` | 2 threads, 2 observers, 3 addresses, 6 calls, 2 notifications, nested two deep | `ContextsSound`: no context is leaked, used after deletion or forgotten with observers in it. `TellsAll`: a notification skips nobody who stays, and in `NOTIFY_EXISTING_ONLY` tells nobody who is new. |
| `PosixDynamicThreadPool` | 4 tasks, 4 threads | `PoolTypeOK` (the counter is right), `EachTaskHasAThread`; `Progress`: tasks start even if all others run for ever, and idle threads leave after `Terminate` |
| `LayerAnimator` | 3 addresses, every strategy, 4 calls, stack to 12, timer late by 1 | `AnimatorSound`: no sequence is used after it was deleted, no property is animated twice, and between calls nothing is leaked or kept waiting. `AllEnd`. |
| `GestureSequence` | 6 fingers and one beyond the limit | `SequenceSound`: ids are contiguous, states fit the number of fingers, and what is open fits the state. `GesturesInTurn`: no scroll or pinch begins twice; a pinch is updated and ended only while it is open, and so is a scroll but for what is left of a two-finger tap; no long press after a move or a second finger. |
| `RootWindowMouse` | 2 windows, 4 events, 3 calls, 2 holds | `MovesSound`: no handler window is left hidden but a `stale` one, what is held or to be synthesized has its task, events go in order and once, but for a held one whose own handler resizes the host. `HeldMoveGoes`. |

Why the bounds are enough. They are the smallest at which the cases happen: two
tasks of one sequence with a worker each; one worker waiting, one busy and none
left; two frames, so that a deferred task meets an outermost and a nested loop;
two delayed tasks that are both in the future, at different times and across the
roll-over; a wait for both events against a signal of each, with a third thread
that resets; two watchers that exchange an address while a callback is queued; a
third start of a thread after a restart; a timer that is reset to a later time
twice; a context deleted and allocated again under a notification in flight; four
threads, so that one is signalled, one timed out and one busy while a task is
added; seven fingers for the limit of `points_`. Bounds on calls (`MaxCalls`,
`MaxPosts`, `MaxStarts`, `MaxWatches`, `MaxSignals`, `MaxNotes`, `MaxEvents`,
`MaxTasks`), on the clock (`MaxTime`, `MaxSkew`, `MaxLag`), on stacks
(`MaxDepth`, `MaxHolds`) and on tokens (`MaxTokens`) cap what the code does not;
`CallsUntil` ends the calls to the animator early enough for what they start to
end within the clock. Deadlock checking is off because each of these systems may
rest: all calls have been made, the object is gone, or everybody waits for a client
that has no obligation to call again.

Symmetry is used where no liveness is checked: tasks of the pool, threads of
the events, threads, observers and addresses of the observer list, touches.

### Fairness

Clients are never obliged to post, signal, run a loop, shut down or stop.

* `MessageLoop`: the loop thread, the posters and the destructor are scheduled,
  time passes, and a task ends: `SF` on `FinishTask`, because a task may enter
  nested loops again and again, but not for ever. A nested `Run` without a
  `ScopedNestableTaskAllower` serves no task, so under this pump nothing can end
  it; `ReturningRuns` leaves that call out.
* `SequencedWorkerPool`: each thread that can go on does (`WF` per worker, caller,
  `Shutdown` and flush that has begun). `WF` is enough for `lock_`, as no thread
  keeps it busy for ever with finitely many posts.
* `WaitableEventWatcher`: the signalling thread goes on and the loop runs what is
  posted to it. `Thread`: owner, once in a call, and thread go on.
* `Timer`: the clock advances and the loop runs tasks that are due.
* `PosixDynamicThreadPool`: threads get the lock, and `Terminate` its broadcast.
  Nothing is assumed about tasks, which may run for ever, nor about timeouts.
* `LayerAnimator`: calls return, the timer fires while the animator is started;
  `SF` on `Tick`, since calls interrupt the clock without stopping it.
* `RootWindowMouse`: handlers return, tasks run, and who holds mouse moves
  releases them (`SF`, as other calls may disable the release for a while).

## 4. What is proved

For all values of the constants allowed by the named assumption of each module.

`MessageLoopProofs` (finitely many tasks, any posters, kinds of posts, depth of
nesting, clock and rounds of the destructor):

* `TypesInvariant`: the types, with a poster in the middle of a post having its
  task and the destructor its rounds within the limit. Every other proof uses it.
* `NestingAlways`: `Spec => []NestingRules`. `NonNestableNotNested` looks at one
  flag, `nestable_tasks_allowed_`, that all frames share. `Nesting` says what the
  flag means at every depth: every frame but the top one is inside a task; a frame
  that runs a task is the outermost or was entered with an allower, which has kept
  the value FALSE to put back; so the flag is TRUE exactly between tasks of such a
  frame.
* `TasksConsistent`: `Spec => []Consistent`. It counts occurrences, which no step
  argument can use; `Places` says the same with sets (no queue has a task twice,
  no two queues share one, the queued tasks are those in some queue) and `Frames`
  pairs running tasks with frames one to one. Every step is one of a few kinds
  (`Registers`, `Enters`, `Reloads`, `Takes`, `Delays`, `Deletes`, or none), each
  with a lemma (`QueueKinds`), so that thirty actions become seven cases.
* `DestroySafe`: `Spec => []NoUseAfterDestroy`. `Posts` adds that a post in
  progress holds `message_loop_lock_` and that the proxy's pointer is set exactly
  until the destructor has run its observers.
* `PumpSleepsRight`: `Spec => []SleepsRight`. `OnTime` carries the clock: the
  cached `recent_time_` is never ahead, and a deferred task was due when it was
  deferred. `Drained` says what the pump knows from `DoWork` on, long before it
  sleeps: `work_queue_` is empty, `incoming_queue_` is empty or a wake-up is on
  its way, and, past `DoDelayedWork`, `delayed_work_time_` is not after any
  delayed task.
* `QuitAfterDraining`: `Spec => QuitDrains`, an action property, from the part of
  `Drained` about the tasks that were waiting when the quit was called.

`SequencedWorkerPoolProofs` (finitely many tasks, at least one thread, distinct
sentinels; any number of posters, flushers, names and tokens):

* `TypeCorrect`: `Spec => []TypeOK`. `TypeOK` is inductive. The interesting part
  is `PrepareType`: the number of a new thread is `threads_.size() + 1` and stays
  within `max_threads_`.
* `SequencesSerial`: `Spec => []SequenceExclusive`, "all tasks with the same
  token are guaranteed to execute serially". The property alone is not inductive.
  `SequenceInv` adds that a token in use by a busy worker is in
  `current_sequences_`, that a worker between `WillRunWorkerTask` and
  `DidRunWorkerTask` has a task (else `DidRunWorkerTask` might erase somebody
  else's token), and that tasks in hand or in the list have been posted (so no
  later `PostTask` changes their token). Most steps fall under one frame lemma,
  `SequenceFrameInv`; posting, taking and finishing a task have a lemma each.
* `OneCreation`: `Spec => []OneThreadAtATime`. `CreationInv` says it without the
  set `Coming`, and adds why it stays so: `threads_` is `1 .. threads_.size()`
  and holds exactly the workers past the start (`Numbered`), so that a number
  promised under the lock is still the next one when the thread arrives; and a
  promise is held only where the code has `new_thread_id` in hand
  (`PromiseKept`), so that no thread is started twice.
* `SequencesInOrder`: `Spec => StartInOrder`, the other half of the promise about
  sequences, an action property. It needs `SequenceInv` (an earlier task that
  runs keeps the token in use, so GetWork passes over the later one) and
  `OrderInv`: a task that waits is in the list, one that runs is in the hands of
  a worker that has not finished it, and a worker with a task is past `GetWork`.
  `OrderInv` in turn needs `CreationInv`: a thread is never started in the place
  of a worker that has a task.

The rest of that module stands on the theorems above, together `PoolInv`:

* `CountersRight`: `Spec => []CountsAgree`. Six kinds of step move a counter; all
  the others are `Quiet`, and the moves a worker makes in a quiet step are listed
  once (`QuietMove`).
* `ShutdownWaits`: `Spec => []ShutdownBlocks`. Needs the counters, that
  `CanShutdown` stays true once `Shutdown` has seen it (`ShutdownInv`), and from
  `SequenceInv` and `OrderInv` that a task which waits or runs is one the counters
  count.
* `FlushReturnsIdle`: `Spec => FlushIdle`, an action property: of all steps only a
  worker's wait makes `IsIdle` true, and a flush that returns finds, by the
  counters, an empty list and every thread waiting.
* `PoolEndsClean`: `Spec => []EndsClean`. `LeftInv` adds that workers leave only
  after `shutdown_called_`, that a list with tasks has a worker in its loop or a
  thread being created, and that a closure to be deleted and a token in use each
  have the worker that holds it.

`ThreadingProofs`, of the posix pool (finitely many threads, any number of tasks):

* `PoolTypeCorrect`: `PoolSpec => []PoolTypeOK`, in which `num_idle_threads_` is the number
  of threads inside `TimedWait`, waked and timed-out ones included.
* `TasksHaveThreads`: `PoolSpec => []EachTaskHasAThread`. For every pending task a
  thread of its own is on its way to the queue: `AddTask` may rely on the counter
  instead of starting a thread although the counter includes threads already
  promised to other tasks. The two are inductive together (`PoolInv`): `AddTask`
  compares the number of pending tasks with the counter, so the second needs the
  first. The counting lemmas (`Moves`, `OneMore`, `OneLess`) say what one
  thread's change of state does to the sets `Idle` and `Coming`.

`WaitableEventProofs` (any finite set of events, any threads and wait-lists):

* `WaitersSoundAlways`: `Spec => []WaitersSound`. The invariant `Inv` has four
  parts. `Phases`: what a thread's arguments and its `SyncWaiter` are at each point
  of its call. `Locks`: a kernel's lock is held by the thread that signals the
  event or by an `EnqueueMany` that waits for it, a locked event is not signaled,
  and `EnqueueMany` has locked the lowest addresses. `Lists`: each entry of a
  wait-list is `Queued` (its thread waits for the event and has yet to leave the
  list, and the event has not fired it) or has been passed by a `SignalAll` that
  still holds the lock, in which case it does not sleep. The last is what makes
  it inductive: between firing and clearing, `SignalAll` leaves in the list
  waiters whose threads may have returned and waited again elsewhere.
* `NoLockCycleAlways`: `Spec => []NoLockCycle`, for any set of threads. A waiter's
  lock is held by a thread that waits for nobody; and of the threads inside
  `EnqueueMany` the one with the greatest next lock would have to wait for one
  whose next lock is greater still. The greatest exists because the events of a
  program are finitely many, which `ConstantsAssumption` states.
* `ContractImplemented`: `Spec => ImplementsContract`, the refinement of
  `EventContract`. Each step is mapped: calls that find the event signaled to
  `Take`, a fired waiter that accepts to `SignalGive` or `SignalRelease`, the end
  of a search to `SignalKeep` (nobody waits any more, by `Lists`), enqueueing to
  `Wait`, `Disable` after a timeout to `GiveUp`; a waiter that refuses, locking,
  sleeping and dequeueing are not seen.

`ThreadingProofs`, of `Thread` (any number of starts and posts):

* `SharingSafeAlways`: `Spec => []SharingSafe`. `Phases` pairs where the owner is
  with where the thread is, `Shared` says what the thread has made of the fields
  they share without a lock, and `Quits` that the quit is not posted, in the queue
  or received.
* `TasksRunAlways`: `Spec => []TasksRun`, for any tasks that start Threads of their
  own. `InOrder` reads what ran and what is queued as one increasing sequence;
  `Kept` says that nothing posted before the loop's last look has left it, which
  gives `PendingTasksRun`. `QuitMarked` needs that the mark, from the quit on, is
  cleared by a task of `Starters` that ran behind it and by nothing else.

`ThreadingProofs`, of `Timer` (all kinds of timer, any delays and clock):

* `TaskKeptAlways`: `TimerSpec => []TaskKept`, and `NeverEarlyAlways`:
  `TimerSpec => NeverEarly`. `Times` relates the three times: the task comes no later
  than the timer believes, the timer believes it no later than it is wanted, and
  where the two are equal the task comes no earlier than the user task may run,
  although loop and timer read the clock at different moments.

`WaitableEventWatcherProofs` (any events, watchers and addresses, so that each
waiter's address may come back to any watcher):

* `WatchesSoundAlways`: `Spec => []WatchesSound`. `Lists` says that the waiters
  which exist are in one wait-list each, once, with a flag of their own; `Owners`
  that a waiter whose flag is a watcher's is where that watcher looks for it, and
  that all but the one being deleted have such a watcher; `Ended` that a waiter
  whose watch is over, or whose callback is posted, is the one that the signaller
  is about to delete. It follows that `StopWatching`, which compares an address
  and a flag, never takes out the waiter of another watch.
* `StoppedNotCalled`: `Spec => NoCallAfterStop`, an action property, from `Ended`:
  a stopped watch whose callback is in the queue has its flag set.

`AuraInputProofs`, of gestures (any touches, of which finitely many are below
`kMaxGesturePoints`):

* `GesturesSound`: `Spec => []SequenceSound`, and `InTurn`:
  `Spec => GesturesInTurn`, both where `ReleasesSeen` holds. Without it
  the first is false (section 5). A scroll is open in `GS_SCROLL` and `GS_PINCH`
  unless `tapped`, and never both: so updates and ends without a begin come from what
  is left of a two-finger tap only. `GestureInv` adds to
  `SequenceSound` that a point in use belongs to a finger on the screen, that the
  timer of a long press runs only while the gesture may be a click, and what
  `open` can contain at all. `PressPoints` and `LiftPoints` are about
  the ids: the lowest free id goes to a new finger, and when a finger leaves, the
  higher ids move down, so that they stay `0 .. point_count_ - 1`, one each.
  Every case of the switch has a lemma.

`AuraInputProofs`, of the mouse (any windows, clients and bounds):

* `MovesSoundAlways`: `MouseSpec => []MovesSound`, whatever handlers do. `MovesSound`
  speaks of the moments between events, or of frames that begin; `MouseInv` says what
  holds in the middle of nested handlers. `Handlers`: a handler is visible, or `stale`
  (the moved one only), or a frame of `OnWindowHidden` on the stack will forget it.
  `Aims`: so is the window that a frame is about to make a handler. `HeldMove`: where a
  held move has neither hold nor task, a frame is dispatching it. `Order`: a new event
  of the mouse is in the lowest frame, the held one right above it, and a frame that
  begins with an earlier event has one of the same held event below it (`Repeats`).
  The lemmas are about one frame that goes on, is pushed or popped, for any stack.

`ObserverListThreadSafeProofs` (any threads, observers and addresses, so that the
address of a deleted context may come back on any thread; any nesting):

* `ContextsSoundAlways`: `Spec => []ContextsSound`. `Depths`: a context's
  `notify_depth_` is the number of frames, on any level, that walk it. `Held`: a
  context exists as long as a map entry or a frame holds it, and one thread holds
  it. `Lists` says what makes one deletion enough: cleared slots exist only while
  the context is walked, no observer has two slots, and a context that has left
  the map has cleared slots only, so that `End` on the lowest level compacts it to
  nothing and deletes it, and no other call can find it. `Found`: the map finds
  the registered observers.
* `TellsAllAlways`: `Spec => TellsAll`, an action property. `AllWalks` says of every
  frame, not only of the innermost, that whom it owes a call has a slot
  between its iterator and its end; slots are neither moved nor
  erased while a frame walks them (`Depths`), whatever nested calls do.

Erasing is written with counting (`Rank`, `Slot`, `Erased`) and not with
`SelectSeq`, whose recursion the provers cannot unfold; TLC compares the two on
every list of up to five slots (`ErasedSelects`). The proofs need `Null` to be
neither an observer nor an address, index or context, which
`ConstantsAssumption` states and a null pointer is.

`LayerAnimatorProofs` (any addresses, sequences, strategies, bounds on calls,
clock and depth):

* `AnimatorIsSound`: `Spec => []AnimatorSound`. Most of what it says of the moments
  between calls is false in the middle of them: sequences that could start wait, the
  timer is wrong, and what left the queue still exists. `Inv` reads the stack as a
  list of debts instead. `Nested` says of every frame what the frames below it
  promise: one that takes sequences out of the queue has a `ProcessQueue`, or a loop
  that ends in one, below it (`Starters`), one that changes whether there is anything
  to animate has an `UpdateAnimationState` below it (`Changers`), and what looks for
  common properties compares with a sequence that somebody below owns
  (`Comparers`). `Mended`: where a sequence could start or the timer is wrong, such a
  frame is on the stack; with an empty stack nothing is wrong, which is `Settled`.
  `Existing`: each sequence on the heap is in the queue or owned by exactly
  one frame, so that it is deleted once and by somebody. `Stuck` says without
  the order of `ProcessQueue`'s scan that nothing can start: each sequence in the
  queue shares a property with a running one or with an earlier one. Every function
  has a lemma; the `Put` lemmas say what a frame of each kind needs of the stack it is
  put on, whatever is below.

Erasing from a list is its first match only (`Erased`, with `RemoveAt` of the
community modules), and that a sequence is in each list once is proved, not
assumed.

Only model-checked: `StartOrder` of the loop (it compares sequence numbers modulo
`SeqMod` and holds only while fewer tasks than half of that wait together, which
the small instance guarantees and the constants do not), and all liveness
properties.
Each inductive invariant above was checked by TLC on the
instance of its run before it was proved. Three things are out of the
prover's reach: liveness under fairness (and `ENABLED`); what a recursive
definition computes for every input, since the library's induction theorems take
an operator as a parameter; and modules with `RECURSIVE` operators, of which
there are none here.

## 5. Where the code departs from its documentation

Statements that the repository makes and the code does not keep. Each is a
definition in its module (or a constant that takes the cause away in the runs of
section 3), kept out of the runs above; putting the named property, or the other value of the
constant, into the shipped configuration makes TLC print the behaviour.

| Statement | To reproduce | What happens |
|---|---|---|
| "Tasks posted via PostNonNestableTask are run in FIFO order" (`sequenced_task_runner.h:69`) | `NonNestableStartOrder` in `MessageLoop`, with `Tasks = {t1, t2, t3}` | a task deferred by a nested loop waits until the outermost loop is idle (`message_loop.cc:485`); one posted later overtakes it |
| `DCHECK(keep_running_)`, "Quit must have been called outside of Run!" (`message_pump_default.cc:21`) | `RunStartsWithPumpRunning` | a task calls `QuitNow` and then `Run`; without DCHECKs the nested loop swallows the quit of the outer one |
| of `SKIP_ON_SHUTDOWN`, "tasks already in progress will be completed" (`sequenced_worker_pool.h:86`) | `SkipCompletes` in `SequencedWorkerPool` | `CanShutdown` counts `BLOCK_SHUTDOWN` tasks only, and `Shutdown` returns in the middle of the others |
| "We really want to delete these tasks outside the lock" (`sequenced_worker_pool.cc:780`) | `ClosuresDestroyedUnlocked` | a worker that collected closures and found nothing to run destroys them when `ThreadLoop` breaks, under `lock_` |
| "Blocks until all pending tasks are complete" (`sequenced_worker_pool.h:244`) | `FlushReturns`, under `FairSpec` with a flusher | a flush in progress at `Shutdown` never returns, since exited workers still count in `IsIdle` |
| a deleted event acts "as if the event was never signaled" (`waitable_event_watcher.h:59`) | `DeletedNeverSignals` in `WaitableEventWatcher` | signaled, then deleted, then reported by the queued callback, with a dangling pointer |
| "Assert that MessageLoop::Quit was called by ThreadQuitHelper" (`thread.cc:175`) | `QuitProperlyAsserted` in `Thread` | `StartWithOptions` clears the mark of the thread that calls it (`thread.cc:69`), not of the one it starts: a task behind the quit that starts a `Thread` makes the assertion fail |
| Terminate "Stops handing out tasks to worker threads" (`worker_pool_posix.h:57`) | `NothingAfterTerminate` in `PosixDynamicThreadPool` | `terminated_` is looked at before the wait and not after it (`worker_pool_posix.cc:187`) |
| StopAnimating "Stops all animation and clears any queued animations" (`layer_animator.h:118`) | `StopFindsRunning` in `LayerAnimator` | called by an observer of the animation that just ended, with another one queued, it reads `running_animations_[0]` of an empty vector (`layer_animator.cc:217`) |
| Step works on a copy because finishing "may indirectly affect the collection of running animations" (`layer_animator.cc:261`) | `FinishedInTime` | the copy is looked up by address: a new sequence where an old one was deleted is finished by the old start time (`layer_animator.cc:267`) |
| no "two PRESSED events from the same finger without either a RELEASE or CANCEL in between" (`gesture_sequence.cc:234`) | `PressedOnce`, or `SequenceSound`, with `ReleasesSeen = FALSE` | a handler consumes the release of a touch whose press it let pass: the point stays in use, and the next press gives it a second id |
| "when modifying these state transitions, also update gestures.dot" (`gesture_sequence.cc:243`) | `FollowsDiagram` in `GestureSequence` | a second finger far from the first goes straight to a pinch, which the diagram does not draw |
| "release the pointer to those windows" (`root_window.cc:897`) | `HandlersAlwaysVisible` in `RootWindowMouse` | the `EXITED` handler of the old window hides the new target, which is stored as the moved handler afterwards (`root_window.cc:681`) |
| "dispatching another one may not be safe/expected" (`root_window.cc:512`) | `DispatchedOnce` in `RootWindowMouse` | a handler of a held move resizes the host, and the held move is dispatched again inside itself (`root_window.cc:1008`) |

No text of the repository says that a scroll which is updated or ended has begun, but
its consumers may well think so: `ScrollsBegun` in `GestureSequence` is violated. When
one finger of a two-finger tap is lifted or cancelled the sequence goes to `GS_SCROLL`
without `SCROLL_BEGIN` (`gesture_sequence.cc:300`), and the finger that is left makes
`SCROLL_UPDATE` and `SCROLL_END`. `GesturesInTurn` makes an exception of these fingers.

## 6. Not modelled

* `SimpleThread` and its pool, `PostTaskAndReply`, `LazyInstance`, `ObserverList`
  by itself, `GestureRecognizerImpl` (targets and queues of touches),
  `RootWindow`'s drawing and compositor locks: small state machines that fit the
  same pattern, left for later. The Windows XP condition variable likewise.
* Message loops that a handler of a mouse event runs inside itself, and what they
  dispatch in the middle of `RootWindow`'s own dispatch.
* The platform pumps: half of their behaviour is that of glib, libevent or the
  Windows message queue, which are not in the repository.
* `ui/views`, the window tree, focus and activation: large and sequential, and
  their correctness is mostly layout and traversal, which tests reach.
* Drawing, resources, clipboard, IME, parsing, strings, files, processes, tracing
  and histograms: no ordering, or system calls. Third-party code.

The repository has some 368,000 lines, most of them in this last group or in
`views`; the modelled share is small and is the part where order matters.

## 7. Plan

1. *(done)* `MessageLoop` with its pump and proxy; `SequencedWorkerPool` and its
   first theorems.
2. *(done)* `WaitableEvent` with its contract and the refinement; watcher,
   `Thread`, `Timer`, observer list, posix pool with its theorems; animator,
   gestures, mouse events.
3. *(done)* Proofs: the message loop, shutdown and flush of the sequenced pool,
   the events with the refinement of their contract, threads and timers.
4. *(done)* Proofs: the watcher, which stands on the same wait-lists, the
   gestures and the mouse events, whose invariants are over fingers and over stacks
   of calls in progress, the observer list, whose notifications walk lists that
   change under them, and the animator, whose loops do so at every depth.
5. `PostTaskAndReply` and `LazyInstance`; `GestureRecognizerImpl` on top of
   `GestureSequence`; the compositor lock.
