------------------------------- MODULE Thread -------------------------------
(***************************************************************************)
(* base/threading/thread.cc: an owner starts a thread with a MessageLoop   *)
(* of its own, posts tasks to it, and stops it: Stop, StopSoon and the     *)
(* thread itself share message_loop_ and stopping_ without a lock.  The    *)
(* loop is reduced to its queue and its last look at it: a quit lets it    *)
(* run until it finds the queue empty.                                     *)
(***************************************************************************)
EXTENDS Integers, Sequences

CONSTANTS
  MaxStarts,      \* bound: calls of Start
  MaxPosts,       \* bound: tasks posted to the loop
  Starters        \* the tasks that Start a Thread of their own

ASSUME ConstantsAssumption ==
  MaxStarts \in Nat /\ MaxPosts \in Nat /\ Starters \subseteq 1 .. MaxPosts

Quit == 0         \* the task ThreadQuitHelper; the others are numbered
NULL == 0
Tasks == 1 .. MaxPosts

VARIABLES
  started_, stopping_, running_,
  startup_data_,    \* whether it points to the StartupData of StartWithOptions
  event,            \* its event is signaled
  message_loop_,    \* the number of the loop, or NULL
  loop,             \* the loop of the latest thread: exists, queue, quit_received
  owner,            \* where the owner is; stop: it goes on from StopSoon to Join
  pc,               \* where the latest thread is in ThreadMain
  quitProperly,     \* ThreadWasQuitProperly, in the thread's own storage
  starts, posts,    \* calls so far
  ran,              \* history: the tasks that ran, in order
  before,           \* history: the tasks posted before the loop's last look
  quitAt            \* history: how many tasks had run at ThreadQuitHelper

vars == <<started_, stopping_, running_, startup_data_, event, message_loop_, loop,
          owner, pc, quitProperly, starts, posts, ran, before, quitAt>>
ownerVars  == <<started_, stopping_, startup_data_, owner, starts>>
threadVars == <<running_, message_loop_, pc, quitProperly>>

NoLoop == [exists |-> FALSE, queue |-> <<>>, quit_received |-> FALSE]
Posted(task) == loop' = [loop EXCEPT !.queue = Append(@, task)]

\* The loop will look at its queue again.
Looks == pc = "Run" \/ (pc = "idle" /\ ~loop.quit_received)

-----------------------------------------------------------------------------
(* The owner *)

\* StartWithOptions.  Stop resets the object before it may be started again.
StartWithOptions ==
  /\ owner.at = "idle" /\ starts < MaxStarts
  /\ message_loop_ = NULL /\ ~started_
  /\ starts' = starts + 1
  /\ startup_data_' = TRUE /\ event' = FALSE
  /\ pc' = "constructed" /\ quitProperly' = FALSE
  /\ owner' = [owner EXCEPT !.at = "Wait"]
  /\ UNCHANGED <<started_, stopping_, running_, message_loop_, loop, posts, ran, before,
                 quitAt>>

\* PlatformThread::Create fails.
StartFails ==
  /\ owner.at = "idle" /\ starts < MaxStarts
  /\ message_loop_ = NULL /\ ~started_
  /\ starts' = starts + 1
  /\ startup_data_' = FALSE
  /\ UNCHANGED <<started_, stopping_, running_, event, message_loop_, loop, owner, pc,
                 quitProperly, posts, ran, before, quitAt>>

Started ==
  /\ owner.at = "Wait" /\ event
  /\ event' = FALSE
  /\ startup_data_' = FALSE /\ started_' = TRUE
  /\ owner' = [owner EXCEPT !.at = "idle"]
  /\ UNCHANGED <<stopping_, running_, message_loop_, loop, pc, quitProperly, starts,
                 posts, ran, before, quitAt>>

\* The owner posts through message_loop(), as long as it has not told the thread
\* to stop.
PostTask ==
  /\ owner.at = "idle" /\ started_ /\ ~stopping_ /\ message_loop_ # NULL
  /\ posts < MaxPosts
  /\ posts' = posts + 1
  /\ Posted(posts')
  /\ before' = before \cup {posts'}
  /\ UNCHANGED <<ownerVars, threadVars, event, ran, quitAt>>

\* Variant: the thread is taken to be usable when it is out of Run.
Stopping_WhileRunning == (stopping_ /\ running_) \/ message_loop_ = NULL

\* StopSoon has nothing to do.
Stopping == stopping_ \/ message_loop_ = NULL

\* StopSoon, alone or from Stop, reads message_loop_ ...
StopSoon(stop) ==
  /\ owner.at = "idle" /\ started_
  /\ owner' = [at |-> IF ~Stopping THEN "StopSoon" ELSE IF stop THEN "Join" ELSE "idle",
               stop |-> stop]
  /\ UNCHANGED <<started_, stopping_, startup_data_, starts, threadVars, event, loop,
                 posts, ran, before, quitAt>>

\* Variant: the quit is not posted.
StopSoonPost_Nothing ==
  /\ owner.at = "StopSoon"
  /\ stopping_' = TRUE
  /\ owner' = [owner EXCEPT !.at = IF owner.stop THEN "Join" ELSE "idle"]
  /\ UNCHANGED <<started_, startup_data_, starts, threadVars, event, loop, posts, ran,
                 before, quitAt>>

\* ... and posts to the loop it read.
StopSoonPost ==
  /\ owner.at = "StopSoon"
  /\ stopping_' = TRUE
  /\ Posted(Quit)
  /\ owner' = [owner EXCEPT !.at = IF owner.stop THEN "Join" ELSE "idle"]
  /\ UNCHANGED <<started_, startup_data_, starts, threadVars, event, posts, ran, before, quitAt>>

\* Stop returns when the thread has ended.
Join ==
  /\ owner.at = "Join" /\ pc = "exited"
  /\ started_' = FALSE /\ stopping_' = FALSE
  /\ owner' = [at |-> "idle", stop |-> FALSE]
  /\ pc' = "none"
  /\ UNCHANGED <<running_, message_loop_, quitProperly, startup_data_, starts, event,
                 loop, posts, ran, before, quitAt>>

-----------------------------------------------------------------------------
(* ThreadMain *)

Goto(from, to) == pc = from /\ pc' = to

ConstructLoop ==
  /\ Goto("constructed", "Init")
  /\ loop' = [exists |-> TRUE, queue |-> <<>>, quit_received |-> FALSE]
  /\ message_loop_' = starts
  /\ UNCHANGED <<ownerVars, running_, quitProperly, event, posts, ran, before, quitAt>>

\* Init() may post to the loop.
InitPosts ==
  /\ pc = "Init" /\ posts < MaxPosts
  /\ posts' = posts + 1 /\ Posted(posts')
  /\ before' = before \cup {posts'}
  /\ UNCHANGED <<ownerVars, threadVars, event, ran, quitAt>>

\* The owner is let go before the loop runs.
SignalStarted ==
  /\ Goto("Init", "Run")
  /\ running_' = TRUE
  /\ event' = TRUE
  /\ UNCHANGED <<ownerVars, message_loop_, quitProperly, loop, posts, ran, before, quitAt>>

\* A task of the loop; one that calls Start on another Thread object clears
\* ThreadWasQuitProperly in the storage of this thread.
RunTask ==
  LET task == Head(loop.queue) IN
  /\ pc = "Run" /\ loop.queue # <<>> /\ task # Quit
  /\ loop' = [loop EXCEPT !.queue = Tail(@)]
  /\ ran' = Append(ran, task)
  /\ quitProperly' = (quitProperly /\ task \notin Starters)
  /\ UNCHANGED <<ownerVars, running_, message_loop_, pc, event, posts, before, quitAt>>

\* A task, or another thread, posts through the loop's proxy while it exists.
ProxyPost ==
  /\ pc # "Init" /\ loop.exists /\ posts < MaxPosts
  /\ posts' = posts + 1 /\ Posted(posts')
  /\ before' = IF Looks THEN before \cup {posts'} ELSE before
  /\ UNCHANGED <<ownerVars, threadVars, event, ran, quitAt>>

\* Variant: the loop ends at once.
ThreadQuitHelper_Now ==
  /\ pc = "Run" /\ loop.queue # <<>> /\ Head(loop.queue) = Quit
  /\ loop' = [loop EXCEPT !.queue = <<>>, !.quit_received = TRUE]
  /\ quitProperly' = TRUE /\ quitAt' = Len(ran)
  /\ UNCHANGED <<ownerVars, running_, message_loop_, pc, event, posts, ran, before>>

ThreadQuitHelper ==
  /\ pc = "Run" /\ loop.queue # <<>> /\ Head(loop.queue) = Quit
  /\ loop' = [loop EXCEPT !.queue = Tail(@), !.quit_received = TRUE]
  /\ quitProperly' = TRUE /\ quitAt' = Len(ran)
  /\ UNCHANGED <<ownerVars, running_, message_loop_, pc, event, posts, ran, before>>

\* DoWork reloads its queue and finds it empty.
DoWorkNothing ==
  /\ loop.queue = <<>>
  /\ Goto("Run", "idle")
  /\ UNCHANGED <<ownerVars, running_, message_loop_, quitProperly, event, loop, posts, ran,
                 before, quitAt>>

\* DoIdleWork, then: without a quit the pump waits until something is posted ...
Wakes ==
  /\ ~loop.quit_received /\ loop.queue # <<>>
  /\ Goto("idle", "Run")
  /\ UNCHANGED <<ownerVars, running_, message_loop_, quitProperly, event, loop, posts, ran,
                 before, quitAt>>

\* ... with one it stops, and does not look at what was posted meanwhile.
DoIdleWorkQuit ==
  /\ loop.quit_received
  /\ Goto("idle", "leaving")
  /\ UNCHANGED <<ownerVars, running_, message_loop_, quitProperly, event, loop, posts, ran,
                 before, quitAt>>

RunEnds ==
  /\ Goto("leaving", "CleanUp")
  /\ running_' = FALSE
  /\ UNCHANGED <<ownerVars, message_loop_, quitProperly, event, loop, posts, ran, before,
                 quitAt>>

CleanUp ==
  /\ Goto("CleanUp", "destroy")
  /\ message_loop_' = NULL
  /\ UNCHANGED <<ownerVars, running_, quitProperly, event, loop, posts, ran, before, quitAt>>

\* ~MessageLoop deletes what is left, and ThreadMain returns.
DestroyLoop ==
  /\ Goto("destroy", "exited")
  /\ loop' = NoLoop
  /\ UNCHANGED <<ownerVars, running_, message_loop_, quitProperly, event, posts, ran,
                 before, quitAt>>

-----------------------------------------------------------------------------

Init ==
  /\ started_ = FALSE /\ stopping_ = FALSE /\ running_ = FALSE
  /\ startup_data_ = FALSE /\ event = FALSE
  /\ message_loop_ = NULL /\ loop = NoLoop
  /\ owner = [at |-> "idle", stop |-> FALSE]
  /\ pc = "none" /\ quitProperly = FALSE
  /\ starts = 0 /\ posts = 0 /\ ran = <<>> /\ before = {}
  /\ quitAt = 0

OwnerStep == Started \/ StopSoonPost \/ Join
ThreadStep ==
  \/ ConstructLoop \/ SignalStarted \/ RunTask \/ ThreadQuitHelper
  \/ DoWorkNothing \/ Wakes \/ DoIdleWorkQuit \/ RunEnds \/ CleanUp \/ DestroyLoop

Next ==
  \/ OwnerStep \/ ThreadStep
  \/ StartWithOptions \/ StartFails \/ PostTask \/ InitPosts \/ ProxyPost
  \/ \E stop \in BOOLEAN : StopSoon(stop)

Spec == Init /\ [][Next]_vars

\* The owner, once in a call, and the thread go on when they can.
FairSpec == Spec /\ WF_vars(OwnerStep) /\ WF_vars(ThreadStep)

-----------------------------------------------------------------------------
(* Properties *)

TypeOK ==
  /\ {started_, stopping_, running_, startup_data_, event, quitProperly} \subseteq BOOLEAN
  /\ message_loop_ \in 0 .. starts
  /\ loop.queue \in Seq(Tasks \cup {Quit})
  /\ loop.exists \/ loop = NoLoop
  /\ owner.at \in {"idle", "Wait", "StopSoon", "Join"}
  /\ starts \in 0 .. MaxStarts /\ posts \in 0 .. MaxPosts

\* ThreadMain works on the starter's stack, through startup_data_, only while
\* StartWithOptions is waiting for it.
StartupDataValid ==
  /\ pc \in {"constructed", "Init"} => startup_data_
  /\ startup_data_ => owner.at = "Wait"

\* Start's promise to its caller: it returns with message_loop() set, and it
\* stays set, and the thread running, until the thread is told to stop.
LoopAfterStart ==
  started_ /\ ~stopping_ /\ owner.at # "Join" => message_loop_ # NULL /\ running_

\* The owner and StopSoon touch message_loop_ without a lock: the loop they read
\* is still there when they post, and will look at its queue again.
PostsToLivingLoop == owner.at = "StopSoon" => loop.exists /\ Looks

\* One quit is posted for each start, whatever the order of StopSoon and Stop;
\* none is left for the next start.
OneQuit ==
  /\ \A i, j \in 1 .. Len(loop.queue) :
       loop.queue[i] = Quit /\ loop.queue[j] = Quit => i = j
  /\ loop.quit_received => \A i \in 1 .. Len(loop.queue) : loop.queue[i] # Quit

\* "All pending tasks queued on the thread's message loop will run to completion
\* before the thread is terminated", once each and in order: also what is posted
\* behind the quit, as long as the loop looks at its queue once more.  What
\* another thread posts after that last look is deleted with the loop.
PendingTasksRun ==
  /\ \A i \in 1 .. Len(ran) - 1 : ran[i] < ran[i + 1]
  /\ pc \in {"leaving", "CleanUp", "destroy", "exited", "none"} =>
       \A task \in before : \E i \in 1 .. Len(ran) : ran[i] = task

\* Stop leaves the object as it was constructed, and nothing of the old thread
\* is there for the next Start to meet.
StopResets ==
  owner.at = "idle" /\ ~started_ =>
    /\ ~stopping_ /\ ~running_ /\ ~startup_data_
    /\ message_loop_ = NULL /\ ~loop.exists

\* Start and Stop return.
CallsReturn == owner.at # "idle" ~> owner.at = "idle"

\* What ThreadMain asserts when Run has returned tells the truth: the thread's own
\* quit ended the loop, and the mark says so exactly if no task that ran behind the
\* quit has Started another Thread, which clears the mark in this thread's storage.
QuitMarked ==
  pc = "CleanUp" =>
    /\ loop.quit_received
    /\ quitProperly <=> \A i \in quitAt + 1 .. Len(ran) : ran[i] \notin Starters

\* ThreadMain: "Assert that MessageLoop::Quit was called by ThreadQuitHelper", in
\* every start of the thread.  A task in Starters behind the quit refutes it.
QuitProperlyAsserted == pc = "CleanUp" => quitProperly

\* What owner and thread share without a lock is valid whenever it is read, in
\* every start of the object.
SharingSafe ==
  TypeOK /\ StartupDataValid /\ LoopAfterStart /\ PostsToLivingLoop /\ OneQuit /\ StopResets

\* The thread ends as its documentation says: everything posted in time has run,
\* and the loop was ended by the thread's own quit task, which its mark records.
TasksRun == PendingTasksRun /\ QuitMarked
=============================================================================
