-------------------------- MODULE ThreadingProofs ---------------------------
(***************************************************************************)
(* base/threading and base/timer.cc: a thread and its owner, the threads   *)
(* of the pool, and a timer.                                               *)
(*                                                                         *)
(* Thread, for any number of starts and posts: what the owner and the      *)
(* thread share without a lock is valid when it is read, what was posted   *)
(* before the loop's last look at its queue runs once and in order, and    *)
(* the mark of the quit tells the truth.  The invariant pairs where the    *)
(* owner is with where the thread is; the order of the tasks needs the     *)
(* queue and the history of what ran to be read as one sequence.           *)
(*                                                                         *)
(* PosixDynamicThreadPool, for every number of threads and tasks:          *)
(* num_idle_threads_ counts the threads in TimedWait, and every pending    *)
(* task has a thread of its own on its way.  Both are proved together: the *)
(* second needs the counter to be right, since AddTask relies on it        *)
(* instead of starting a thread.                                           *)
(*                                                                         *)
(* Timer, for all kinds of timer, delays and bounds: a running timer keeps *)
(* its task, and the user task never runs before its time.  TaskKept is    *)
(* not inductive: that a reused task arrives early enough depends on the   *)
(* three times the timer and its task keep, which PostNewScheduledTask     *)
(* reads at two different moments.                                         *)
(***************************************************************************)
EXTENDS Thread, PosixDynamicThreadPool, Timer, FiniteSetTheorems, SequenceTheorems, TLAPS

Entries == Tasks \cup {Quit}

Types ==
  /\ started_ \in BOOLEAN /\ stopping_ \in BOOLEAN /\ running_ \in BOOLEAN
  /\ startup_data_ \in BOOLEAN /\ event \in BOOLEAN /\ quitProperly \in BOOLEAN
  /\ message_loop_ \in Nat
  /\ loop \in [exists : BOOLEAN, queue : Seq(Entries), quit_received : BOOLEAN]
  /\ owner \in [at : {"idle", "Wait", "StopSoon", "Join"}, stop : BOOLEAN]
  /\ pc \in {"none", "constructed", "Init", "Run", "idle", "leaving", "CleanUp", "destroy",
             "exited"}
  /\ starts \in 0 .. MaxStarts /\ posts \in 0 .. MaxPosts
  /\ ran \in Seq(Tasks) /\ before \in SUBSET Tasks /\ quitAt \in Nat

\* Where the thread is while the owner is where it is: the owner sees the thread
\* leave Run only after it has told it to.
Phases ==
  /\ startup_data_ <=> owner.at = "Wait"
  /\ event <=> owner.at = "Wait" /\ pc \in {"Run", "idle"}
  /\ pc = "none" <=> owner.at = "idle" /\ ~started_
  /\ owner.at = "Wait" => ~started_ /\ ~stopping_
  /\ pc \in {"constructed", "Init"} => owner.at = "Wait"
  /\ owner.at \in {"StopSoon", "Join"} => started_
  /\ owner.at = "StopSoon" => ~stopping_
  /\ owner.at = "Join" => stopping_
  /\ stopping_ => started_
  /\ pc \in {"leaving", "CleanUp", "destroy", "exited"} => stopping_

\* What the thread has made of what they share.
Shared ==
  /\ running_ <=> pc \in {"Run", "idle", "leaving"}
  /\ message_loop_ # NULL <=> pc \in {"Init", "Run", "idle", "leaving", "CleanUp"}
  /\ message_loop_ <= starts
  /\ loop.exists <=> pc \in {"Init", "Run", "idle", "leaving", "CleanUp", "destroy"}
  /\ ~loop.exists => loop = NoLoop
  /\ pc \in {"constructed", "Init", "Run", "idle"} => starts # 0

\* The one quit: not posted, in the queue, or received.
AtMostOne(q) == \A i, j \in 1 .. Len(q) : q[i] = Quit /\ q[j] = Quit => i = j
None(q)      == \A i \in 1 .. Len(q) : q[i] # Quit

Quits ==
  /\ AtMostOne(loop.queue)
  /\ loop.quit_received \/ ~stopping_ => None(loop.queue)
  /\ loop.quit_received => stopping_
  /\ pc \in {"leaving", "CleanUp"} => loop.quit_received

\* Once the quit has run, the mark tells which tasks ran behind it.
Unmarked == \E i \in quitAt + 1 .. Len(ran) : ran[i] \in Starters
Marked   == loop.quit_received => quitAt <= Len(ran) /\ (quitProperly <=> ~Unmarked)

\* r ran and q is queued, in the order of posting, and n is the latest task.
InOrder(r, q, n) ==
  /\ \A i, j \in 1 .. Len(r) : i < j => r[i] < r[j]
  /\ \A i, j \in 1 .. Len(q) : i < j /\ q[i] # Quit /\ q[j] # Quit => q[i] < q[j]
  /\ \A i \in 1 .. Len(r), j \in 1 .. Len(q) : q[j] # Quit => r[i] < q[j]
  /\ \A i \in 1 .. Len(r) : r[i] <= n
  /\ \A i \in 1 .. Len(q) : q[i] <= n

In(a, q) == \E i \in 1 .. Len(q) : q[i] = a

\* All that was posted before the loop's last look has run or is queued.
Kept ==
  \A a \in before : In(a, ran) \/ ((pc = "Init" \/ Looks) /\ In(a, loop.queue))

Inv ==
  /\ Types /\ Phases /\ Shared /\ Quits /\ Marked
  /\ InOrder(ran, loop.queue, posts) /\ Kept

-----------------------------------------------------------------------------
(* Sequences of tasks *)

\* An entry at the end: the entries of the longer sequence.
LEMMA Last ==
  ASSUME NEW S, NEW q \in Seq(S), NEW e \in S
  PROVE  /\ Append(q, e) \in Seq(S)
         /\ Len(q) \in Nat /\ Len(Append(q, e)) = Len(q) + 1
         /\ \A i \in 1 .. Len(q) : Append(q, e)[i] = q[i]
         /\ Append(q, e)[Len(q) + 1] = e
BY AppendProperties, LenProperties

\* The first entry taken: the entries of the shorter sequence.
LEMMA First ==
  ASSUME NEW S, NEW q \in Seq(S), q # <<>>
  PROVE  /\ Tail(q) \in Seq(S) /\ Head(q) \in S /\ Head(q) = q[1]
         /\ Len(Tail(q)) \in Nat /\ Len(q) = Len(Tail(q)) + 1
         /\ \A i \in 1 .. Len(Tail(q)) : Tail(q)[i] = q[i + 1]
<1>1. Tail(q) \in Seq(S) /\ Head(q) \in S /\ Head(q) = q[1]
  BY HeadTailProperties
<1>2. Len(Tail(q)) \in Nat /\ Len(q) = Len(Tail(q)) + 1
  BY HeadTailProperties, LenProperties
<1> QED
  BY <1>1, <1>2, HeadTailProperties

\* The entries are numbers.
LEMMA Numbers ==
  /\ \A q \in Seq(Entries) : \A i \in 1 .. Len(q) : q[i] \in Nat
  /\ \A q \in Seq(Tasks) : \A i \in 1 .. Len(q) : q[i] \in Nat
BY ElementOfSeq, ConstantsAssumption DEF ConstantsAssumption, Entries, Tasks, Quit

\* The next task is posted behind all others.
LEMMA OrderPost ==
  ASSUME NEW r \in Seq(Tasks), NEW q \in Seq(Entries), NEW n \in Nat, n + 1 \in Tasks,
         InOrder(r, q, n)
  PROVE  InOrder(r, Append(q, n + 1), n + 1)
<1> DEFINE s == Append(q, n + 1)
<1>1. n + 1 \in Entries
  BY DEF Entries
<1>2. /\ Len(q) \in Nat /\ Len(s) = Len(q) + 1
      /\ \A i \in 1 .. Len(q) : s[i] = q[i]
      /\ s[Len(q) + 1] = n + 1
  BY <1>1, Last
<1> HIDE DEF s
<1>3. \A i \in 1 .. Len(q) : q[i] \in Nat /\ q[i] <= n
  BY Numbers DEF InOrder
<1>4. \A i \in 1 .. Len(r) : r[i] \in Nat /\ r[i] <= n
  BY Numbers DEF InOrder
<1>5. \A i \in 1 .. Len(s) : (i \in 1 .. Len(q) /\ s[i] = q[i]) \/ (i = Len(q) + 1 /\ s[i] = n + 1)
  BY <1>2
<1>6. \A i, j \in 1 .. Len(s) : i < j /\ s[i] # Quit /\ s[j] # Quit => s[i] < s[j]
  <2> SUFFICES ASSUME NEW i \in 1 .. Len(s), NEW j \in 1 .. Len(s),
                      i < j, s[i] # Quit, s[j] # Quit
               PROVE  s[i] < s[j]
    OBVIOUS
  <2>1. i \in 1 .. Len(q) /\ s[i] = q[i]
    BY <1>2
  <2>2. CASE j \in 1 .. Len(q)
    BY <1>2, <2>1, <2>2 DEF InOrder
  <2>3. CASE j = Len(q) + 1
    BY <1>2, <1>3, <2>1, <2>3
  <2> QED
    BY <1>5, <2>2, <2>3
<1>7. \A i \in 1 .. Len(r), j \in 1 .. Len(s) : s[j] # Quit => r[i] < s[j]
  <2> SUFFICES ASSUME NEW i \in 1 .. Len(r), NEW j \in 1 .. Len(s), s[j] # Quit
               PROVE  r[i] < s[j]
    OBVIOUS
  <2>1. CASE j \in 1 .. Len(q) /\ s[j] = q[j]
    BY <2>1 DEF InOrder
  <2>2. CASE s[j] = n + 1
    BY <1>4, <2>2
  <2> QED
    BY <1>5, <2>1, <2>2
<1>8. \A i \in 1 .. Len(s) : s[i] <= n + 1
  BY <1>3, <1>5
<1>9. \A i \in 1 .. Len(r) : r[i] <= n + 1
  BY <1>4
<1> QED
  BY <1>6, <1>7, <1>8, <1>9 DEF InOrder, s

\* The quit task has no place in the order.
LEMMA OrderQuit ==
  ASSUME NEW r \in Seq(Tasks), NEW q \in Seq(Entries), NEW n \in Nat, InOrder(r, q, n)
  PROVE  InOrder(r, Append(q, Quit), n)
<1> DEFINE s == Append(q, Quit)
<1>1. /\ Len(q) \in Nat /\ Len(s) = Len(q) + 1
      /\ \A i \in 1 .. Len(q) : s[i] = q[i]
      /\ s[Len(q) + 1] = Quit
  BY Last DEF Entries
<1> HIDE DEF s
<1>2. \A i \in 1 .. Len(s) : s[i] # Quit => i \in 1 .. Len(q) /\ s[i] = q[i]
  BY <1>1
<1>3. \A i \in 1 .. Len(s) : s[i] <= n
  BY <1>1 DEF InOrder, Quit
<1> QED
  BY <1>2, <1>3 DEF InOrder, s

\* The first of the queue is the next to run.
LEMMA OrderRun ==
  ASSUME NEW r \in Seq(Tasks), NEW q \in Seq(Entries), NEW n \in Nat, InOrder(r, q, n),
         q # <<>>
  PROVE  /\ Head(q) # Quit => InOrder(Append(r, Head(q)), Tail(q), n)
         /\ InOrder(r, Tail(q), n)
<1> DEFINE t == Tail(q)
           u == Append(r, Head(q))
<1>1. /\ Head(q) \in Entries /\ Head(q) = q[1] /\ Len(t) \in Nat /\ Len(q) = Len(t) + 1
      /\ \A i \in 1 .. Len(t) : t[i] = q[i + 1]
  BY First
<1> HIDE DEF t
<1>2. \A i \in 1 .. Len(t) : i + 1 \in 1 .. Len(q)
  BY <1>1
<1>3. \A i \in 1 .. Len(t), j \in 1 .. Len(t) : i < j => i + 1 < j + 1
  BY <1>1
<1>4. InOrder(r, t, n)
  BY <1>1, <1>2, <1>3 DEF InOrder
<1>5. ASSUME Head(q) # Quit
      PROVE  InOrder(u, t, n)
  <2>1. Head(q) \in Tasks
    BY <1>1, <1>5 DEF Entries
  <2>2. /\ Len(r) \in Nat /\ Len(u) = Len(r) + 1
        /\ \A i \in 1 .. Len(r) : u[i] = r[i]
        /\ u[Len(r) + 1] = q[1]
    BY <1>1, <2>1, Last
  <2> HIDE DEF u
  <2>3. \A i \in 1 .. Len(u) : (i \in 1 .. Len(r) /\ u[i] = r[i]) \/ (i = Len(r) + 1 /\ u[i] = q[1])
    BY <2>2
  <2>4. 1 \in 1 .. Len(q) /\ q[1] # Quit
    BY <1>1, <1>5
  <2>5. ASSUME NEW i \in 1 .. Len(u), NEW j \in 1 .. Len(u), i < j
        PROVE  u[i] < u[j]
    <3>1. i \in 1 .. Len(r) /\ u[i] = r[i]
      BY <2>2, <2>5
    <3> QED
      BY <2>3, <2>4, <2>5, <3>1 DEF InOrder
  <2>6. ASSUME NEW i \in 1 .. Len(u), NEW j \in 1 .. Len(t), t[j] # Quit
        PROVE  u[i] < t[j]
    <3>1. j + 1 \in 1 .. Len(q) /\ 1 < j + 1 /\ t[j] = q[j + 1]
      BY <1>1
    <3>2. CASE i \in 1 .. Len(r)
      BY <2>2, <2>6, <3>1, <3>2 DEF InOrder
    <3>3. CASE i = Len(r) + 1
      BY <2>2, <2>4, <2>6, <3>1, <3>3 DEF InOrder
    <3> QED
      BY <2>3, <3>2, <3>3
  <2>7. \A i \in 1 .. Len(u) : u[i] <= n
    BY <2>3, <2>4 DEF InOrder
  <2> QED
    BY <1>4, <2>5, <2>6, <2>7 DEF InOrder
<1> QED
  BY <1>4, <1>5 DEF t

\* An empty queue is in order.
LEMMA OrderEmpty ==
  ASSUME NEW r, NEW q, NEW n, InOrder(r, q, n)
  PROVE  InOrder(r, <<>>, n)
BY DEF InOrder

\* The quit task and the others, in a queue that grows or shrinks.
LEMMA QuitsIn ==
  ASSUME NEW q \in Seq(Entries)
  PROVE  /\ None(q) => AtMostOne(q) /\ AtMostOne(Append(q, Quit))
         /\ \A e \in Tasks : /\ None(q) => None(Append(q, e))
                             /\ AtMostOne(q) => AtMostOne(Append(q, e))
         /\ q # <<>> /\ AtMostOne(q) =>
              AtMostOne(Tail(q)) /\ (Head(q) = Quit => None(Tail(q)))
         /\ q # <<>> /\ None(q) => None(Tail(q))
         /\ None(<<>>) /\ AtMostOne(<<>>)
<1>1. ASSUME None(q)
      PROVE  AtMostOne(q) /\ AtMostOne(Append(q, Quit))
  <2> DEFINE s == Append(q, Quit)
  <2>1. /\ Len(q) \in Nat /\ Len(s) = Len(q) + 1
        /\ \A i \in 1 .. Len(q) : s[i] = q[i]
    BY Last DEF Entries
  <2> HIDE DEF s
  <2>2. \A i \in 1 .. Len(s) : s[i] = Quit => i = Len(q) + 1
    BY <1>1, <2>1 DEF None
  <2> QED
    BY <1>1, <2>2 DEF None, AtMostOne, s
<1>2. ASSUME NEW e \in Tasks
      PROVE  /\ None(q) => None(Append(q, e))
             /\ AtMostOne(q) => AtMostOne(Append(q, e))
  <2> DEFINE s == Append(q, e)
  <2>1. e \in Entries /\ e # Quit
    BY ConstantsAssumption DEF ConstantsAssumption, Entries, Tasks, Quit
  <2>2. /\ Len(q) \in Nat /\ Len(s) = Len(q) + 1 /\ s[Len(q) + 1] = e
        /\ \A i \in 1 .. Len(q) : s[i] = q[i]
    BY <2>1, Last
  <2> HIDE DEF s
  <2>3. \A i \in 1 .. Len(s) : s[i] = Quit => i \in 1 .. Len(q) /\ q[i] = Quit
    BY <2>1, <2>2
  <2> QED
    BY <2>3 DEF None, AtMostOne, s
<1>3. ASSUME q # <<>>
      PROVE  /\ AtMostOne(q) => AtMostOne(Tail(q)) /\ (Head(q) = Quit => None(Tail(q)))
             /\ None(q) => None(Tail(q))
  <2> DEFINE t == Tail(q)
  <2>1. /\ Head(q) = q[1] /\ Len(t) \in Nat /\ Len(q) = Len(t) + 1
        /\ \A i \in 1 .. Len(t) : t[i] = q[i + 1]
    BY <1>3, First
  <2> HIDE DEF t
  <2>2. \A i \in 1 .. Len(t) : i + 1 \in 1 .. Len(q) /\ i + 1 # 1 /\ t[i] = q[i + 1]
    BY <2>1
  <2>3. \A i, j \in 1 .. Len(t) : i + 1 = j + 1 => i = j
    BY <2>1
  <2>4. 1 \in 1 .. Len(q)
    BY <2>1
  <2>5. AtMostOne(q) => AtMostOne(t)
    BY <2>2, <2>3 DEF AtMostOne
  <2>6. AtMostOne(q) /\ Head(q) = Quit => None(t)
    BY <2>1, <2>2, <2>4 DEF AtMostOne, None
  <2>7. None(q) => None(t)
    BY <2>2 DEF None
  <2> QED
    BY <2>5, <2>6, <2>7 DEF t
<1>4. None(<<>>) /\ AtMostOne(<<>>)
  BY DEF None, AtMostOne
<1> QED
  BY <1>1, <1>2, <1>3, <1>4

\* Nothing gets lost when a task is posted, or taken from the queue to run.
LEMMA Members ==
  ASSUME NEW S, NEW q \in Seq(S)
  PROVE  /\ \A e \in S : In(e, Append(q, e))
         /\ \A e \in S : \A x : In(x, q) => In(x, Append(q, e))
         /\ q # <<>> => \A x : In(x, q) => x = Head(q) \/ In(x, Tail(q))
         /\ \A x : ~In(x, <<>>)
<1>1. ASSUME NEW e \in S
      PROVE  In(e, Append(q, e)) /\ \A x : In(x, q) => In(x, Append(q, e))
  <2> DEFINE s == Append(q, e)
  <2>1. /\ Len(q) \in Nat /\ Len(s) = Len(q) + 1 /\ s[Len(q) + 1] = e
        /\ \A i \in 1 .. Len(q) : s[i] = q[i]
    BY Last
  <2> HIDE DEF s
  <2>2. Len(q) + 1 \in 1 .. Len(s) /\ \A i \in 1 .. Len(q) : i \in 1 .. Len(s)
    BY <2>1
  <2> QED
    BY <2>1, <2>2 DEF In, s
<1>2. ASSUME q # <<>>, NEW x, In(x, q)
      PROVE  x = Head(q) \/ In(x, Tail(q))
  <2> DEFINE t == Tail(q)
  <2>1. /\ Head(q) = q[1] /\ Len(t) \in Nat /\ Len(q) = Len(t) + 1
        /\ \A i \in 1 .. Len(t) : t[i] = q[i + 1]
    BY <1>2, First
  <2> HIDE DEF t
  <2>2. PICK i \in 1 .. Len(q) : q[i] = x
    BY <1>2 DEF In
  <2>3. CASE i = 1
    BY <2>1, <2>2, <2>3
  <2>4. CASE i # 1
    <3>1. i - 1 \in 1 .. Len(t) /\ (i - 1) + 1 = i
      BY <2>1, <2>4
    <3>2. t[i - 1] = x
      BY <2>1, <2>2, <3>1
    <3> QED
      BY <3>1, <3>2 DEF In, t
  <2> QED
    BY <2>3, <2>4
<1>3. \A x : ~In(x, <<>>)
  BY DEF In
<1> QED
  BY <1>1, <1>2, <1>3

-----------------------------------------------------------------------------
(* The steps *)

\* A post with the next number, by whoever, while there is a loop.
LEMMA PostInv ==
  ASSUME Inv, posts < MaxPosts, posts' = posts + 1, Posted(posts'), loop.exists,
         \/ before' = before
         \/ before' = before \cup {posts'} /\ (pc = "Init" \/ Looks),
         UNCHANGED <<ownerVars, threadVars, event, ran, quitAt>>
  PROVE  Inv'
<1> DEFINE q == loop.queue
           s == Append(loop.queue, posts + 1)
<1>1. /\ posts + 1 \in Tasks /\ posts + 1 \in Entries /\ posts \in Nat
      /\ posts' \in 0 .. MaxPosts /\ posts' = posts + 1
  BY ConstantsAssumption DEF ConstantsAssumption, Inv, Types, Entries, Tasks
<1>2. q \in Seq(Entries) /\ s \in Seq(Entries)
  BY <1>1, Last DEF Inv, Types
<1>3. /\ loop' \in [exists : BOOLEAN, queue : Seq(Entries), quit_received : BOOLEAN]
      /\ loop'.queue = s /\ loop'.exists = loop.exists
      /\ loop'.quit_received = loop.quit_received
  BY <1>1, <1>2 DEF Posted, Inv, Types
<1> HIDE DEF s
<1>4. UNCHANGED <<started_, stopping_, running_, startup_data_, event, message_loop_,
                  owner, pc, quitProperly, starts, ran, quitAt>>
  BY DEF ownerVars, threadVars
<1>5. Types'
  <2>1. before' \in SUBSET Tasks
    BY <1>1 DEF Inv, Types
  <2> QED
    BY <1>1, <1>3, <1>4, <2>1 DEF Inv, Types
<1>6. Phases'
  BY <1>4 DEF Inv, Phases
<1>7. Shared'
  BY <1>3, <1>4 DEF Inv, Shared
<1>8. Quits'
  BY <1>1, <1>2, <1>3, <1>4, QuitsIn DEF Inv, Quits, s
<1>9. InOrder(ran, loop.queue, posts)'
  BY <1>1, <1>2, <1>3, <1>4, OrderPost DEF Inv, Types, s
<1>10. Kept'
  BY <1>1, <1>2, <1>3, <1>4, Members DEF Inv, Kept, Looks, s
<1>11. Marked'
  BY <1>3, <1>4 DEF Inv, Marked, Unmarked
<1> QED
  BY <1>5, <1>6, <1>7, <1>8, <1>9, <1>10, <1>11 DEF Inv

\* The owner's steps that do not touch the loop.
LEMMA OwnerInv ==
  ASSUME Inv, StartWithOptions \/ StartFails \/ Started \/ (\E stop \in BOOLEAN : StopSoon(stop))
  PROVE  Inv'
<1>1. UNCHANGED <<loop, ran, before, quitAt, posts, stopping_, running_, message_loop_>>
  BY DEF StartWithOptions, StartFails, Started, StopSoon, threadVars
<1>2. Types' /\ Phases' /\ Shared' /\ Quits' /\ Kept'
  <2>1. CASE StartWithOptions
    <3>1. Types'
      <4>1. starts' \in 0 .. MaxStarts
        BY <2>1, ConstantsAssumption DEF ConstantsAssumption, StartWithOptions, Inv, Types
      <4> QED
        BY <2>1, <4>1 DEF StartWithOptions, Inv, Types
    <3>2. Phases'
      BY <2>1 DEF StartWithOptions, Inv, Types, Phases, Shared, NoLoop
    <3>3. Shared'
      BY <2>1 DEF StartWithOptions, Inv, Types, Phases, Shared, NoLoop
    <3>4. Quits'
      BY <2>1 DEF StartWithOptions, Inv, Types, Phases, Shared, Quits, NoLoop
    <3>5. Kept'
      BY <2>1 DEF StartWithOptions, Inv, Types, Phases, Kept, Looks, NoLoop
    <3> QED
      BY <3>1, <3>2, <3>3, <3>4, <3>5
  <2>2. CASE StartFails
    <3>1. Types'
      <4>1. starts' \in 0 .. MaxStarts
        BY <2>2, ConstantsAssumption DEF ConstantsAssumption, StartFails, Inv, Types
      <4> QED
        BY <2>2, <4>1 DEF StartFails, Inv, Types
    <3>2. Phases'
      BY <2>2 DEF StartFails, Inv, Types, Phases, Shared
    <3>3. Shared'
      BY <2>2 DEF StartFails, Inv, Types, Phases, Shared
    <3>4. Quits'
      BY <2>2 DEF StartFails, Inv, Types, Phases, Shared, Quits
    <3>5. Kept'
      BY <2>2 DEF StartFails, Inv, Types, Phases, Kept, Looks
    <3> QED
      BY <3>1, <3>2, <3>3, <3>4, <3>5
  <2>3. CASE Started
    BY <2>3 DEF Started, Inv, Types, Phases, Shared, Quits, Kept, Looks
  <2>4. ASSUME NEW stop \in BOOLEAN, StopSoon(stop)
        PROVE  Types' /\ Phases' /\ Shared' /\ Quits' /\ Kept'
    BY <2>4 DEF StopSoon, Stopping, Inv, Types, Phases, Shared, Quits, Kept, Looks, threadVars
  <2> QED
    BY <2>1, <2>2, <2>3, <2>4
<1>3. Marked'
  <2>1. CASE StartWithOptions
    BY <1>1, <2>1 DEF StartWithOptions, Inv, Phases, Shared, Marked, NoLoop
  <2>2. CASE quitProperly' = quitProperly
    BY <1>1, <2>2 DEF Inv, Marked, Unmarked
  <2> QED
    BY <2>1, <2>2 DEF StartFails, Started, StopSoon, threadVars
<1> QED
  BY <1>1, <1>2, <1>3 DEF Inv

\* The quit task is posted once, to a loop that runs.
LEMMA StopSoonPostInv ==
  ASSUME Inv, StopSoonPost
  PROVE  Inv'
<1> DEFINE q == loop.queue
           s == Append(loop.queue, Quit)
<1>1. q \in Seq(Entries) /\ s \in Seq(Entries)
  BY Last DEF Inv, Types, Entries
<1>2. /\ loop' \in [exists : BOOLEAN, queue : Seq(Entries), quit_received : BOOLEAN]
      /\ loop'.queue = s /\ loop'.exists = loop.exists
      /\ loop'.quit_received = loop.quit_received
  BY <1>1 DEF StopSoonPost, Posted, Inv, Types
<1> HIDE DEF s
<1>3. /\ owner.at = "StopSoon" /\ stopping_' = TRUE
      /\ owner' = [owner EXCEPT !.at = IF owner.stop THEN "Join" ELSE "idle"]
      /\ UNCHANGED <<started_, startup_data_, running_, message_loop_, pc, quitProperly,
                     starts, event, posts, ran, before, quitAt>>
  BY DEF StopSoonPost, threadVars
<1>4. Types'
  BY <1>2, <1>3 DEF Inv, Types
<1>5. Phases'
  BY <1>3 DEF Inv, Types, Phases
<1>6. Shared'
  BY <1>2, <1>3 DEF Inv, Types, Shared, Phases
<1>7. Quits'
  BY <1>1, <1>2, <1>3, QuitsIn DEF Inv, Quits, Phases, s
<1>8. InOrder(ran, loop.queue, posts)'
  BY <1>1, <1>2, <1>3, OrderQuit DEF Inv, Types, s
<1>9. Kept'
  BY <1>1, <1>2, <1>3, Members DEF Inv, Kept, Looks, Entries, s
<1>10. Marked'
  BY <1>2, <1>3 DEF Inv, Marked, Unmarked
<1> QED
  BY <1>4, <1>5, <1>6, <1>7, <1>8, <1>9, <1>10 DEF Inv

\* The thread's steps that leave the loop as it is.
LEMMA ThreadInv ==
  ASSUME Inv, \/ Join \/ SignalStarted \/ CleanUp
              \/ DoWorkNothing \/ Wakes \/ DoIdleWorkQuit \/ RunEnds
  PROVE  Inv'
<1>1. UNCHANGED <<loop, posts, ran, before, quitAt, quitProperly, starts, startup_data_>>
  BY DEF Join, SignalStarted, CleanUp, DoWorkNothing, Wakes, DoIdleWorkQuit, RunEnds, ownerVars
<1>2. Marked'
  BY <1>1 DEF Inv, Marked, Unmarked
<1>3. Types' /\ Phases' /\ Shared' /\ Quits' /\ Kept'
  <2>1. CASE Join
    <3>1. Types'
      BY <2>1 DEF Join, Inv, Types
    <3>2. Phases'
      BY <2>1 DEF Join, Inv, Types, Phases, Shared
    <3>3. Shared'
      BY <2>1 DEF Join, Inv, Types, Phases, Shared
    <3>4. Quits'
      BY <2>1 DEF Join, Inv, Types, Phases, Shared, Quits, NoLoop, None
    <3>5. Kept'
      BY <2>1 DEF Join, Inv, Types, Phases, Kept, Looks
    <3> QED
      BY <3>1, <3>2, <3>3, <3>4, <3>5
  <2>2. CASE SignalStarted
    BY <2>2 DEF SignalStarted, Goto, ownerVars, Inv, Types, Phases, Shared, Quits, Kept, Looks
  <2>3. CASE CleanUp
    BY <2>3 DEF CleanUp, Goto, ownerVars, Inv, Types, Phases, Shared, Quits, Kept, Looks, NULL
  <2>4. CASE DoWorkNothing
    <3>1. Types' /\ Phases' /\ Shared' /\ Quits'
      BY <2>4 DEF DoWorkNothing, Goto, ownerVars, Inv, Types, Phases, Shared, Quits
    <3>2. Kept'
      BY <2>4, Members DEF DoWorkNothing, Goto, Inv, Types, Kept, Looks
    <3> QED
      BY <3>1, <3>2
  <2>5. CASE Wakes
    BY <2>5 DEF Wakes, Goto, ownerVars, Inv, Types, Phases, Shared, Quits, Kept, Looks
  <2>6. CASE DoIdleWorkQuit
    BY <2>6 DEF DoIdleWorkQuit, Goto, ownerVars, Inv, Types, Phases, Shared, Quits, Kept, Looks
  <2>7. CASE RunEnds
    BY <2>7 DEF RunEnds, Goto, ownerVars, Inv, Types, Phases, Shared, Quits, Kept, Looks
  <2> QED
    BY <2>1, <2>2, <2>3, <2>4, <2>5, <2>6, <2>7
<1> QED
  BY <1>1, <1>2, <1>3 DEF Inv

\* The loop is made and destroyed by its thread.
LEMMA LoopInv ==
  ASSUME Inv, ConstructLoop \/ DestroyLoop
  PROVE  Inv'
<1>1. UNCHANGED <<posts, ran, before, quitAt, starts>>
  BY DEF ConstructLoop, DestroyLoop, ownerVars
<1>2. /\ loop' \in [exists : BOOLEAN, queue : Seq(Entries), quit_received : BOOLEAN]
      /\ loop'.queue = <<>> /\ loop'.quit_received = FALSE
      /\ loop'.exists \/ loop' = NoLoop
  <2>1. <<>> \in Seq(Entries)
    OBVIOUS
  <2>2. CASE loop' = [exists |-> TRUE, queue |-> <<>>, quit_received |-> FALSE]
    BY <2>1, <2>2
  <2>3. CASE loop' = NoLoop
    BY <2>1, <2>3 DEF NoLoop
  <2> QED
    BY <2>2, <2>3 DEF ConstructLoop, DestroyLoop
<1>3. Types' /\ Phases'
  BY <1>2 DEF ConstructLoop, DestroyLoop, Goto, ownerVars, Inv, Types, Phases, Shared
<1>4. Shared'
  <2>1. ConstructLoop => loop'.exists /\ starts # 0
    BY DEF ConstructLoop, Goto, Inv, Shared
  <2>2. DestroyLoop => ~loop'.exists
    BY DEF DestroyLoop, NoLoop
  <2> QED
    BY <1>2, <2>1, <2>2 DEF ConstructLoop, DestroyLoop, Goto, ownerVars, Inv, Types,
       Phases, Shared, NULL
<1>5. Quits' /\ Marked'
  BY <1>2, QuitsIn DEF ConstructLoop, DestroyLoop, Goto, ownerVars, Inv, Types,
     Phases, Shared, Quits, Marked
<1>6. Kept'
  BY <1>2, Members DEF ConstructLoop, DestroyLoop, Goto, Inv, Types, Kept, Looks
<1> QED
  BY <1>1, <1>2, <1>3, <1>4, <1>5, <1>6, OrderEmpty DEF Inv

\* A task runs, or the quit task.
LEMMA RunInv ==
  ASSUME Inv, RunTask \/ ThreadQuitHelper
  PROVE  Inv'
<1> DEFINE q == loop.queue
           t == Tail(loop.queue)
           h == Head(loop.queue)
<1>1. q \in Seq(Entries) /\ q # <<>> /\ pc = "Run"
  BY DEF Inv, Types, RunTask, ThreadQuitHelper
<1>2. t \in Seq(Entries) /\ h \in Entries
  BY <1>1, First
<1>3. UNCHANGED <<started_, stopping_, running_, startup_data_, event, message_loop_,
                  owner, pc, starts, posts, before>>
  BY DEF RunTask, ThreadQuitHelper, ownerVars
<1>4. /\ loop' \in [exists : BOOLEAN, queue : Seq(Entries), quit_received : BOOLEAN]
      /\ loop'.queue = t /\ loop'.exists = loop.exists
      /\ RunTask => loop'.quit_received = loop.quit_received
      /\ ThreadQuitHelper => loop'.quit_received
  <2>1. CASE RunTask
    <3>1. loop' = [loop EXCEPT !.queue = t] /\ ~ThreadQuitHelper
      BY <2>1 DEF RunTask, ThreadQuitHelper
    <3> HIDE DEF t
    <3> QED
      BY <1>2, <2>1, <3>1 DEF Inv, Types
  <2>2. CASE ThreadQuitHelper
    <3>1. loop' = [loop EXCEPT !.queue = t, !.quit_received = TRUE] /\ ~RunTask
      BY <2>2 DEF RunTask, ThreadQuitHelper
    <3> HIDE DEF t
    <3> QED
      BY <1>2, <2>2, <3>1 DEF Inv, Types
  <2> QED
    BY <2>1, <2>2
<1>5. RunTask => h \in Tasks /\ h # Quit /\ ran' = Append(ran, h)
  BY <1>2 DEF RunTask, Entries
<1>6. ThreadQuitHelper => h = Quit /\ ran' = ran
  BY DEF ThreadQuitHelper
<1>7. Types'
  <2>1. ran' \in Seq(Tasks)
    <3>1. ran \in Seq(Tasks)
      BY DEF Inv, Types
    <3> HIDE DEF h
    <3> QED
      BY <1>5, <1>6, <3>1, Last
  <2>2. quitProperly' \in BOOLEAN
    BY DEF RunTask, ThreadQuitHelper
  <2>3. quitAt' \in Nat
    BY LenProperties DEF RunTask, ThreadQuitHelper, Inv, Types
  <2> QED
    BY <1>3, <1>4, <2>1, <2>2, <2>3 DEF Inv, Types
<1>8. Phases'
  BY <1>3 DEF Inv, Phases
<1>9. Shared'
  BY <1>1, <1>3, <1>4 DEF Inv, Shared
<1>10. Quits'
  <2>1. AtMostOne(t) /\ (h = Quit => None(t)) /\ (None(q) => None(t))
    BY <1>1, QuitsIn DEF Inv, Quits
  <2>2. CASE RunTask
    BY <1>1, <1>3, <1>4, <2>1, <2>2 DEF Inv, Quits
  <2>3. CASE ThreadQuitHelper
    <3>1. quitProperly' = TRUE /\ ~None(q)
      <4>1. 1 \in 1 .. Len(q) /\ q[1] = Quit
        BY <1>1, <1>6, <2>3, First
      <4> QED
        BY <2>3, <4>1 DEF ThreadQuitHelper, None
    <3> QED
      BY <1>1, <1>3, <1>4, <1>6, <2>1, <2>3, <3>1 DEF Inv, Quits
  <2> QED
    BY <2>2, <2>3
<1>11. InOrder(ran, loop.queue, posts)'
  <2>1. posts \in Nat /\ ran \in Seq(Tasks)
    BY DEF Inv, Types
  <2> QED
    <3>1. (h # Quit => InOrder(Append(ran, h), t, posts)) /\ InOrder(ran, t, posts)
      BY <1>1, <2>1, OrderRun DEF Inv
    <3> HIDE DEF h, t
    <3> QED
      BY <1>3, <1>4, <1>5, <1>6, <3>1
<1>12. Kept'
  <2> SUFFICES ASSUME NEW job \in before
               PROVE  In(job, ran') \/ In(job, t)
    BY <1>1, <1>3, <1>4 DEF Kept, Looks
  <2>1. job \in Tasks /\ ran \in Seq(Tasks)
    BY DEF Inv, Types
  <2>2. job # Quit
    BY <2>1 DEF Tasks, Quit
  <2>3. In(job, ran) \/ job = h \/ In(job, t)
    BY <1>1, Members DEF Inv, Kept
  <2>4. In(job, ran) => In(job, ran')
    BY <1>5, <1>6, <2>1, Members
  <2>5. job = h => In(job, ran')
    BY <1>5, <1>6, <2>1, <2>2, Members
  <2> QED
    BY <2>3, <2>4, <2>5
<1>13. Marked'
  <2>1. ran \in Seq(Tasks) /\ Len(ran) \in Nat /\ quitAt \in Nat
    BY LenProperties DEF Inv, Types
  <2>2. CASE RunTask
    <3>1. /\ loop'.quit_received = loop.quit_received /\ quitAt' = quitAt
          /\ ran' = Append(ran, h) /\ h \in Tasks
          /\ quitProperly' = (quitProperly /\ h \notin Starters)
      BY <1>4, <1>5, <2>2 DEF RunTask
    <3>2. /\ Len(ran') = Len(ran) + 1 /\ ran'[Len(ran) + 1] = h
          /\ \A i \in 1 .. Len(ran) : ran'[i] = ran[i]
      BY <2>1, <3>1, Last
    <3>3. quitAt <= Len(ran) => (Unmarked' <=> Unmarked \/ h \in Starters)
      <4> HIDE DEF h
      <4> SUFFICES ASSUME quitAt <= Len(ran)
                   PROVE  Unmarked' <=> Unmarked \/ h \in Starters
        OBVIOUS
      <4>1. \A i \in quitAt + 1 .. Len(ran') :
              \/ i \in quitAt + 1 .. Len(ran) /\ ran'[i] = ran[i]
              \/ i = Len(ran) + 1
        BY <2>1, <3>2
      <4>2. \A i \in quitAt + 1 .. Len(ran) : i \in quitAt + 1 .. Len(ran') /\ ran'[i] = ran[i]
        BY <2>1, <3>2
      <4>3. Len(ran) + 1 \in quitAt + 1 .. Len(ran')
        BY <2>1, <3>2
      <4> QED
        BY <3>1, <3>2, <4>1, <4>2, <4>3 DEF Unmarked
    <3> HIDE DEF h
    <3>4. quitAt <= Len(ran) => quitAt' <= Len(ran')
      BY <2>1, <3>1, <3>2
    <3> QED
      BY <3>1, <3>3, <3>4 DEF Inv, Types, Marked
  <2>3. CASE ThreadQuitHelper
    <3>1. quitAt' = Len(ran) /\ ran' = ran /\ quitProperly' = TRUE
      BY <2>3 DEF ThreadQuitHelper
    <3>2. quitAt' + 1 .. Len(ran') = {}
      BY <2>1, <3>1
    <3> QED
      BY <2>1, <3>1, <3>2 DEF Marked, Unmarked
  <2> QED
    BY <2>2, <2>3
<1> QED
  BY <1>7, <1>8, <1>9, <1>10, <1>11, <1>12, <1>13 DEF Inv

\* Every step keeps the invariant.
LEMMA Step ==
  ASSUME Inv, [Next]_vars
  PROVE  Inv'
<1>1. CASE PostTask
  <2>1. Looks /\ loop.exists
    BY <1>1 DEF PostTask, Looks, Inv, Types, Phases, Shared, Quits
  <2> QED
    BY <1>1, <2>1, PostInv DEF PostTask
<1>2. CASE InitPosts
  <2>1. loop.exists
    BY <1>2 DEF InitPosts, Inv, Shared
  <2> QED
    BY <1>2, <2>1, PostInv DEF InitPosts
<1>3. CASE ProxyPost
  BY <1>3, PostInv DEF ProxyPost
<1>4. CASE UNCHANGED vars
  BY <1>4 DEF vars, Inv, Types, Phases, Shared, Quits, Marked, Unmarked, Kept, Looks
<1> QED
  BY <1>1, <1>2, <1>3, <1>4, OwnerInv, StopSoonPostInv, ThreadInv, LoopInv, RunInv
  DEF Next, OwnerStep, ThreadStep

\* The invariant holds initially.
LEMMA Base == Init => Inv
<1> SUFFICES ASSUME Init PROVE Inv
  OBVIOUS
<1> USE ConstantsAssumption DEF ConstantsAssumption, Init, NoLoop, NULL
<1>1. <<>> \in Seq(Entries) /\ <<>> \in Seq(Tasks)
  OBVIOUS
<1>2. Types
  <2>1. loop \in [exists : BOOLEAN, queue : Seq(Entries), quit_received : BOOLEAN]
    BY <1>1
  <2>2. starts \in 0 .. MaxStarts /\ posts \in 0 .. MaxPosts
    OBVIOUS
  <2> QED
    BY <1>1, <2>1, <2>2 DEF Types
<1>3. Phases /\ Shared
  BY DEF Phases, Shared
<1>4. Quits /\ Marked /\ InOrder(ran, loop.queue, posts) /\ Kept
  BY DEF Quits, Marked, AtMostOne, None, InOrder, Kept
<1> QED
  BY <1>2, <1>3, <1>4 DEF Inv

\* The invariant holds in every state.
LEMMA Invariance == Spec => []Inv
BY Base, Step, PTL DEF Spec

-----------------------------------------------------------------------------
(* The theorems *)

\* The startup data, the loop pointer and the loop itself are valid whenever owner
\* and thread use them without a lock; one quit is posted; Stop resets the object.
THEOREM SharingSafeAlways == Spec => []SharingSafe
<1>1. ASSUME Inv PROVE SharingSafe
  <2>1. TypeOK
    <3>1. message_loop_ \in 0 .. starts
      BY <1>1 DEF Inv, Types, Shared
    <3> QED
      BY <1>1, <3>1 DEF TypeOK, Inv, Types, Shared, Entries
  <2>2. StartupDataValid /\ LoopAfterStart /\ PostsToLivingLoop
    BY <1>1 DEF StartupDataValid, LoopAfterStart, PostsToLivingLoop, Looks, Inv, Types,
       Phases, Shared, Quits
  <2>3. OneQuit
    BY <1>1 DEF OneQuit, Inv, Quits, AtMostOne, None
  <2>4. StopResets
    BY <1>1 DEF StopResets, Inv, Types, Phases, Shared
  <2> QED
    BY <2>1, <2>2, <2>3, <2>4 DEF SharingSafe
<1> QED
  BY <1>1, Invariance, PTL

\* What was posted before the loop's last look at its queue has run when Run returns.
LEMMA PendingTasksHaveRun == Inv => PendingTasksRun
<1> SUFFICES ASSUME Inv PROVE PendingTasksRun
  OBVIOUS
<1>1. ASSUME NEW i \in 1 .. Len(ran) - 1
      PROVE  ran[i] < ran[i + 1]
  <2>1. Len(ran) \in Nat
    BY LenProperties DEF Inv, Types
  <2>2. i \in 1 .. Len(ran) /\ i + 1 \in 1 .. Len(ran) /\ i < i + 1
    BY <2>1
  <2> QED
    BY <2>2 DEF Inv, InOrder
<1> QED
  BY <1>1 DEF PendingTasksRun, Inv, Kept, Looks, In

\* Each task posted before the loop's last look at its queue runs, once and in the
\* order of posting, before the thread leaves Run, in every start; the loop was
\* ended by the thread's own quit task, and the mark ThreadMain asserts is missing
\* exactly when a task behind the quit has Started another Thread.
THEOREM TasksRunAlways == Spec => []TasksRun
<1>1. Inv => QuitMarked
  BY DEF Inv, Quits, Marked, Unmarked, QuitMarked
<1>2. Inv => TasksRun
  BY <1>1, PendingTasksHaveRun DEF TasksRun
<1> QED
  BY <1>2, Invariance, PTL

-----------------------------------------------------------------------------
(* PosixDynamicThreadPool *)

PoolInv == PoolTypeOK /\ EachTaskHasAThread

-----------------------------------------------------------------------------
(* Counting *)

\* The sets of threads are finite, and their sizes numbers.
LEMMA Counted ==
  /\ IsFiniteSet(Idle) /\ Cardinality(Idle) \in Nat
  /\ IsFiniteSet(Coming) /\ Cardinality(Coming) \in Nat
<1>1. Idle \subseteq Workers /\ Coming \subseteq Workers
  BY DEF Idle, Coming
<1>2. IsFiniteSet(Idle) /\ IsFiniteSet(Coming)
  BY <1>1, PoolConstants, FS_Subset DEF PoolConstants
<1> QED
  BY <1>2, FS_CardinalityType

\* One more and one less.
LEMMA OneMore ==
  ASSUME NEW S, IsFiniteSet(S), NEW x, x \notin S
  PROVE  Cardinality(S \cup {x}) = Cardinality(S) + 1
BY FS_AddElement

\* A set that loses one element has one element less.
LEMMA OneLess ==
  ASSUME NEW S, IsFiniteSet(S), NEW x \in S
  PROVE  Cardinality(S \ {x}) = Cardinality(S) - 1
BY FS_RemoveElement

\* The threads that are idle and none of which waits are all coming.
LEMMA IdleComing ==
  ASSUME Where("waiting") = {}
  PROVE  Cardinality(Idle) <= Cardinality(Coming)
<1>1. Idle \subseteq Coming
  BY DEF Idle, Coming, Where
<1> QED
  BY <1>1, Counted, FS_Subset

\* How a move changes who is idle and who is coming.
LEMMA Moves ==
  ASSUME PoolTypeOK, NEW w \in Workers, NEW s \in States, Move(w, s)
  PROVE  /\ state' \in [Workers -> States]
         /\ Idle' = IF s \in {"waiting", "woken"} THEN Idle \cup {w} ELSE Idle \ {w}
         /\ Coming' = IF s \in {"calling", "woken"} THEN Coming \cup {w} ELSE Coming \ {w}
<1>1. state' \in [Workers -> States]
  BY DEF PoolTypeOK, Move
<1>2. \A v \in Workers : state'[v] = IF v = w THEN s ELSE state[v]
  BY DEF PoolTypeOK, Move
<1>3. Idle' = IF s \in {"waiting", "woken"} THEN Idle \cup {w} ELSE Idle \ {w}
  BY <1>2 DEF Idle
<1>4. Coming' = IF s \in {"calling", "woken"} THEN Coming \cup {w} ELSE Coming \ {w}
  BY <1>2 DEF Coming
<1> QED
  BY <1>1, <1>3, <1>4

-----------------------------------------------------------------------------
(* The queue *)

\* AddTask, whichever way it starts the task, keeps the types of the queue.
LEMMA PushType ==
  ASSUME PoolTypeOK, Push
  PROVE  /\ pending_tasks_' \in Seq(1 .. MaxTasks)
         /\ Len(pending_tasks_') = Len(pending_tasks_) + 1
         /\ posted' \in 0 .. MaxTasks
<1>1. posted' \in 1 .. MaxTasks
  BY PoolConstants DEF PoolTypeOK, Push, PoolConstants
<1> QED
  BY <1>1 DEF PoolTypeOK, Push

\* A thread that takes a task keeps the types of the queue and the tasks.
LEMMA TakeType ==
  ASSUME PoolTypeOK, NEW w \in Workers, Take(w), pending_tasks_ # <<>>
  PROVE  /\ pending_tasks_' \in Seq(1 .. MaxTasks)
         /\ Len(pending_tasks_') = Len(pending_tasks_) - 1
         /\ task' \in [Workers -> 0 .. MaxTasks]
         /\ after' \subseteq 1 .. MaxTasks
<1>1. Head(pending_tasks_) \in 1 .. MaxTasks
  <2>1. pending_tasks_ \in Seq(1 .. MaxTasks)
    BY DEF PoolTypeOK
  <2> QED
    BY <2>1, HeadTailProperties
<1>2. /\ pending_tasks_' \in Seq(1 .. MaxTasks)
      /\ Len(pending_tasks_') = Len(pending_tasks_) - 1
  BY DEF PoolTypeOK, Take
<1>3. task' \in [Workers -> 0 .. MaxTasks]
  BY <1>1 DEF PoolTypeOK, Take
<1>4. after' \subseteq 1 .. MaxTasks
  BY <1>1 DEF PoolTypeOK, Take
<1> QED
  BY <1>2, <1>3, <1>4

-----------------------------------------------------------------------------
(* The steps *)

\* The pool starts with the invariant.
LEMMA InitStep == PoolInit => PoolInv
<1> SUFFICES ASSUME PoolInit PROVE PoolInv
  OBVIOUS
<1>1. Idle = {} /\ Cardinality(Idle) = 0
  <2>1. Idle = {}
    BY DEF PoolInit, Idle
  <2> QED
    BY <2>1, FS_EmptySet
<1>2. PoolTypeOK
  <2>1. state \in [Workers -> States]
    BY DEF PoolInit, States
  <2>2. /\ task \in [Workers -> 0 .. MaxTasks] /\ posted \in 0 .. MaxTasks
        /\ pending_tasks_ \in Seq(1 .. MaxTasks)
    BY PoolConstants DEF PoolInit, PoolConstants
  <2>3. terminated_ \in BOOLEAN /\ broadcast \in BOOLEAN /\ after \subseteq 1 .. MaxTasks
    BY DEF PoolInit
  <2>4. num_idle_threads_ = Cardinality(Idle)
    BY <1>1 DEF PoolInit
  <2> QED
    BY <2>1, <2>2, <2>3, <2>4 DEF PoolTypeOK
<1>3. EachTaskHasAThread
  BY Counted DEF PoolInit, EachTaskHasAThread
<1> QED
  BY <1>2, <1>3 DEF PoolInv

\* A pending task that an idle thread is signalled for.
LEMMA SignalStep ==
  ASSUME PoolInv, AddTaskSignal
  PROVE  PoolInv'
<1> USE DEF PoolInv
<1>1. Push /\ EnoughThreads
  BY DEF AddTaskSignal
<1>2. CASE \E w \in Where("waiting") : Move(w, "woken")
  <2>1. PICK w \in Where("waiting") : Move(w, "woken")
    BY <1>2
  <2>2. w \in Workers /\ w \in Idle /\ w \notin Coming
    BY <2>1 DEF Where, Idle, Coming
  <2>3. state' \in [Workers -> States] /\ Idle' = Idle \cup {w} /\ Coming' = Coming \cup {w}
    BY <2>1, <2>2, Moves DEF States
  <2>4. Idle' = Idle /\ Cardinality(Coming') = Cardinality(Coming) + 1
    BY <2>2, <2>3, Counted, OneMore
  <2>5. PoolTypeOK'
    BY <1>1, <2>3, <2>4, PushType DEF PoolTypeOK, Push
  <2>6. EachTaskHasAThread'
    BY <1>1, <2>4, PushType, Counted DEF EachTaskHasAThread, Push, PoolTypeOK
  <2> QED
    BY <2>5, <2>6
<1>3. CASE Where("waiting") = {} /\ UNCHANGED state
  <2>1. Idle' = Idle /\ Coming' = Coming
    BY <1>3 DEF Idle, Coming
  <2>2. PoolTypeOK'
    BY <1>1, <1>3, <2>1, PushType DEF PoolTypeOK, Push
  <2>3. Cardinality(Idle) <= Cardinality(Coming)
    BY <1>3, IdleComing
  <2>4. Len(pending_tasks_') <= Cardinality(Idle)
    BY <1>1 DEF EnoughThreads, PoolTypeOK
  <2>5. Len(pending_tasks_') \in Nat
    BY <1>1, PushType
  <2>6. EachTaskHasAThread'
    BY <2>1, <2>3, <2>4, <2>5, Counted DEF EachTaskHasAThread
  <2> QED
    BY <2>2, <2>6
<1> QED
  BY <1>2, <1>3 DEF AddTaskSignal

\* A pending task that a new thread is created for.
LEMMA CreateStep ==
  ASSUME PoolInv, AddTaskCreate
  PROVE  PoolInv'
<1> USE DEF PoolInv
<1>1. Push
  BY DEF AddTaskCreate
<1>2. PICK w \in Where("unborn") : Move(w, "calling")
  BY DEF AddTaskCreate
<1>3. w \in Workers /\ w \notin Idle /\ w \notin Coming
  BY <1>2 DEF Where, Idle, Coming
<1>4. state' \in [Workers -> States] /\ Idle' = Idle \ {w} /\ Coming' = Coming \cup {w}
  BY <1>2, <1>3, Moves DEF States
<1>5. Idle' = Idle /\ Cardinality(Coming') = Cardinality(Coming) + 1
  BY <1>3, <1>4, Counted, OneMore
<1>6. PoolTypeOK'
  BY <1>1, <1>4, <1>5, PushType DEF PoolTypeOK, Push
<1>7. EachTaskHasAThread'
  BY <1>1, <1>5, PushType, Counted DEF EachTaskHasAThread, Push, PoolTypeOK
<1> QED
  BY <1>6, <1>7

\* A thread comes back for a task: it takes one, waits or leaves.
LEMMA CallStep ==
  ASSUME PoolInv, NEW w \in Workers, CallExit(w) \/ CallTake(w) \/ CallWait(w)
  PROVE  PoolInv'
<1> USE DEF PoolInv
<1>1. w \notin Idle /\ w \in Coming
  BY DEF CallExit, CallTake, CallWait, Idle, Coming
<1>2. CASE CallExit(w)
  <2>1. state' \in [Workers -> States] /\ Idle' = Idle \ {w}
    BY <1>2, Moves DEF States, CallExit, Leave
  <2>2. Idle' = Idle
    BY <1>1, <2>1
  <2>3. PoolTypeOK'
    BY <1>2, <2>1, <2>2 DEF PoolTypeOK, CallExit, Leave
  <2>4. EachTaskHasAThread'
    BY <1>2 DEF EachTaskHasAThread, CallExit
  <2> QED
    BY <2>3, <2>4
<1>3. CASE CallTake(w)
  <2>1. /\ state' \in [Workers -> States]
        /\ Idle' = Idle \ {w} /\ Coming' = Coming \ {w}
    BY <1>3, Moves DEF States, CallTake, Take
  <2>2. Idle' = Idle /\ Cardinality(Coming') = Cardinality(Coming) - 1
    BY <1>1, <2>1, Counted, OneLess
  <2>3. PoolTypeOK'
    BY <1>3, <2>1, <2>2, TakeType DEF PoolTypeOK, CallTake
  <2>4. Len(pending_tasks_') = Len(pending_tasks_) - 1 /\ Len(pending_tasks_) \in Nat
    BY <1>3, TakeType DEF PoolTypeOK, CallTake
  <2>5. EachTaskHasAThread'
    BY <1>3, <2>2, <2>4, Counted DEF EachTaskHasAThread, CallTake
  <2> QED
    BY <2>3, <2>5
<1>4. CASE CallWait(w)
  <2>1. state' \in [Workers -> States] /\ Idle' = Idle \cup {w}
    BY <1>4, Moves DEF States, CallWait
  <2>2. Cardinality(Idle') = Cardinality(Idle) + 1
    BY <1>1, <2>1, Counted, OneMore
  <2>3. PoolTypeOK'
    BY <1>4, <2>1, <2>2 DEF PoolTypeOK, CallWait
  <2>4. Cardinality(Coming') \in Nat
    <3>1. Coming' = Coming \ {w}
      BY <1>4, Moves DEF States, CallWait
    <3> QED
      BY <1>1, <3>1, Counted, FS_RemoveElement, FS_CardinalityType
  <2>5. EachTaskHasAThread'
    BY <1>4, <2>4 DEF EachTaskHasAThread, CallWait
  <2> QED
    BY <2>3, <2>5
<1> QED
  BY <1>2, <1>3, <1>4

\* A thread that times out is on its way, and counted still.
LEMMA TimeOutStep ==
  ASSUME PoolInv, NEW w \in Workers, TimeOut(w)
  PROVE  PoolInv'
<1> USE DEF PoolInv
<1>1. w \in Idle /\ w \notin Coming
  BY DEF TimeOut, Idle, Coming
<1>2. state' \in [Workers -> States] /\ Idle' = Idle \cup {w} /\ Coming' = Coming \cup {w}
  BY Moves DEF States, TimeOut
<1>3. Idle' = Idle /\ Cardinality(Coming') = Cardinality(Coming) + 1
  BY <1>1, <1>2, Counted, OneMore
<1>4. PoolTypeOK'
  BY <1>2, <1>3 DEF PoolTypeOK, TimeOut
<1>5. EachTaskHasAThread'
  BY <1>3, Counted DEF EachTaskHasAThread, TimeOut, PoolTypeOK
<1> QED
  BY <1>4, <1>5

\* A thread returns from TimedWait and takes what is pending, or waits or leaves.
LEMMA ReturnStep ==
  ASSUME PoolInv, NEW w \in Workers, Return(w)
  PROVE  PoolInv'
<1> USE DEF PoolInv
<1>1. w \in Idle /\ w \in Coming
  BY DEF Return, Idle, Coming
<1>2. Move(w, "exited") \/ Move(w, "running")
  BY DEF Return, Leave, Take
<1>3. /\ state' \in [Workers -> States]
      /\ Idle' = Idle \ {w} /\ Coming' = Coming \ {w}
  BY <1>2, Moves DEF States
<1>4. /\ Cardinality(Idle') = Cardinality(Idle) - 1
      /\ Cardinality(Coming') = Cardinality(Coming) - 1
      /\ Cardinality(Coming') \in Nat
  BY <1>1, <1>3, Counted, OneLess, FS_RemoveElement, FS_CardinalityType
<1>5. CASE pending_tasks_ = <<>>
  <2>1. Leave(w)
    BY <1>5 DEF Return
  <2>2. PoolTypeOK'
    BY <1>3, <1>4, <2>1 DEF PoolTypeOK, Return, Leave
  <2>3. EachTaskHasAThread'
    BY <1>4, <1>5, <2>1 DEF EachTaskHasAThread, Return, Leave
  <2> QED
    BY <2>2, <2>3
<1>6. CASE pending_tasks_ # <<>>
  <2>1. Take(w)
    BY <1>6 DEF Return
  <2>2. PoolTypeOK'
    BY <1>3, <1>4, <1>6, <2>1, TakeType DEF PoolTypeOK, Return
  <2>3. Len(pending_tasks_') = Len(pending_tasks_) - 1 /\ Len(pending_tasks_) \in Nat
    BY <1>6, <2>1, TakeType DEF PoolTypeOK
  <2>4. EachTaskHasAThread'
    BY <1>4, <2>3, Counted DEF EachTaskHasAThread, Return
  <2> QED
    BY <2>2, <2>4
<1> QED
  BY <1>5, <1>6

\* A task that ends leaves its thread on its way to the queue.
LEMMA TaskReturnsStep ==
  ASSUME PoolInv, NEW w \in Workers, TaskReturns(w)
  PROVE  PoolInv'
<1> USE DEF PoolInv
<1>1. w \notin Idle /\ w \notin Coming
  BY DEF TaskReturns, Idle, Coming
<1>2. state' \in [Workers -> States] /\ Idle' = Idle \ {w} /\ Coming' = Coming \cup {w}
  BY Moves DEF States, TaskReturns
<1>3. Idle' = Idle /\ Cardinality(Coming') = Cardinality(Coming) + 1
  BY <1>1, <1>2, Counted, OneMore
<1>4. PoolTypeOK'
  <2>1. task' \in [Workers -> 0 .. MaxTasks]
    BY PoolConstants DEF PoolTypeOK, TaskReturns, PoolConstants
  <2> QED
    BY <1>2, <1>3, <2>1 DEF PoolTypeOK, TaskReturns
<1>5. EachTaskHasAThread'
  BY <1>3, Counted DEF EachTaskHasAThread, TaskReturns, PoolTypeOK
<1> QED
  BY <1>4, <1>5

\* Terminate: the promise is one for a pool that is not terminated.
LEMMA TerminateStep ==
  ASSUME PoolInv, Terminate \/ Broadcast
  PROVE  PoolInv'
<1> USE DEF PoolInv
<1>1. state' \in [Workers -> States] /\ Idle' = Idle
  <2>1. CASE Terminate
    BY <2>1 DEF Terminate, Idle, PoolTypeOK
  <2>2. CASE Broadcast
    <3>1. \A v \in Workers : state'[v] = IF state[v] = "waiting" THEN "woken" ELSE state[v]
      BY <2>2 DEF Broadcast, PoolTypeOK
    <3>2. state' \in [Workers -> States]
      BY <2>2 DEF Broadcast, PoolTypeOK, States
    <3>3. Idle' = Idle
      BY <3>1 DEF Idle
    <3> QED
      BY <3>2, <3>3
  <2> QED
    BY <2>1, <2>2
<1>2. PoolTypeOK'
  <2>1. CASE Terminate
    BY <1>1, <2>1 DEF PoolTypeOK, Terminate
  <2>2. CASE Broadcast
    BY <1>1, <2>2 DEF PoolTypeOK, Broadcast
  <2> QED
    BY <2>1, <2>2
<1>3. EachTaskHasAThread'
  BY DEF EachTaskHasAThread, Terminate, Broadcast
<1> QED
  BY <1>2, <1>3

\* Nothing changes.
LEMMA StutterStep ==
  ASSUME PoolInv, UNCHANGED pool_vars
  PROVE  PoolInv'
BY DEF PoolInv, PoolTypeOK, EachTaskHasAThread, Idle, Coming, pool_vars

\* Every step of the pool keeps the invariant.
LEMMA NextStep == PoolInv /\ [PoolNext]_pool_vars => PoolInv'
<1> SUFFICES ASSUME PoolInv, [PoolNext]_pool_vars PROVE PoolInv'
  OBVIOUS
<1>1. CASE AddTaskSignal
  BY <1>1, SignalStep
<1>2. CASE AddTaskCreate
  BY <1>2, CreateStep
<1>3. CASE Terminate \/ Broadcast
  BY <1>3, TerminateStep
<1>4. ASSUME NEW w \in Workers, WaitForTask(w) \/ TimeOut(w) \/ TaskReturns(w)
      PROVE  PoolInv'
  BY <1>4, CallStep, ReturnStep, TimeOutStep, TaskReturnsStep DEF WaitForTask
<1>5. CASE UNCHANGED pool_vars
  BY <1>5, StutterStep
<1> QED
  BY <1>1, <1>2, <1>3, <1>4, <1>5 DEF PoolNext

-----------------------------------------------------------------------------
(* The theorems *)

\* The pool's invariant holds always.
LEMMA PoolInvariance == PoolSpec => []PoolInv
BY InitStep, NextStep, PTL DEF PoolSpec

\* Type correctness; the counter num_idle_threads_ is the number of threads
\* inside TimedWait, signalled, timed out or not.
THEOREM PoolTypeCorrect == PoolSpec => []PoolTypeOK
<1>1. PoolInv => PoolTypeOK
  BY DEF PoolInv
<1> QED
  BY <1>1, PoolInvariance, PTL

\* AddTask: while the pool is not terminated every pending task has a thread of
\* its own on its way to the queue.
THEOREM TasksHaveThreads == PoolSpec => []EachTaskHasAThread
<1>1. PoolInv => EachTaskHasAThread
  BY DEF PoolInv
<1> QED
  BY <1>1, PoolInvariance, PTL

-----------------------------------------------------------------------------
(* Timer *)

TimerFields ==
  [exists : BOOLEAN, kind : Kinds, is_running_ : BOOLEAN, scheduled_task_ : Nat,
   scheduled_run_time_ : Nat, desired_run_time_ : Nat, delay_ : Delays,
   user_task_ : BOOLEAN]

TaskFields == [id : Nat, at : Nat, timer_ : BOOLEAN]

\* What the variables are, TypeOK apart.
TimerTypes ==
  /\ timer \in TimerFields
  /\ queue \in SUBSET TaskFields
  /\ has_loop \in BOOLEAN /\ due \in Nat /\ fired \in Nat

\* Two tasks never have the same number.
Distinct == \A s, t \in queue : s.id = t.id => s = t

\* The task comes no later than the timer believes; the timer believes it comes
\* no later than it is wanted, and then the user task may run; and a task that
\* comes exactly when it is wanted comes no earlier than it may run, although the
\* timer read the clock after the loop did.
Times ==
  /\ \A entry \in queue : Mine(entry) => entry.at <= timer.scheduled_run_time_
  /\ timer.is_running_ =>
       /\ timer.scheduled_run_time_ <= timer.desired_run_time_
       /\ due <= timer.desired_run_time_
       /\ timer.desired_run_time_ = timer.scheduled_run_time_ =>
            \A entry \in queue : Mine(entry) => due <= entry.at

TimerInv == TimerTypes /\ TimerTypeOK /\ Distinct /\ Linked /\ Armed /\ Times
-----------------------------------------------------------------------------

\* AbandonScheduledTask leaves every task in the queue, and none of the timer's.
LEMMA Abandoned ==
  ASSUME TimerInv
  PROVE  /\ Abandon(queue) \in SUBSET TaskFields
         /\ \A entry \in Abandon(queue) :
              ~entry.timer_ /\ entry.id \in 1 .. tasks_posted
         /\ \A s, t \in Abandon(queue) : s.id = t.id => s = t
<1> DEFINE A(entry) == IF Mine(entry) THEN [entry EXCEPT !.timer_ = FALSE] ELSE entry
<1>1. ASSUME NEW entry \in queue
      PROVE  /\ A(entry) \in TaskFields /\ ~A(entry).timer_
             /\ A(entry).id = entry.id /\ entry.id \in 1 .. tasks_posted
  BY DEF TimerInv, TimerTypes, TimerTypeOK, Linked, TaskFields, Mine
<1>2. \A t \in Abandon(queue) : \E entry \in queue : t = A(entry)
  BY DEF Abandon
<1> HIDE DEF A
<1>3. \A s, t \in Abandon(queue) : s.id = t.id => s = t
  BY <1>1, <1>2 DEF TimerInv, Distinct
<1> QED
  BY <1>1, <1>2, <1>3

\* A task that is posted is the timer's one and only, and comes in time.
LEMMA TaskPosted ==
  ASSUME TimerInv, NEW t \in TimerFields, t.exists, t.user_task_,
         NEW base \in SUBSET TaskFields,
         \A entry \in base : ~entry.timer_ /\ entry.id \in 1 .. tasks_posted,
         \A r, s \in base : r.id = s.id => r = s,
         NEW delay \in Nat, NEW skew \in Nat,
         PostNewScheduledTask(t, base, delay, skew),
         has_loop' \in BOOLEAN, fired' \in Nat,
         due' \in Nat, due' <= now + delay
  PROVE  TimerInv'
<1> DEFINE new == [id |-> tasks_posted + 1, at |-> now + delay, timer_ |-> TRUE]
<1> USE TimerAssumption DEF TimerAssumption
<1>1. /\ tasks_posted \in Nat /\ now \in Nat /\ tasks_posted < MaxTimerTasks
      /\ tasks_posted' = tasks_posted + 1
      /\ queue' = base \cup {new} /\ now' = now + skew /\ now' <= MaxTime
      /\ timer' = [t EXCEPT !.is_running_ = TRUE, !.scheduled_task_ = tasks_posted + 1,
                            !.scheduled_run_time_ = now + skew + delay,
                            !.desired_run_time_ = now + skew + delay]
  BY DEF PostNewScheduledTask, TimerInv, TimerTypeOK
<1>2. /\ timer' \in TimerFields /\ timer'.exists /\ timer'.user_task_
      /\ timer'.is_running_ /\ timer'.scheduled_task_ = tasks_posted + 1
      /\ timer'.scheduled_run_time_ = now + skew + delay
      /\ timer'.desired_run_time_ = now + skew + delay
  <2> DEFINE due_ == now + skew + delay
  <2>1. due_ \in Nat /\ tasks_posted + 1 \in Nat
    BY <1>1
  <2>2. timer' = [t EXCEPT !.is_running_ = TRUE, !.scheduled_task_ = tasks_posted + 1,
                           !.scheduled_run_time_ = due_, !.desired_run_time_ = due_]
    BY <1>1
  <2> HIDE DEF due_
  <2> QED
    BY <2>1, <2>2 DEF TimerFields, due_
<1>3. new \in TaskFields /\ new.id = tasks_posted + 1 /\ new.at = now + delay /\ new.timer_
  BY <1>1 DEF TaskFields
<1> HIDE DEF new
<1>4. /\ queue' \in SUBSET TaskFields
      /\ \A entry \in queue' : entry.id \in 1 .. tasks_posted' /\ entry.at \in Nat
      /\ \A entry \in queue' : entry.timer_ \/ entry.id = tasks_posted' => entry = new
  BY <1>1, <1>3 DEF TaskFields
<1>5. TimerTypes'
  BY <1>2, <1>4 DEF TimerTypes
<1>6. TimerTypeOK'
  BY <1>1, <1>2, <1>4 DEF TimerTypeOK, TimerFields
<1>7. Distinct'
  BY <1>1, <1>3, <1>4 DEF Distinct
<1>8. Linked' /\ Armed' /\ Times'
  BY <1>1, <1>2, <1>3, <1>4 DEF Linked, Armed, Times, Mine
<1> QED
  BY <1>5, <1>6, <1>7, <1>8 DEF TimerInv

\* Start and Reset: the task is reused only if it comes before it is wanted.
LEMMA ResetToInv ==
  ASSUME TimerInv, NEW t \in TimerFields, t.exists, t.user_task_,
         t.scheduled_task_ = timer.scheduled_task_,
         t.scheduled_run_time_ = timer.scheduled_run_time_,
         NEW skew \in 0 .. MaxSkew, ResetTo(t, skew)
  PROVE  TimerInv'
<1> USE TimerAssumption DEF TimerAssumption
<1>1. /\ now \in Nat /\ t.delay_ \in Nat /\ due' = now + t.delay_ /\ skew \in Nat
      /\ has_loop' = has_loop /\ fired' = fired /\ has_loop \in BOOLEAN /\ fired \in Nat
  <2>1. t.delay_ \in Delays /\ Delays \subseteq Nat
    BY DEF TimerFields
  <2>2. now \in Nat /\ has_loop \in BOOLEAN /\ fired \in Nat
    BY DEF TimerInv, TimerTypeOK, TimerTypes
  <2>3. due' = now + t.delay_ /\ has_loop' = has_loop /\ fired' = fired
    BY DEF ResetTo
  <2>4. skew \in Nat
    OBVIOUS
  <2> QED
    BY <2>1, <2>2, <2>3, <2>4
<1>2. CASE ResetPost(t, skew)
  <2>1. PostNewScheduledTask(t, Abandon(queue), t.delay_, skew)
    BY <1>2 DEF ResetPost
  <2> QED
    BY <1>1, <2>1, Abandoned, TaskPosted
<1>3. CASE ResetReuse(t)
  <2>1. /\ t.scheduled_task_ # NoTask /\ now + t.delay_ > t.scheduled_run_time_
        /\ timer' = [t EXCEPT !.desired_run_time_ = now + t.delay_, !.is_running_ = TRUE]
        /\ UNCHANGED <<queue, now, tasks_posted>>
    BY <1>3 DEF ResetReuse, Reusable
  <2>2. /\ timer' \in TimerFields /\ timer'.exists /\ timer'.user_task_
        /\ timer'.is_running_ /\ timer'.scheduled_task_ = timer.scheduled_task_
        /\ timer'.scheduled_run_time_ = timer.scheduled_run_time_
        /\ timer'.desired_run_time_ = now + t.delay_
    <3> DEFINE wanted == now + t.delay_
    <3>1. wanted \in Nat
      BY <1>1
    <3>2. timer' = [t EXCEPT !.desired_run_time_ = wanted, !.is_running_ = TRUE]
      BY <2>1
    <3> HIDE DEF wanted
    <3> QED
      BY <3>1, <3>2 DEF TimerFields, wanted
  <2>3. \A entry : Mine(entry)' <=> Mine(entry)
    BY <2>2 DEF Mine
  <2>4. TimerTypes' /\ TimerTypeOK' /\ Distinct'
    BY <1>1, <2>1, <2>2 DEF TimerInv, TimerTypes, TimerTypeOK, Distinct, TimerFields
  <2>5. PICK entry \in queue : Mine(entry)
    BY <2>1 DEF TimerInv, Linked
  <2>6. entry.at <= timer.scheduled_run_time_ /\ entry.at \in Nat
    BY <2>5 DEF TimerInv, Times, TimerTypeOK
  <2>7. timer.scheduled_run_time_ \in Nat
    BY DEF TimerInv, TimerTypes, TimerFields
  <2>8. entry.at <= now + t.delay_
    BY <1>1, <2>1, <2>6, <2>7
  <2>9. Linked' /\ Armed'
    BY <2>1, <2>2, <2>3, <2>5, <2>8 DEF TimerInv, Linked, Armed
  <2>10. Times'
    BY <1>1, <2>1, <2>2, <2>3, <2>7 DEF TimerInv, Times
  <2> QED
    BY <2>4, <2>9, <2>10 DEF TimerInv
<1> QED
  BY <1>2, <1>3 DEF ResetTo

\* A timer that is stopped and has lost its task, or still has the one it had.
LEMMA StoppedInv ==
  ASSUME TimerInv, timer' \in TimerFields, ~timer'.is_running_,
         queue' \in SUBSET queue \/ queue' = Abandon(queue),
         \/ /\ timer'.scheduled_task_ = NoTask
            /\ \A entry \in queue' : ~entry.timer_
         \/ /\ timer'.scheduled_task_ = timer.scheduled_task_
            /\ timer'.exists = timer.exists
            /\ timer'.scheduled_run_time_ = timer.scheduled_run_time_
            /\ queue' = queue,
         has_loop' \in BOOLEAN, due' \in Nat, fired' \in Nat, UNCHANGED <<now, tasks_posted>>
  PROVE  TimerInv'
<1>1. /\ queue' \in SUBSET TaskFields
      /\ \A entry \in queue' : entry.id \in 1 .. tasks_posted
      /\ \A s, t \in queue' : s.id = t.id => s = t
  BY Abandoned DEF TimerInv, TimerTypes, TimerTypeOK, Distinct
<1>2. TimerTypes' /\ Distinct'
  BY <1>1 DEF TimerTypes, Distinct
<1>3. TimerTypeOK'
  BY <1>1 DEF TimerTypeOK, TimerInv, TimerFields, TaskFields, NoTask
<1>4. Linked' /\ Armed' /\ Times'
  BY DEF TimerInv, Linked, Armed, Times, Mine, NoTask
<1> QED
  BY <1>2, <1>3, <1>4 DEF TimerInv

-----------------------------------------------------------------------------
(* The steps *)

\* What the fields of the timer are in the states that the step leads to.
LEMMA Fields ==
  ASSUME TimerInv
  PROVE  /\ Stopped(timer) \in TimerFields /\ ~Stopped(timer).is_running_
         /\ Stopped(timer).exists = timer.exists
         /\ Stopped(timer).scheduled_task_ = timer.scheduled_task_
         /\ Stopped(timer).scheduled_run_time_ = timer.scheduled_run_time_
         /\ \A b \in BOOLEAN :
              LET t == [Stopped(timer) EXCEPT !.exists = b, !.scheduled_task_ = NoTask] IN
              t \in TimerFields /\ ~t.is_running_ /\ t.scheduled_task_ = NoTask
         /\ LET t == [Stopped(timer) EXCEPT !.scheduled_task_ = NoTask] IN
              t \in TimerFields /\ ~t.is_running_ /\ t.scheduled_task_ = NoTask
         /\ Unscheduled \in TimerFields /\ Unscheduled.scheduled_task_ = NoTask
         /\ Unscheduled.is_running_ = timer.is_running_
         /\ Unscheduled.user_task_ = timer.user_task_
         /\ Unscheduled.exists = timer.exists
         /\ Stopped(Unscheduled) \in TimerFields /\ ~Stopped(Unscheduled).is_running_
         /\ Stopped(Unscheduled).scheduled_task_ = NoTask
BY DEF TimerInv, TimerTypes, TimerFields, Stopped, Unscheduled, NoTask, retain_user_task_

\* The timer's task, once taken from the queue, leaves no other behind.
LEMMA TaskTaken ==
  ASSUME TimerInv, NEW entry \in queue, entry.timer_
  PROVE  /\ timer.exists /\ queue \ {entry} \in SUBSET TaskFields
         /\ \A t \in queue \ {entry} : ~t.timer_ /\ t.id \in 1 .. tasks_posted
         /\ \A r, s \in queue \ {entry} : r.id = s.id => r = s
BY DEF TimerInv, TimerTypes, TimerTypeOK, Distinct, Linked, Mine

\* A task of the loop that runs.
LEMMA RunTaskInv ==
  ASSUME TimerInv, NEW entry \in queue, RunTimerTask(entry)
  PROVE  TimerInv'
<1> USE TimerAssumption DEF TimerAssumption
<1>0. /\ has_loop \in BOOLEAN /\ due \in Nat /\ fired \in Nat /\ now \in Nat
      /\ MaxTime \in Nat /\ timer.delay_ \in Delays /\ Delays \subseteq Nat
      /\ timer.desired_run_time_ \in Nat /\ (timer.is_running_ => timer.user_task_)
  BY DEF TimerInv, TimerTypes, TimerTypeOK, TimerFields
<1>1. CASE RunNothing(entry) /\ entry.timer_
  BY <1>0, <1>1, Fields, TaskTaken, StoppedInv DEF RunNothing
<1>2. CASE RunNothing(entry) /\ ~entry.timer_
  <2>1. queue' = queue \ {entry} /\ UNCHANGED <<timer, has_loop, now, tasks_posted, due, fired>>
    BY <1>2 DEF RunNothing
  <2>2. \A t : Mine(t)' <=> Mine(t)
    BY <2>1 DEF Mine
  <2>3. ~Mine(entry)
    BY <1>2 DEF Mine
  <2>4. TimerTypes' /\ TimerTypeOK' /\ Distinct'
    BY <2>1 DEF TimerInv, TimerTypes, TimerTypeOK, Distinct
  <2>5. Linked' /\ Armed' /\ Times'
    BY <2>1, <2>2, <2>3 DEF TimerInv, Linked, Armed, Times
  <2> QED
    BY <2>4, <2>5 DEF TimerInv
<1>3. CASE RunOneShot(entry)
  <2>1. Never \in Nat /\ fired + 1 \in Nat
    BY <1>0 DEF Never
  <2> QED
    BY <1>0, <1>3, <2>1, Fields, TaskTaken, StoppedInv DEF RunOneShot
<1>4. ASSUME NEW skew \in 0 .. MaxSkew, RunContinue(entry, skew)
      PROVE  TimerInv'
  <2>1. /\ entry.timer_ /\ timer.is_running_ /\ timer.desired_run_time_ > now
        /\ PostNewScheduledTask(Unscheduled, queue \ {entry},
                                timer.desired_run_time_ - now, skew)
        /\ UNCHANGED <<has_loop, due, fired>>
    BY <1>4 DEF RunContinue, TooEarly
  <2>2. timer.desired_run_time_ - now \in Nat /\ due <= timer.desired_run_time_
    BY <1>0, <2>1 DEF TimerInv, Times
  <2>3. due' <= now + (timer.desired_run_time_ - now)
    BY <1>0, <2>1, <2>2
  <2>4. skew \in Nat
    OBVIOUS
  <2> QED
    BY <1>0, <2>1, <2>2, <2>3, <2>4, Fields, TaskTaken, TaskPosted
<1>5. ASSUME NEW skew \in 0 .. MaxSkew, RunRepeating(entry, skew)
      PROVE  TimerInv'
  <2>1. /\ entry.timer_ /\ timer.is_running_
        /\ PostNewScheduledTask(Unscheduled, queue \ {entry}, timer.delay_, skew)
        /\ fired' = fired + 1 /\ due' = now + timer.delay_ /\ has_loop' = has_loop
    BY <1>5 DEF RunRepeating
  <2>2. timer.delay_ \in Nat /\ skew \in Nat
    <3>1. timer.delay_ \in Delays /\ Delays \subseteq Nat
      BY <1>0
    <3>2. skew \in Nat
      OBVIOUS
    <3> QED
      BY <3>1, <3>2
  <2>3. due' \in Nat /\ due' <= now + timer.delay_ /\ fired' \in Nat
    BY <1>0, <2>1, <2>2
  <2> QED
    BY <1>0, <2>1, <2>2, <2>3, Fields, TaskTaken, TaskPosted
<1> QED
  BY <1>1, <1>2, <1>3, <1>4, <1>5 DEF RunTimerTask

\* Every step keeps the invariant.
LEMMA TimerStep ==
  ASSUME TimerInv, [TimerNext]_timer_vars
  PROVE  TimerInv'
<1> USE TimerAssumption DEF TimerAssumption
<1>0. /\ has_loop \in BOOLEAN /\ due \in Nat /\ fired \in Nat /\ now \in Nat
      /\ Never \in Nat /\ timer \in TimerFields
  BY DEF TimerInv, TimerTypes, TimerTypeOK, Never
<1>1. ASSUME NEW delay \in Delays, NEW skew \in 0 .. MaxSkew, Start(delay, skew)
      PROVE  TimerInv'
  <2> DEFINE t == [timer EXCEPT !.delay_ = delay, !.user_task_ = TRUE]
  <2>1. /\ t \in TimerFields /\ t.exists = timer.exists /\ t.user_task_
        /\ t.scheduled_task_ = timer.scheduled_task_
        /\ t.scheduled_run_time_ = timer.scheduled_run_time_
    BY <1>0 DEF TimerFields
  <2>2. timer.exists /\ ResetTo(t, skew)
    BY <1>1 DEF Start
  <2> HIDE DEF t
  <2> QED
    BY <2>1, <2>2, ResetToInv
<1>2. ASSUME NEW skew \in 0 .. MaxSkew, Reset(skew)
      PROVE  TimerInv'
  BY <1>0, <1>2, ResetToInv DEF Reset
<1>3. CASE Stop
  BY <1>0, <1>3, Fields, StoppedInv DEF Stop
<1>4. CASE Destroy
  BY <1>0, <1>4, Fields, Abandoned, StoppedInv DEF Destroy
<1>5. CASE DestroyTimerLoop
  <2>1. CASE \E entry \in queue : entry.timer_
    BY <1>0, <1>5, <2>1, Fields, StoppedInv DEF DestroyTimerLoop
  <2>2. CASE ~\E entry \in queue : entry.timer_
    <3>1. timer.scheduled_task_ = NoTask /\ ~timer.is_running_
      BY <2>2 DEF TimerInv, Linked, Armed, Mine
    <3> QED
      BY <1>0, <1>5, <2>2, <3>1, StoppedInv DEF DestroyTimerLoop
  <2> QED
    BY <2>1, <2>2
<1>6. CASE Tick
  BY <1>0, <1>6 DEF Tick, TimerInv, TimerTypes, TimerTypeOK, Distinct, Linked, Armed, Times, Mine
<1>7. ASSUME NEW entry \in queue, RunTimerTask(entry)
      PROVE  TimerInv'
  BY <1>7, RunTaskInv
<1>8. CASE UNCHANGED timer_vars
  BY <1>8 DEF timer_vars, TimerInv, TimerTypes, TimerTypeOK, Distinct, Linked, Armed, Times, Mine
<1> QED
  BY <1>1, <1>2, <1>3, <1>4, <1>5, <1>6, <1>7, <1>8 DEF TimerNext

\* The invariant holds initially.
LEMMA TimerBase == TimerInit => TimerInv
<1> SUFFICES ASSUME TimerInit PROVE TimerInv
  OBVIOUS
<1> USE TimerAssumption DEF TimerAssumption, TimerInit, NoTask, Never
<1>1. timer \in TimerFields /\ ~timer.is_running_ /\ timer.scheduled_task_ = 0
  BY DEF TimerFields
<1>2. TimerTypes
  BY <1>1 DEF TimerTypes
<1>3. TimerTypeOK
  BY <1>1 DEF TimerTypeOK, TimerFields
<1> QED
  BY <1>1, <1>2, <1>3 DEF TimerInv, Distinct, Linked, Armed, Times

\* The invariant holds in every state.
LEMMA TimerInvariance == TimerSpec => []TimerInv
BY TimerBase, TimerStep, PTL DEF TimerSpec

-----------------------------------------------------------------------------
(* The theorems about the timer *)

\* A running timer has its task in the queue and early enough, and timer and task
\* point at each other or not at all: for all delays, posts and clocks.
THEOREM TaskKeptAlways == TimerSpec => []TaskKept
<1>1. TimerInv => TaskKept
  BY DEF TimerInv, TaskKept
<1> QED
  BY <1>1, TimerInvariance, PTL

\* The user task runs only when the delay of the latest Start or Reset is over,
\* whatever time passes between the two readings of the clock.
THEOREM NeverEarlyAlways == TimerSpec => NeverEarly
<1>1. TimerInv /\ [TimerNext]_timer_vars
        => [fired' # fired => due <= now /\ fired' = fired + 1]_timer_vars
  <2> SUFFICES ASSUME TimerInv, TimerNext, fired' # fired
               PROVE  due <= now /\ fired' = fired + 1
    BY DEF timer_vars
  <2>1. PICK entry \in queue : RunTimerTask(entry) /\ fired' = fired + 1
    BY DEF TimerNext, Start, Reset, ResetTo, Stop, Destroy, DestroyTimerLoop, Tick, RunTimerTask,
           RunNothing, RunContinue, RunOneShot, RunRepeating
  <2>2. entry.timer_ /\ entry.at <= now /\ timer.is_running_ /\ ~TooEarly
    BY <2>1 DEF RunTimerTask, RunNothing, RunContinue, RunOneShot, RunRepeating, Due
  <2>3. /\ now \in Nat /\ due \in Nat /\ entry.at \in Nat
        /\ timer.desired_run_time_ \in Nat /\ timer.scheduled_run_time_ \in Nat
    BY DEF TimerInv, TimerTypes, TimerTypeOK, TimerFields
  <2>4. Mine(entry)
    BY <2>2 DEF TimerInv, Linked
  <2>5. CASE timer.desired_run_time_ = timer.scheduled_run_time_
    BY <2>1, <2>2, <2>3, <2>4, <2>5 DEF TimerInv, Times
  <2>6. CASE timer.desired_run_time_ # timer.scheduled_run_time_
    BY <2>1, <2>2, <2>3, <2>6 DEF TimerInv, Times, TooEarly
  <2> QED
    BY <2>5, <2>6
<1> QED
  BY <1>1, TimerInvariance, PTL DEF TimerSpec, NeverEarly
=============================================================================
