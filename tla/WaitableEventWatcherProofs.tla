--------------------- MODULE WaitableEventWatcherProofs ---------------------
(***************************************************************************)
(* Proofs about WaitableEventWatcher, for any events, watchers and         *)
(* addresses: a watch that is on can be told of a signal, whatever waiters *)
(* came and went at its address, and one that was stopped is not told.     *)
(***************************************************************************)
EXTENDS WaitableEventWatcher, SequenceTheorems, TLAPS

-----------------------------------------------------------------------------
(* The invariant *)

Kernel == [lock_ : BOOLEAN, signaled_ : BOOLEAN, waiters_ : Seq(Addresses)]
Watch == [cancel_flag_ : Flags \cup {None}, waiter_ : Addresses \cup {None},
          kernel_ : Events \cup {None}, observing : BOOLEAN]
Task == [flag : Flags, event : Events]
Loop == [state : {"alive", "destroying", "gone"}, queue : Seq(Task), observers : SUBSET Watchers]

Types ==
  /\ kernel \in [Events -> Kernel]
  /\ deleted \subseteq Events
  /\ heap \in [Addresses -> Flags \cup {None}]
  /\ flag_ \subseteq Flags /\ stopped \subseteq Flags /\ called \subseteq Flags
  /\ watcher \in [Watchers -> Watch]
  /\ loop \in Loop
  /\ signaler \in [pc : {"idle", "Fire", "PostTask", "delete"}, event : Events \cup {None}]
  /\ watches \in 0 .. MaxWatches /\ signals \in 0 .. MaxSignals

\* The waiters in each list, the one about to be deleted, the posted callbacks.
members == [e \in Events |-> Range(kernel[e].waiters_)]
doomed == IF signaler.pc = "delete" THEN {Head(kernel[signaler.event].waiters_)} ELSE {}
queued == {loop.queue[i].flag : i \in DOMAIN loop.queue}

\* The flags that have been made.
Made ==
  /\ \A a \in Addresses : heap[a] # None => heap[a] <= watches
  /\ \A f \in flag_ \cup stopped \cup called \cup queued : f <= watches
  /\ \A w \in Watchers : watcher[w].cancel_flag_ # None => watcher[w].cancel_flag_ <= watches

\* The signalling thread holds the lock of the event whose list it walks.
Locks ==
  /\ signaler.pc = "idle" <=> signaler.event = None
  /\ \A e \in Events : kernel[e].lock_ <=> signaler.event = e
  /\ \A e \in Events : kernel[e].lock_ => kernel[e].waiters_ # <<>>
  /\ \A e \in Events : kernel[e].signaled_ => kernel[e].waiters_ = <<>>

\* Every waiter that exists is in one list, once, and has a flag of its own.
Lists ==
  /\ \A e \in Events : IsInjective(kernel[e].waiters_)
  /\ \A d, e \in Events : \A a \in members[d] \cap members[e] : d = e
  /\ \A a \in Addresses : heap[a] # None <=> \E e \in Events : a \in members[e]
  /\ \A a, b \in Addresses : heap[a] # None /\ heap[a] = heap[b] => a = b

\* A waiter whose flag is a watcher's is where the watcher looks for it; and but
\* for the one about to be deleted, each waiter has its watcher, which observes
\* the end of the loop.
Owners ==
  /\ \A v, w \in Watchers :
       watcher[v].cancel_flag_ # None /\ watcher[v].cancel_flag_ = watcher[w].cancel_flag_ => v = w
  /\ \A w \in Watchers, a \in Addresses :
       heap[a] # None /\ watcher[w].cancel_flag_ = heap[a] =>
         /\ watcher[w].waiter_ = a
         /\ watcher[w].kernel_ \in Events /\ a \in members[watcher[w].kernel_]
  /\ \A a \in Addresses : heap[a] # None /\ a \notin doomed =>
       \E w \in Watchers : watcher[w].cancel_flag_ = heap[a] /\ watcher[w].observing
  /\ loop.observers = {w \in Watchers : watcher[w].observing}
  /\ loop.state = "gone" => loop.observers = {}

\* A waiter whose watch is over, or whose callback is posted, is about to be
\* deleted; a stopped watch whose callback is posted has its flag set.
Ended ==
  /\ \A a \in Addresses : heap[a] \in flag_ \cup stopped \cup queued => a \in doomed
  /\ \A a \in doomed : loop.state = "alive" => heap[a] \in flag_ \cup queued
  /\ \A f \in stopped \cap queued : f \in flag_

\* What is on is posted, or has its waiter.
Armed ==
  \A w \in Watchers : loop.state = "alive" /\ ~Finished(w) =>
    \/ watcher[w].cancel_flag_ \in queued
    \/ \E a \in Addresses : heap[a] = watcher[w].cancel_flag_

Inv == Types /\ Made /\ Locks /\ Lists /\ Owners /\ Ended /\ Armed
-----------------------------------------------------------------------------
(* Lists *)

\* A waiter at the end of a list it is not in.
LEMMA AppendList ==
  ASSUME NEW list \in Seq(Addresses), NEW x \in Addresses, IsInjective(list), x \notin Range(list)
  PROVE  /\ Append(list, x) \in Seq(Addresses) /\ Append(list, x) # <<>>
         /\ Range(Append(list, x)) = Range(list) \cup {x}
         /\ IsInjective(Append(list, x))
<1>1. /\ Len(list) \in Nat /\ DOMAIN list = 1 .. Len(list)
      /\ DOMAIN Append(list, x) = 1 .. Len(list) + 1
      /\ Append(list, x)[Len(list) + 1] = x
      /\ \A i \in 1 .. Len(list) : Append(list, x)[i] = list[i]
  OBVIOUS
<1>2. 1 .. Len(list) + 1 = (1 .. Len(list)) \cup {Len(list) + 1}
  BY <1>1
<1>3. Range(Append(list, x)) = Range(list) \cup {x}
  BY <1>1, <1>2 DEF Range
<1>4. IsInjective(Append(list, x))
  BY <1>1, <1>2 DEF IsInjective, Range
<1> QED
  BY <1>1, <1>2, <1>3, <1>4

\* A list without its head.
LEMMA PopList ==
  ASSUME NEW list \in Seq(Addresses), list # <<>>, IsInjective(list)
  PROVE  /\ Tail(list) \in Seq(Addresses) /\ IsInjective(Tail(list))
         /\ 1 \in DOMAIN list /\ Head(list) = list[1] /\ Head(list) \in Addresses
         /\ Range(Tail(list)) = Range(list) \ {Head(list)}
         /\ \A i \in DOMAIN Tail(list) : i + 1 \in DOMAIN list /\ Tail(list)[i] = list[i + 1]
<1>1. /\ Len(list) \in Nat \ {0} /\ DOMAIN list = 1 .. Len(list)
      /\ DOMAIN Tail(list) = 1 .. Len(list) - 1
      /\ Head(list) = list[1] /\ \A i \in 1 .. Len(list) - 1 : Tail(list)[i] = list[i + 1]
  OBVIOUS
<1>2. IsInjective(Tail(list))
  BY <1>1 DEF IsInjective
<1>3. ASSUME NEW x \in Range(Tail(list)) PROVE x \in Range(list) \ {Head(list)}
  BY <1>1, <1>3 DEF Range, IsInjective
<1>4. ASSUME NEW x \in Range(list), x # Head(list) PROVE x \in Range(Tail(list))
  <2>1. PICK i \in 1 .. Len(list) : x = list[i]
    BY <1>1, <1>4 DEF Range
  <2>2. i - 1 \in 1 .. Len(list) - 1 /\ Tail(list)[i - 1] = list[i]
    BY <1>1, <1>4, <2>1
  <2> QED
    BY <1>1, <2>1, <2>2 DEF Range
<1> QED
  BY <1>1, <1>2, <1>3, <1>4

\* A list without one waiter.
LEMMA RemoveList ==
  ASSUME NEW list \in Seq(Addresses), NEW x \in Addresses, IsInjective(list)
  PROVE  /\ RemoveFirst(list, x) \in Seq(Addresses) /\ IsInjective(RemoveFirst(list, x))
         /\ Range(RemoveFirst(list, x)) = Range(list) \ {x}
<1>1. Len(list) \in Nat /\ DOMAIN list = 1 .. Len(list)
  OBVIOUS
<1>2. CASE x \notin Range(list)
  <2>1. RemoveFirst(list, x) = list
    BY <1>1, <1>2 DEF RemoveFirst, Range
  <2> QED
    BY <1>2, <2>1
<1>3. CASE x \in Range(list)
  <2>1. PICK m \in 1 .. Len(list) : list[m] = x
    BY <1>1, <1>3 DEF Range
  <2>2. {i \in 1 .. Len(list) : list[i] = x} = {m}
    BY <1>1, <2>1 DEF IsInjective
  <2>3. SelectInSeq(list, LAMBDA v : v = x) = m
    BY <2>2 DEF SelectInSeq, Min
  <2> DEFINE a == SubSeq(list, 1, m - 1)
             b == SubSeq(list, m + 1, Len(list))
             r == a \o b
  <2>4. RemoveFirst(list, x) = r
    BY <2>1, <2>3 DEF RemoveFirst, RemoveAt
  <2> DEFINE n == Len(list)
  <2>5. n \in Nat /\ m \in 1 .. n /\ DOMAIN list = 1 .. n /\ \A i \in 1 .. n : list[i] \in Addresses
    BY <1>1, <2>1
  <2>6. /\ a \in Seq(Addresses) /\ Len(a) = m - 1 /\ \A i \in 1 .. m - 1 : a[i] = list[i]
    <3>1. \A i \in 1 .. m - 1 : list[i] \in Addresses
      BY <2>5
    <3> QED
      BY <2>5, <3>1, SubSeqProperties
  <2>7. /\ b \in Seq(Addresses) /\ Len(b) = n - m /\ \A i \in 1 .. n - m : b[i] = list[m + i]
    <3>1. \A i \in m + 1 .. n : list[i] \in Addresses
      BY <2>5
    <3>2. /\ b \in Seq(Addresses) /\ Len(b) = IF m + 1 <= n THEN n - (m + 1) + 1 ELSE 0
          /\ \A i \in 1 .. n - (m + 1) + 1 : b[i] = list[(m + 1) + i - 1]
      <4> HIDE DEF n
      <4>1. m + 1 \in Int /\ n \in Int
        BY <2>5
      <4> QED
        BY <3>1, <4>1, SubSeqProperties DEF n
    <3> HIDE DEF n, b
    <3> QED
      BY <2>5, <3>2
  <2> HIDE DEF a, b, n
  <2>8. /\ r \in Seq(Addresses) /\ Len(r) = n - 1
        /\ \A i \in 1 .. n - 1 : r[i] = IF i <= m - 1 THEN a[i] ELSE b[i - (m - 1)]
    BY <2>5, <2>6, <2>7, ConcatProperties
  <2> HIDE DEF r
  <2>9. DOMAIN r = 1 .. n - 1
    BY <2>8
  <2>10. \A i \in 1 .. n - 1 : r[i] = IF i < m THEN list[i] ELSE list[i + 1]
    <3> TAKE i \in 1 .. n - 1
    <3>1. CASE i < m
      BY <2>5, <2>6, <2>8, <3>1
    <3>2. CASE ~(i < m)
      <4>1. i - (m - 1) \in 1 .. n - m /\ m + (i - (m - 1)) = i + 1 /\ ~(i <= m - 1)
        BY <2>5, <3>2
      <4>2. r[i] = b[i - (m - 1)]
        BY <2>8, <4>1
      <4>3. b[i - (m - 1)] = list[m + (i - (m - 1))]
        BY <2>7, <4>1
      <4> QED
        BY <3>2, <4>1, <4>2, <4>3
    <3> QED
      BY <3>1, <3>2
  <2>11. IsInjective(r)
    <3> SUFFICES ASSUME NEW i \in 1 .. n - 1, NEW j \in 1 .. n - 1, r[i] = r[j] PROVE i = j
      BY <2>9 DEF IsInjective
    <3> DEFINE f == IF i < m THEN i ELSE i + 1
               g == IF j < m THEN j ELSE j + 1
    <3>1. f \in 1 .. n /\ g \in 1 .. n /\ (f = g => i = j)
      BY <2>5
    <3>2. r[i] = list[f] /\ r[j] = list[g]
      BY <2>10
    <3> HIDE DEF f, g
    <3> QED
      BY <2>5, <3>1, <3>2 DEF IsInjective
  <2>12. ASSUME NEW y \in Range(r) PROVE y \in Range(list) \ {x}
    <3>1. PICK i \in 1 .. n - 1 : y = r[i]
      BY <2>9, <2>12 DEF Range
    <3>2. i \in 1 .. n /\ i + 1 \in 1 .. n /\ (i < m => i # m) /\ (~(i < m) => i + 1 # m)
      BY <2>5
    <3> QED
      BY <2>1, <2>5, <2>10, <3>1, <3>2 DEF Range, IsInjective
  <2>13. ASSUME NEW y \in Range(list), y # x PROVE y \in Range(r)
    <3>1. PICK i \in 1 .. n : y = list[i]
      BY <2>5, <2>13 DEF Range
    <3>2. CASE i < m
      <4>1. i \in 1 .. n - 1
        BY <2>5, <3>2
      <4> QED
        BY <2>9, <2>10, <3>1, <3>2, <4>1 DEF Range
    <3>3. CASE i > m
      <4>1. i - 1 \in 1 .. n - 1 /\ ~(i - 1 < m) /\ (i - 1) + 1 = i
        BY <2>5, <3>3
      <4>2. r[i - 1] = list[(i - 1) + 1]
        BY <2>10, <4>1
      <4> QED
        BY <2>9, <3>1, <4>1, <4>2 DEF Range
    <3> QED
      BY <2>1, <2>5, <2>13, <3>1, <3>2, <3>3
  <2> QED
    BY <2>4, <2>8, <2>11, <2>12, <2>13
<1> QED
  BY <1>2, <1>3

-----------------------------------------------------------------------------
(* What the state looks like, and what each step does to lists, queue and  *)
(* the waiter about to be deleted                                          *)

\* The lists hold addresses.
LEMMA MembersType ==
  ASSUME Types
  PROVE  /\ \A e \in Events : kernel[e].waiters_ \in Seq(Addresses)
         /\ \A e \in Events : members[e] = Range(kernel[e].waiters_) /\ members[e] \subseteq Addresses
         /\ queued \subseteq Flags
<1>1. \A e \in Events : kernel[e].waiters_ \in Seq(Addresses)
  BY DEF Types, Kernel
<1>2. \A e \in Events : members[e] = Range(kernel[e].waiters_)
  BY DEF members
<1>3. \A s \in Seq(Addresses) : Range(s) \subseteq Addresses
  BY DEF Range
<1>4. loop.queue \in Seq(Task)
  BY DEF Types, Loop
<1>5. \A i \in DOMAIN loop.queue : loop.queue[i].flag \in Flags
  <2>1. \A i \in DOMAIN loop.queue : loop.queue[i] \in Task
    BY <1>4
  <2> QED
    BY <2>1 DEF Task
<1> QED
  BY <1>1, <1>2, <1>3, <1>5 DEF queued

\* None is no flag.
LEMMA FlagsNotNone ==
  ASSUME Types
  PROVE  None \notin Flags /\ None \notin flag_ \cup stopped \cup called \cup queued
<1>1. None \notin Flags
  BY ConstantsAssumption DEF Flags
<1> QED
  BY <1>1, MembersType DEF Types

\* The waiter that is being fired, at the head of the locked list.
LEMMA FiringState ==
  ASSUME Inv, signaler.pc # "idle"
  PROVE  \E e \in Events, a \in Addresses :
           /\ signaler.event = e /\ kernel[e].lock_ /\ kernel[e].waiters_ # <<>>
           /\ ~kernel[e].signaled_
           /\ Head(kernel[e].waiters_) = a /\ a \in members[e] /\ heap[a] \in Flags
<1>1. PICK e \in Events : signaler.event = e
  BY DEF Inv, Types, Locks
<1>2. kernel[e].lock_ /\ kernel[e].waiters_ # <<>> /\ ~kernel[e].signaled_
  BY <1>1 DEF Inv, Locks
<1>3. kernel[e].waiters_ \in Seq(Addresses) /\ IsInjective(kernel[e].waiters_)
  BY MembersType DEF Inv, Lists
<1>4. PICK a \in Addresses : Head(kernel[e].waiters_) = a
  BY <1>2, <1>3
<1>5. a \in members[e]
  <2>1. 1 \in DOMAIN kernel[e].waiters_ /\ kernel[e].waiters_[1] = a
    BY <1>2, <1>3, <1>4
  <2>2. a \in Range(kernel[e].waiters_)
    BY <2>1 DEF Range
  <2> QED
    BY <2>2 DEF members
<1>6. heap[a] \in Flags
  BY <1>5 DEF Inv, Lists, Types
<1> QED
  BY <1>1, <1>2, <1>4, <1>5, <1>6

\* A list that stays as it is keeps its members.
LEMMA MembersSame ==
  ASSUME Types, NEW S \in SUBSET Events,
         \A e \in Events \ S : kernel'[e].waiters_ = kernel[e].waiters_
  PROVE  \A e \in Events \ S : members'[e] = members[e]
BY DEF members

\* The kernel changes, but no list does.
LEMMA ListsSame ==
  ASSUME Inv, \A e \in Events : kernel'[e].waiters_ = kernel[e].waiters_
  PROVE  /\ members' = members
         /\ (signaler' = signaler => doomed' = doomed)
<1>1. members' = members
  BY DEF members
<1>2. ASSUME signaler' = signaler, signaler.pc # "delete" PROVE doomed' = doomed
  BY <1>2 DEF doomed
<1>3. ASSUME signaler' = signaler, signaler.event \in Events PROVE doomed' = doomed
  <2>1. kernel'[signaler'.event].waiters_ = kernel[signaler.event].waiters_
    BY <1>3
  <2> QED
    BY <1>3, <2>1 DEF doomed
<1>4. signaler.pc = "delete" => signaler.event \in Events
  BY DEF Inv, Types, Locks
<1> QED
  BY <1>1, <1>2, <1>3, <1>4
\* What is appended to the queue is posted.
LEMMA QueueAppend ==
  ASSUME Types, NEW task \in Task, loop'.queue = Append(loop.queue, task)
  PROVE  queued' = queued \cup {task.flag} /\ Append(loop.queue, task) \in Seq(Task)
<1>1. PICK q \in Seq(Task) : q = loop.queue
  BY DEF Types, Loop
<1>2. /\ Append(q, task) \in Seq(Task)
      /\ DOMAIN Append(q, task) = (DOMAIN q) \cup {Len(q) + 1}
      /\ Append(q, task)[Len(q) + 1] = task
      /\ \A i \in DOMAIN q : Append(q, task)[i] = q[i]
  OBVIOUS
<1>3. {Append(q, task)[i].flag : i \in DOMAIN Append(q, task)} = {q[i].flag : i \in DOMAIN q} \cup {task.flag}
  BY <1>2
<1> QED
  BY <1>1, <1>2, <1>3 DEF queued

\* What is taken from the queue is not.
LEMMA QueueTake ==
  ASSUME Types, loop.queue # <<>>, loop'.queue = Tail(loop.queue)
  PROVE  /\ Tail(loop.queue) \in Seq(Task) /\ Head(loop.queue) \in Task
         /\ Head(loop.queue).flag \in queued
         /\ queued' \subseteq queued /\ queued \subseteq queued' \cup {Head(loop.queue).flag}
<1>1. PICK q \in Seq(Task) : q = loop.queue
  BY DEF Types, Loop
<1>2. /\ Tail(q) \in Seq(Task) /\ Len(q) \in Nat \ {0} /\ DOMAIN q = 1 .. Len(q)
      /\ DOMAIN Tail(q) = 1 .. Len(q) - 1 /\ Head(q) = q[1]
      /\ \A i \in 1 .. Len(q) - 1 : Tail(q)[i] = q[i + 1]
  BY <1>1
<1>3. queued = {q[i].flag : i \in 1 .. Len(q)} /\ queued' = {Tail(q)[i].flag : i \in 1 .. Len(q) - 1}
  <2>1. queued = {q[i].flag : i \in DOMAIN q} /\ queued' = {Tail(q)[i].flag : i \in DOMAIN Tail(q)}
    BY <1>1 DEF queued
  <2> QED
    BY <1>2, <2>1
<1>4. queued' \subseteq queued
  <2> SUFFICES ASSUME NEW i \in 1 .. Len(q) - 1 PROVE Tail(q)[i].flag \in queued
    BY <1>3
  <2>1. i + 1 \in 1 .. Len(q) /\ Tail(q)[i] = q[i + 1]
    BY <1>2
  <2> QED
    BY <1>3, <2>1
<1>5. queued \subseteq queued' \cup {Head(q).flag}
  <2> SUFFICES ASSUME NEW i \in 1 .. Len(q), i # 1 PROVE q[i].flag \in queued'
    BY <1>2, <1>3
  <2>1. i - 1 \in 1 .. Len(q) - 1 /\ Tail(q)[i - 1] = q[i]
    BY <1>2
  <2> QED
    BY <1>3, <2>1
<1>6. Head(q) \in Task /\ Head(q).flag \in queued
  <2>1. 1 \in 1 .. Len(q)
    BY <1>2
  <2> QED
    BY <1>2, <1>3, <2>1
<1> QED
  BY <1>1, <1>2, <1>4, <1>5, <1>6

\* An empty queue.
LEMMA QueueEmpty ==
  ASSUME loop'.queue = <<>>
  PROVE  queued' = {}
BY DEF queued
-----------------------------------------------------------------------------
(* The steps *)

\* A step that leaves lists, watches and the loop alone.
LEMMA QuietStep ==
  ASSUME Inv, \A e \in Events : kernel'[e].waiters_ = kernel[e].waiters_, doomed' = doomed,
         UNCHANGED <<heap, flag_, watcher, loop, watches, stopped, called>>
  PROVE  Made' /\ Lists' /\ Owners' /\ Ended' /\ Armed'
<1>1. members' = members /\ queued' = queued
  BY DEF members, queued
<1>2. Made'
  BY <1>1 DEF Inv, Made
<1>3. Lists'
  BY <1>1 DEF Inv, Lists
<1>4. Owners'
  BY <1>1 DEF Inv, Owners
<1>5. Ended'
  BY <1>1 DEF Inv, Ended
<1>6. Armed'
  BY <1>1 DEF Inv, Armed, Finished
<1> QED
  BY <1>2, <1>3, <1>4, <1>5, <1>6

\* Signal: keeps the signal, or begins to fire the waiters.
LEMMA SignalInv ==
  ASSUME Inv, NEW e \in Events, Signal(e)
  PROVE  Inv'
<1> USE DEF Signal
<1>1. kernel[e] \in Kernel /\ kernel \in [Events -> Kernel]
  BY DEF Inv, Types
<1>2. /\ kernel' \in [Events -> Kernel] /\ signals' \in 0 .. MaxSignals
      /\ signaler' \in [pc : {"idle", "Fire", "PostTask", "delete"}, event : Events \cup {None}]
      /\ \A d \in Events : d # e => kernel'[d] = kernel[d]
      /\ kernel'[e].waiters_ = kernel[e].waiters_
      /\ kernel'[e].signaled_ <=> kernel[e].waiters_ = <<>>
      /\ kernel'[e].lock_ <=> (kernel[e].waiters_ # <<>> \/ kernel[e].lock_)
      /\ kernel[e].waiters_ = <<>> => signaler' = signaler
      /\ kernel[e].waiters_ # <<>> => signaler' = [pc |-> "Fire", event |-> e]
  <2>1. signals' \in 0 .. MaxSignals
    BY ConstantsAssumption DEF Inv, Types
  <2>2. CASE kernel[e].waiters_ = <<>>
    <3>1. kernel' = [kernel EXCEPT ![e].signaled_ = TRUE] /\ signaler' = signaler
      BY <2>2
    <3> QED
      BY <1>1, <2>1, <2>2, <3>1 DEF Inv, Types, Kernel
  <2>3. CASE kernel[e].waiters_ # <<>>
    <3>1. kernel' = [kernel EXCEPT ![e].lock_ = TRUE] /\ signaler' = [pc |-> "Fire", event |-> e]
      BY <2>3
    <3> QED
      BY <1>1, <2>1, <2>3, <3>1 DEF Inv, Types, Kernel
  <2> QED
    BY <2>2, <2>3
<1>3. \A d \in Events : kernel'[d].waiters_ = kernel[d].waiters_
  BY <1>2
<1>4. doomed' = doomed /\ Types'
  BY <1>2 DEF doomed, Inv, Types
<1>5. Locks'
  <2>1. signaler.event = None /\ \A d \in Events : ~kernel[d].lock_
    BY ConstantsAssumption DEF Inv, Locks
  <2>2. CASE kernel[e].waiters_ = <<>>
    BY <1>2, <2>1, <2>2 DEF Inv, Locks
  <2>3. CASE kernel[e].waiters_ # <<>>
    BY <1>2, <2>1, <2>3, ConstantsAssumption DEF Inv, Locks
  <2> QED
    BY <2>2, <2>3
<1>6. Made' /\ Lists' /\ Owners' /\ Ended' /\ Armed'
  BY <1>3, <1>4, QuietStep
<1> QED
  BY <1>4, <1>5, <1>6 DEF Inv

\* Fire, the test of the flag: the watch of a waiter in the list is not over.
LEMMA FireCheckInv ==
  ASSUME Inv, FireCheck
  PROVE  Inv' /\ signaler'.pc = "PostTask"
<1> USE DEF FireCheck
<1>1. PICK e \in Events, a \in Addresses :
        /\ signaler.event = e /\ Head(kernel[e].waiters_) = a /\ a \in members[e] /\ heap[a] \in Flags
  BY FiringState
<1>2. doomed = {}
  BY DEF doomed
<1>3. heap[a] \notin flag_
  BY <1>2 DEF Inv, Ended
<1>4. signaler' = [signaler EXCEPT !.pc = "PostTask"]
  BY <1>1, <1>3
<1>5. signaler \in [pc : {"idle", "Fire", "PostTask", "delete"}, event : Events \cup {None}]
  BY DEF Inv, Types
<1>6. signaler'.pc = "PostTask" /\ signaler'.event = signaler.event
  BY <1>4, <1>5
<1>7. Types'
  BY <1>4, <1>5 DEF Inv, Types
<1>8. Locks'
  BY <1>1, <1>6 DEF Inv, Locks
<1>9. Made' /\ Lists' /\ Owners' /\ Ended' /\ Armed'
  <2>1. doomed' = doomed
    BY <1>2, <1>6 DEF doomed
  <2> QED
    BY <2>1, QuietStep
<1> QED
  BY <1>6, <1>7, <1>8, <1>9 DEF Inv

\* Reset.
LEMMA ResetInv ==
  ASSUME Inv, NEW e \in Events, Reset(e)
  PROVE  Inv'
<1> USE DEF Reset
<1>1. kernel[e] \in Kernel /\ kernel \in [Events -> Kernel]
  BY DEF Inv, Types
<1>2. Types'
  BY <1>1 DEF Inv, Types, Kernel
<1>3. \A d \in Events : /\ kernel'[d].waiters_ = kernel[d].waiters_
                        /\ kernel'[d].lock_ = kernel[d].lock_
                        /\ kernel'[d].signaled_ => kernel[d].signaled_
  BY <1>1 DEF Kernel
<1>4. Locks'
  BY <1>3 DEF Inv, Locks
<1>5. doomed' = doomed
  BY <1>3, ListsSame
<1>6. Made' /\ Lists' /\ Owners' /\ Ended' /\ Armed'
  BY <1>3, <1>5, QuietStep
<1> QED
  BY <1>2, <1>4, <1>6 DEF Inv

\* The event is deleted; its kernel stays.
LEMMA DeleteEventInv ==
  ASSUME Inv, NEW e \in Events, DeleteEvent(e)
  PROVE  Inv'
<1> USE DEF DeleteEvent
<1>1. Types'
  BY DEF Inv, Types
<1>2. Locks' /\ doomed' = doomed
  BY DEF Inv, Locks, doomed
<1>3. Made' /\ Lists' /\ Owners' /\ Ended' /\ Armed'
  BY <1>2, QuietStep
<1> QED
  BY <1>1, <1>2, <1>3 DEF Inv
\* Fire posts the callback: of the waiter at the head, which is deleted next.
LEMMA FirePostInv ==
  ASSUME Inv, FirePost
  PROVE  Inv'
<1> USE DEF FirePost
<1>1. PICK e \in Events, a \in Addresses :
        /\ signaler.event = e /\ kernel[e].waiters_ # <<>> /\ Head(kernel[e].waiters_) = a
        /\ a \in members[e] /\ heap[a] \in Flags
  BY FiringState
<1>2. PICK task \in Task : task = [flag |-> heap[a], event |-> e]
  BY <1>1 DEF Task
<1>3. /\ loop \in Loop /\ loop' = [loop EXCEPT !.queue = Append(@, task)]
      /\ signaler \in [pc : {"idle", "Fire", "PostTask", "delete"}, event : Events \cup {None}]
      /\ signaler' = [signaler EXCEPT !.pc = "delete"]
  BY <1>1, <1>2 DEF Inv, Types
<1>4. /\ loop'.queue = Append(loop.queue, task) /\ loop'.state = loop.state
      /\ loop'.observers = loop.observers
      /\ signaler'.pc = "delete" /\ signaler'.event = e
  BY <1>1, <1>3 DEF Loop
<1>5. queued' = queued \cup {heap[a]} /\ Append(loop.queue, task) \in Seq(Task)
  <2>1. task.flag = heap[a]
    BY <1>2
  <2> QED
    BY <1>4, <2>1, QueueAppend DEF Inv
<1>6. doomed = {} /\ doomed' = {a} /\ members' = members
  BY <1>1, <1>4 DEF doomed, members
<1>7. Types'
  <2>1. loop' \in Loop
    BY <1>3, <1>5 DEF Loop
  <2> QED
    BY <1>3, <2>1 DEF Inv, Types
<1>8. Locks'
  BY <1>1, <1>4 DEF Inv, Locks
<1>9. Made'
  BY <1>1, <1>5, ConstantsAssumption DEF Inv, Made, Flags
<1>10. Lists'
  BY <1>6 DEF Inv, Lists
<1>11. Owners'
  BY <1>4, <1>6 DEF Inv, Owners
<1>12. Ended'
  <2>1. \A b \in Addresses : heap[b] \notin flag_ \cup stopped \cup queued
    BY <1>6 DEF Inv, Ended
  <2>2. \A b \in Addresses : heap[b] = heap[a] => b = a
    BY <1>1, ConstantsAssumption DEF Inv, Lists, Flags
  <2> QED
    BY <1>4, <1>5, <1>6, <2>1, <2>2 DEF Inv, Ended
<1>13. Armed'
  BY <1>4, <1>5 DEF Inv, Armed, Finished
<1> QED
  BY <1>7, <1>8, <1>9, <1>10, <1>11, <1>12, <1>13 DEF Inv

\* The fired waiter is deleted; the lock is kept for the next one, if any.
LEMMA FireDeleteInv ==
  ASSUME Inv, FireDelete
  PROVE  Inv'
<1> signaler.pc = "delete" /\ UNCHANGED <<deleted, flag_, watcher, loop, watches, signals, stopped, called>>
  BY DEF FireDelete
<1>1. PICK e \in Events, a \in Addresses :
        /\ signaler.event = e /\ kernel[e].lock_ /\ kernel[e].waiters_ # <<>>
        /\ Head(kernel[e].waiters_) = a /\ a \in members[e] /\ heap[a] \in Flags
  BY FiringState
<1>2. PICK list \in Seq(Addresses) : list = kernel[e].waiters_ /\ IsInjective(list) /\ list # <<>>
  BY <1>1, MembersType DEF Inv, Lists
<1>3. PICK rest \in Seq(Addresses) :
        rest = Tail(list) /\ IsInjective(rest) /\ Range(rest) = members[e] \ {a}
  <2>1. members[e] = Range(list)
    BY <1>2 DEF members
  <2>2. Tail(list) \in Seq(Addresses) /\ IsInjective(Tail(list)) /\ Range(Tail(list)) = Range(list) \ {a}
    BY <1>1, <1>2, PopList
  <2> QED
    BY <2>1, <2>2
<1>4. PICK more \in BOOLEAN : more = (e \in ManualReset /\ rest # <<>>)
  OBVIOUS
<1>5. /\ heap' = [heap EXCEPT ![a] = None]
      /\ kernel' = [kernel EXCEPT ![e] =
           [lock_ |-> more, waiters_ |-> rest, signaled_ |-> ~more /\ e \in ManualReset]]
      /\ signaler' = IF more THEN [signaler EXCEPT !.pc = "Fire"] ELSE Quiet
  BY <1>1, <1>2, <1>3, <1>4 DEF FireDelete
<1>6. /\ kernel \in [Events -> Kernel] /\ heap \in [Addresses -> Flags \cup {None}]
      /\ signaler \in [pc : {"idle", "Fire", "PostTask", "delete"}, event : Events \cup {None}]
  BY DEF Inv, Types
<1>7. /\ kernel' \in [Events -> Kernel] /\ heap' \in [Addresses -> Flags \cup {None}]
      /\ signaler' \in [pc : {"idle", "Fire", "PostTask", "delete"}, event : Events \cup {None}]
      /\ \A d \in Events : d # e => kernel'[d] = kernel[d]
      /\ kernel'[e].lock_ = more /\ kernel'[e].waiters_ = rest
      /\ kernel'[e].signaled_ = (~more /\ e \in ManualReset)
      /\ heap'[a] = None /\ \A b \in Addresses : b # a => heap'[b] = heap[b]
      /\ more => signaler'.pc = "Fire" /\ signaler'.event = e
      /\ ~more => signaler'.pc = "idle" /\ signaler'.event = None
  BY <1>1, <1>5, <1>6 DEF Kernel, Quiet
<1>8. /\ members'[e] = members[e] \ {a} /\ \A d \in Events : d # e => members'[d] = members[d]
      /\ doomed = {a} /\ doomed' = {} /\ queued' = queued
  <2>1. members'[e] = Range(rest) /\ \A d \in Events : d # e => members'[d] = members[d]
    BY <1>7 DEF members
  <2>2. doomed = {a} /\ doomed' = {} /\ queued' = queued
    BY <1>1, <1>7 DEF doomed, queued
  <2> QED
    BY <1>3, <2>1, <2>2
<1>9. Types'
  BY <1>7 DEF Inv, Types
<1>10. Locks'
  <2>1. \A d \in Events : d # e => ~kernel[d].lock_
    BY <1>1 DEF Inv, Locks
  <2> QED
    <3>1. CASE more
      BY <1>1, <1>4, <1>7, <2>1, <3>1 DEF Inv, Locks
    <3>2. CASE ~more
      <4>1. signaler'.pc = "idle" /\ signaler'.event = None /\ \A d \in Events : d # None
        BY <1>7, <3>2, ConstantsAssumption
      <4>2. ~kernel'[e].lock_ /\ (kernel'[e].signaled_ => kernel'[e].waiters_ = <<>>)
        BY <1>4, <1>7, <3>2
      <4>3. \A d \in Events : ~kernel'[d].lock_ /\ (kernel'[d].signaled_ => kernel'[d].waiters_ = <<>>)
        BY <1>7, <2>1, <4>2 DEF Inv, Locks
      <4> QED
        BY <4>1, <4>3 DEF Locks
    <3> QED
      BY <3>1, <3>2
<1>11. Made'
  BY <1>7, <1>8 DEF Inv, Made
<1>12. Lists'
  <2>1. \A d \in Events : IsInjective(kernel'[d].waiters_)
    BY <1>3, <1>7 DEF Inv, Lists
  <2>2. \A d \in Events : a \notin members'[d]
    BY <1>1, <1>8 DEF Inv, Lists
  <2>3. \A b \in Addresses, d \in Events : b # a => (b \in members'[d] <=> b \in members[d])
    BY <1>8
  <2>4. \A c, d \in Events : \A b \in members'[c] \cap members'[d] : c = d
    <3>1. \A c \in Events : members'[c] \subseteq members[c]
      BY <1>8
    <3> QED
      BY <3>1 DEF Inv, Lists
  <2>5. \A b \in Addresses : heap'[b] # None <=> \E d \in Events : b \in members'[d]
    BY <1>7, <2>2, <2>3 DEF Inv, Lists
  <2>6. \A b, c \in Addresses : heap'[b] # None /\ heap'[b] = heap'[c] => b = c
    BY <1>7 DEF Inv, Lists
  <2> QED
    BY <2>1, <2>4, <2>5, <2>6 DEF Lists
<1>13. Owners'
  <2>1. \A w \in Watchers, b \in Addresses :
          heap'[b] # None /\ watcher[w].cancel_flag_ = heap'[b] =>
            /\ watcher[w].waiter_ = b
            /\ watcher[w].kernel_ \in Events /\ b \in members'[watcher[w].kernel_]
    <3> SUFFICES ASSUME NEW w \in Watchers, NEW b \in Addresses, heap'[b] # None,
                        watcher[w].cancel_flag_ = heap'[b]
                 PROVE  /\ watcher[w].waiter_ = b
                        /\ watcher[w].kernel_ \in Events /\ b \in members'[watcher[w].kernel_]
      OBVIOUS
    <3>1. b # a /\ heap'[b] = heap[b]
      BY <1>7
    <3>2. PICK k \in Events : k = watcher[w].kernel_ /\ b \in members[k] /\ watcher[w].waiter_ = b
      BY <3>1 DEF Inv, Owners
    <3> QED
      BY <1>8, <3>1, <3>2
  <2>2. \A b \in Addresses : heap'[b] # None =>
          \E w \in Watchers : watcher[w].cancel_flag_ = heap'[b] /\ watcher[w].observing
    BY <1>7, <1>8 DEF Inv, Owners
  <2> QED
    BY <1>8, <2>1, <2>2 DEF Inv, Owners
<1>14. Ended'
  <2>1. \A b \in Addresses : b # a => heap[b] \notin flag_ \cup stopped \cup queued
    BY <1>8 DEF Inv, Ended
  <2>2. None \notin flag_ \cup stopped \cup queued
    BY FlagsNotNone DEF Inv
  <2> QED
    BY <1>7, <1>8, <2>1, <2>2 DEF Inv, Ended
<1>15. Armed'
  <2> SUFFICES ASSUME NEW w \in Watchers, loop.state = "alive", ~Finished(w)
               PROVE  \/ watcher[w].cancel_flag_ \in queued
                      \/ \E b \in Addresses : heap'[b] = watcher[w].cancel_flag_
    BY <1>8 DEF Armed, Finished
  <2>1. heap[a] \in flag_ \cup queued
    BY <1>8 DEF Inv, Ended
  <2> QED
    BY <1>7, <2>1 DEF Inv, Armed, Finished
<1> QED
  BY <1>9, <1>10, <1>11, <1>12, <1>13, <1>14, <1>15 DEF Inv
\* The flag of a new watch.
LEMMA NewFlag ==
  ASSUME Inv, watches < MaxWatches
  PROVE  /\ watches + 1 \in Flags /\ watches + 1 \in 0 .. MaxWatches /\ watches + 1 # None
         /\ watches + 1 \notin flag_ \cup stopped \cup called \cup queued
         /\ \A a \in Addresses : heap[a] # watches + 1
         /\ \A w \in Watchers : watcher[w].cancel_flag_ # watches + 1
<1>1. watches \in Nat /\ watches + 1 \in Flags /\ watches + 1 \in 0 .. MaxWatches
  BY ConstantsAssumption DEF Inv, Types, Flags
<1>2. watches + 1 # None
  BY <1>1, FlagsNotNone DEF Inv
<1>3. \A f \in Flags : f <= watches => f # watches + 1
  BY <1>1 DEF Flags
<1>4. watches + 1 \notin flag_ \cup stopped \cup called \cup queued
  BY <1>1, <1>3 DEF Inv, Made
<1>5. \A a \in Addresses : heap[a] # watches + 1
  BY <1>1, <1>2, <1>3 DEF Inv, Made
<1>6. \A w \in Watchers : watcher[w].cancel_flag_ # watches + 1
  BY <1>1, <1>2, <1>3 DEF Inv, Made
<1> QED
  BY <1>1, <1>2, <1>4, <1>5, <1>6

\* A watch is over when the flag it has is set, so no waiter of its own remains
\* but the one about to be deleted.
LEMMA FinishedWatch ==
  ASSUME Inv, NEW w \in Watchers, Finished(w)
  PROVE  \A a \in Addresses : heap[a] # None /\ heap[a] = watcher[w].cancel_flag_ => a \in doomed
BY DEF Finished, Inv, Ended

\* The flags made are still below the number of watches.
LEMMA MadeMore ==
  ASSUME Inv, watches' = watches + 1
  PROVE  \A f \in Flags : f <= watches => f <= watches'
BY DEF Inv, Types, Flags

\* StartWatching on a signaled event.
LEMMA StartSignaledInv ==
  ASSUME Inv, NEW w \in Watchers, NEW e \in Events, StartSignaled(w, e)
  PROVE  Inv'
<1> DEFINE f == watches + 1
<1> /\ loop.state = "alive" /\ Finished(w) /\ watches < MaxWatches /\ watches' = f
    /\ ~kernel[e].lock_ /\ kernel[e].signaled_
    /\ UNCHANGED <<deleted, heap, flag_, signaler, signals, stopped, called>>
  BY DEF StartSignaled
<1>1. /\ f \in Flags /\ f \in 0 .. MaxWatches /\ f # None
      /\ f \notin flag_ \cup stopped \cup called \cup queued
      /\ \A a \in Addresses : heap[a] # f
      /\ \A v \in Watchers : watcher[v].cancel_flag_ # f
      /\ \A g \in Flags : g <= watches => g <= watches'
  BY NewFlag, MadeMore
<1>2. PICK task \in Task : task = [flag |-> f, event |-> e]
  BY <1>1 DEF Task
<1>3. /\ kernel \in [Events -> Kernel] /\ watcher \in [Watchers -> Watch] /\ loop \in Loop
      /\ kernel' = [kernel EXCEPT ![e].signaled_ = e \in ManualReset]
      /\ watcher' = [watcher EXCEPT ![w].cancel_flag_ = f, ![w].observing = FALSE]
      /\ loop' = [loop EXCEPT !.queue = Append(@, task), !.observers = @ \ {w}]
  BY <1>2 DEF Inv, Types, StartSignaled
<1>4. /\ loop'.queue = Append(loop.queue, task) /\ loop'.state = "alive"
      /\ loop'.observers = loop.observers \ {w}
  BY <1>3 DEF Loop
<1>5. queued' = queued \cup {f} /\ Append(loop.queue, task) \in Seq(Task)
  <2>1. task.flag = f
    BY <1>2
  <2> QED
    BY <1>4, <2>1, QueueAppend DEF Inv
<1>6. /\ kernel' \in [Events -> Kernel]
      /\ \A d \in Events : /\ kernel'[d].waiters_ = kernel[d].waiters_
                           /\ kernel'[d].lock_ = kernel[d].lock_
                           /\ kernel'[d].signaled_ => kernel[d].signaled_
  BY <1>3 DEF Kernel
<1>7. members' = members /\ doomed' = doomed
  BY <1>6, ListsSame
<1>8. /\ watcher' \in [Watchers -> Watch] /\ watcher'[w].cancel_flag_ = f /\ ~watcher'[w].observing
      /\ \A v \in Watchers : v # w => watcher'[v] = watcher[v]
  BY <1>1, <1>3 DEF Watch
<1> HIDE DEF f
<1>9. Types'
  <2>1. loop' \in Loop
    BY <1>3, <1>5 DEF Loop
  <2> QED
    BY <1>1, <1>6, <1>8, <2>1 DEF Inv, Types
<1>10. Made'
  <2>1. f <= watches'
    BY <1>1
  <2>2. /\ \A a \in Addresses : heap[a] \in Flags \cup {None}
        /\ \A v \in Watchers : watcher[v].cancel_flag_ \in Flags \cup {None}
        /\ flag_ \cup stopped \cup called \cup queued \subseteq Flags
    BY MembersType DEF Inv, Types, Watch
  <2> QED
    BY <1>1, <1>5, <1>8, <2>1, <2>2 DEF Inv, Made
<1>11. Locks'
  BY <1>6 DEF Inv, Locks
<1>12. Lists'
  BY <1>6, <1>7 DEF Inv, Lists
<1>13. Owners'
  <2>1. \A v, u \in Watchers :
          watcher'[v].cancel_flag_ # None /\ watcher'[v].cancel_flag_ = watcher'[u].cancel_flag_ => v = u
    BY <1>1, <1>8 DEF Inv, Owners
  <2>2. \A v \in Watchers, a \in Addresses :
          heap[a] # None /\ watcher'[v].cancel_flag_ = heap[a] =>
            /\ watcher'[v].waiter_ = a
            /\ watcher'[v].kernel_ \in Events /\ a \in members[watcher'[v].kernel_]
    BY <1>1, <1>8 DEF Inv, Owners
  <2>3. \A a \in Addresses : heap[a] # None /\ a \notin doomed =>
          \E v \in Watchers : watcher'[v].cancel_flag_ = heap[a] /\ watcher'[v].observing
    BY <1>8, FinishedWatch DEF Inv, Owners
  <2>4. loop'.observers = {v \in Watchers : watcher'[v].observing}
    BY <1>4, <1>8 DEF Inv, Owners
  <2> QED
    BY <1>4, <1>7, <2>1, <2>2, <2>3, <2>4 DEF Owners
<1>14. Ended'
  BY <1>1, <1>4, <1>5, <1>7 DEF Inv, Ended
<1>15. Armed'
  <2> SUFFICES ASSUME NEW v \in Watchers, v # w, ~Finished(v)'
               PROVE  \/ watcher'[v].cancel_flag_ \in queued'
                      \/ \E a \in Addresses : heap'[a] = watcher'[v].cancel_flag_
    BY <1>5, <1>8 DEF Armed
  <2>1. ~Finished(v)
    BY <1>8 DEF Finished
  <2> QED
    BY <1>5, <1>8, <2>1 DEF Inv, Armed
<1> QED
  BY <1>9, <1>10, <1>11, <1>12, <1>13, <1>14, <1>15 DEF Inv
\* StartWatching on an event that is not signaled: a waiter enters its list.
LEMMA StartEnqueueInv ==
  ASSUME Inv, NEW w \in Watchers, NEW e \in Events, NEW a \in Addresses, StartEnqueue(w, e, a)
  PROVE  Inv'
<1> DEFINE f == watches + 1
<1> /\ loop.state = "alive" /\ Finished(w) /\ watches < MaxWatches /\ watches' = f
    /\ ~kernel[e].lock_ /\ ~kernel[e].signaled_ /\ heap[a] = None
    /\ UNCHANGED <<deleted, flag_, signaler, signals, stopped, called>>
  BY DEF StartEnqueue
<1>1. /\ f \in Flags /\ f \in 0 .. MaxWatches /\ f # None
      /\ f \notin flag_ \cup stopped \cup called \cup queued
      /\ \A b \in Addresses : heap[b] # f
      /\ \A v \in Watchers : watcher[v].cancel_flag_ # f
      /\ \A g \in Flags : g <= watches => g <= watches'
  BY NewFlag, MadeMore
<1>2. PICK list \in Seq(Addresses) : list = kernel[e].waiters_ /\ IsInjective(list) /\ members[e] = Range(list)
  BY MembersType DEF Inv, Lists
<1>3. a \notin Range(list)
  BY <1>2 DEF Inv, Lists
<1>4. PICK longer \in Seq(Addresses) : /\ longer = Append(list, a) /\ longer # <<>> /\ IsInjective(longer)
                                       /\ Range(longer) = members[e] \cup {a}
  BY <1>2, <1>3, AppendList
<1>5. /\ kernel \in [Events -> Kernel] /\ watcher \in [Watchers -> Watch] /\ loop \in Loop
      /\ heap \in [Addresses -> Flags \cup {None}]
      /\ heap' = [heap EXCEPT ![a] = f]
      /\ kernel' = [kernel EXCEPT ![e].waiters_ = longer]
      /\ watcher' = [watcher EXCEPT ![w] =
           [cancel_flag_ |-> f, waiter_ |-> a, kernel_ |-> e, observing |-> TRUE]]
      /\ loop' = [loop EXCEPT !.observers = @ \cup {w}]
  BY <1>2, <1>4 DEF Inv, Types, StartEnqueue
<1>6. /\ kernel' \in [Events -> Kernel] /\ \A d \in Events : d # e => kernel'[d] = kernel[d]
      /\ kernel'[e].lock_ = kernel[e].lock_ /\ kernel'[e].signaled_ = kernel[e].signaled_
      /\ kernel'[e].waiters_ = longer
  BY <1>5 DEF Kernel
<1>7. /\ heap' \in [Addresses -> Flags \cup {None}] /\ heap'[a] = f
      /\ \A b \in Addresses : b # a => heap'[b] = heap[b]
  BY <1>1, <1>5
<1>8. /\ watcher' \in [Watchers -> Watch] /\ watcher'[w].cancel_flag_ = f /\ watcher'[w].observing
      /\ watcher'[w].waiter_ = a /\ watcher'[w].kernel_ = e
      /\ \A v \in Watchers : v # w => watcher'[v] = watcher[v]
  BY <1>1, <1>5 DEF Watch
<1>9. /\ loop' \in Loop /\ loop'.queue = loop.queue /\ loop'.state = "alive"
      /\ loop'.observers = loop.observers \cup {w} /\ queued' = queued
  BY <1>5 DEF Loop, queued
<1> HIDE DEF f
<1>10. members'[e] = members[e] \cup {a} /\ \A d \in Events : d # e => members'[d] = members[d]
  <2>1. members'[e] = Range(longer) /\ \A d \in Events : d # e => members'[d] = members[d]
    BY <1>6 DEF members
  <2> QED
    BY <1>4, <2>1
<1>11. doomed' = doomed /\ a \notin doomed
  <2>1. CASE signaler.pc # "delete"
    BY <2>1 DEF doomed
  <2>2. CASE signaler.pc = "delete"
    <3>1. PICK d \in Events, b \in Addresses :
            /\ signaler.event = d /\ kernel[d].lock_ /\ Head(kernel[d].waiters_) = b /\ heap[b] \in Flags
      BY <2>2, FiringState
    <3>2. d # e /\ b # a
      BY <3>1, FlagsNotNone DEF Inv
    <3> QED
      BY <1>6, <3>1, <3>2 DEF doomed
  <2> QED
    BY <2>1, <2>2
<1>12. Types'
  BY <1>1, <1>6, <1>7, <1>8, <1>9 DEF Inv, Types
<1>13. Made'
  <2>1. f <= watches'
    BY <1>1
  <2>2. /\ \A b \in Addresses : heap[b] \in Flags \cup {None}
        /\ \A v \in Watchers : watcher[v].cancel_flag_ \in Flags \cup {None}
        /\ flag_ \cup stopped \cup called \cup queued \subseteq Flags
    BY MembersType DEF Inv, Types, Watch
  <2>3. \A b \in Addresses : heap'[b] # None => heap'[b] <= watches'
    BY <1>1, <1>7, <2>1, <2>2 DEF Inv, Made
  <2>4. \A v \in Watchers : watcher'[v].cancel_flag_ # None => watcher'[v].cancel_flag_ <= watches'
    BY <1>1, <1>8, <2>1, <2>2 DEF Inv, Made
  <2>5. \A g \in flag_ \cup stopped \cup called \cup queued : g <= watches'
    BY <1>1, <2>2 DEF Inv, Made
  <2> QED
    BY <1>9, <2>3, <2>4, <2>5 DEF Made
<1>14. Locks'
  BY <1>4, <1>6 DEF Inv, Locks
<1>15. Lists'
  <2>1. \A d \in Events : IsInjective(kernel'[d].waiters_)
    BY <1>4, <1>6 DEF Inv, Lists
  <2>2. \A d \in Events : a \notin members[d]
    BY DEF Inv, Lists
  <2>3. \A c, d \in Events : \A b \in members'[c] \cap members'[d] : c = d
    <3> SUFFICES ASSUME NEW c \in Events, NEW d \in Events, NEW b, b \in members'[c], b \in members'[d]
                 PROVE  c = d
      OBVIOUS
    <3>1. CASE b = a
      BY <1>10, <2>2, <3>1
    <3>2. CASE b # a
      <4>1. b \in members[c] /\ b \in members[d]
        BY <1>10, <3>2
      <4> QED
        BY <4>1 DEF Inv, Lists
    <3> QED
      BY <3>1, <3>2
  <2>4. \A b \in Addresses : heap'[b] # None <=> \E d \in Events : b \in members'[d]
    <3> TAKE b \in Addresses
    <3>1. CASE b = a
      BY <1>1, <1>7, <1>10, <3>1
    <3>2. CASE b # a
      <4>1. \A d \in Events : b \in members'[d] <=> b \in members[d]
        BY <1>10, <3>2
      <4> QED
        BY <1>7, <3>2, <4>1 DEF Inv, Lists
    <3> QED
      BY <3>1, <3>2
  <2>5. \A b, c \in Addresses : heap'[b] # None /\ heap'[b] = heap'[c] => b = c
    BY <1>1, <1>7 DEF Inv, Lists
  <2> QED
    BY <2>1, <2>3, <2>4, <2>5 DEF Lists
<1>16. Owners'
  <2>1. \A v, u \in Watchers :
          watcher'[v].cancel_flag_ # None /\ watcher'[v].cancel_flag_ = watcher'[u].cancel_flag_ => v = u
    BY <1>1, <1>8 DEF Inv, Owners
  <2>2. \A v \in Watchers, b \in Addresses :
          heap'[b] # None /\ watcher'[v].cancel_flag_ = heap'[b] =>
            /\ watcher'[v].waiter_ = b
            /\ watcher'[v].kernel_ \in Events /\ b \in members'[watcher'[v].kernel_]
    <3> SUFFICES ASSUME NEW v \in Watchers, NEW b \in Addresses, heap'[b] # None,
                        watcher'[v].cancel_flag_ = heap'[b]
                 PROVE  /\ watcher'[v].waiter_ = b
                        /\ watcher'[v].kernel_ \in Events /\ b \in members'[watcher'[v].kernel_]
      OBVIOUS
    <3>1. CASE v = w
      BY <1>1, <1>7, <1>8, <1>10, <3>1
    <3>2. CASE v # w
      <4>1. b # a /\ watcher[v].cancel_flag_ = heap[b] /\ heap[b] # None
        BY <1>1, <1>7, <1>8, <3>2
      <4>2. PICK k \in Events : k = watcher[v].kernel_ /\ b \in members[k] /\ watcher[v].waiter_ = b
        BY <4>1 DEF Inv, Owners
      <4>3. b \in members'[k]
        BY <1>10, <4>2
      <4> QED
        BY <1>8, <3>2, <4>2, <4>3
    <3> QED
      BY <3>1, <3>2
  <2>3. \A b \in Addresses : heap'[b] # None /\ b \notin doomed =>
          \E v \in Watchers : watcher'[v].cancel_flag_ = heap'[b] /\ watcher'[v].observing
    <3> SUFFICES ASSUME NEW b \in Addresses, b # a, heap'[b] # None, b \notin doomed
                 PROVE  \E v \in Watchers : watcher'[v].cancel_flag_ = heap'[b] /\ watcher'[v].observing
      BY <1>7, <1>8
    <3>1. heap'[b] = heap[b]
      BY <1>7
    <3>2. PICK v \in Watchers : watcher[v].cancel_flag_ = heap[b] /\ watcher[v].observing
      BY <3>1 DEF Inv, Owners
    <3>3. v # w
      BY <3>1, <3>2, FinishedWatch
    <3> QED
      BY <1>8, <3>1, <3>2, <3>3
  <2>4. loop'.observers = {v \in Watchers : watcher'[v].observing}
    BY <1>8, <1>9 DEF Inv, Owners
  <2> QED
    BY <1>9, <1>11, <2>1, <2>2, <2>3, <2>4 DEF Owners
<1>17. Ended'
  <2>1. \A b \in Addresses : heap'[b] \in flag_ \cup stopped \cup queued => b \in doomed
    BY <1>1, <1>7 DEF Inv, Ended
  <2>2. \A b \in doomed : b \in Addresses /\ heap'[b] = heap[b]
    <3>1. doomed \subseteq Addresses
      BY FiringState DEF doomed
    <3> QED
      BY <1>7, <1>11, <3>1
  <2>3. \A b \in doomed : heap'[b] \in flag_ \cup queued
    BY <2>2 DEF Inv, Ended
  <2> QED
    BY <1>9, <1>11, <2>1, <2>3 DEF Inv, Ended
<1>18. Armed'
  <2> SUFFICES ASSUME NEW v \in Watchers, v # w, ~Finished(v)'
               PROVE  \/ watcher'[v].cancel_flag_ \in queued'
                      \/ \E b \in Addresses : heap'[b] = watcher'[v].cancel_flag_
    BY <1>7, <1>8 DEF Armed
  <2>1. ~Finished(v)
    BY <1>8 DEF Finished
  <2>2. watcher[v].cancel_flag_ # None
    BY <2>1 DEF Finished
  <2>3. \A b \in Addresses : heap[b] # None => heap'[b] = heap[b]
    BY <1>7
  <2> QED
    BY <1>8, <1>9, <2>1, <2>2, <2>3 DEF Inv, Armed
<1> QED
  BY <1>12, <1>13, <1>14, <1>15, <1>16, <1>17, <1>18 DEF Inv
\* What UserStop, DestroyWatcher and WillDestroyCurrentMessageLoop have in common.
Stops(w) ==
  /\ StopCompleted(w) \/ StopPosted(w) \/ StopDequeue(w) \/ StopFired(w)
  /\ \E r \in Watch : r.cancel_flag_ = None /\ ~r.observing /\ watcher' = [watcher EXCEPT ![w] = r]
  /\ loop' = [loop EXCEPT !.observers = @ \ {w}]
  /\ stopped' = stopped \cup ({watcher[w].cancel_flag_} \ {None})
  /\ UNCHANGED <<deleted, signaler, watches, signals, called>>

\* All three stop the watch.
LEMMA StopKinds ==
  ASSUME Inv, NEW w \in Watchers,
         UserStop(w) \/ DestroyWatcher(w) \/ WillDestroyCurrentMessageLoop(w)
  PROVE  Stops(w)
<1>1. watcher \in [Watchers -> Watch]
  BY DEF Inv, Types
<1>2. CASE UserStop(w) \/ WillDestroyCurrentMessageLoop(w)
  <2>1. StopWatching(w) /\ UNCHANGED <<deleted, signaler, watches, signals, called>>
    BY <1>2 DEF UserStop, WillDestroyCurrentMessageLoop
  <2>2. watcher' = [watcher EXCEPT ![w].cancel_flag_ = None, ![w].observing = FALSE]
    BY <2>1 DEF StopWatching
  <2>3. PICK r \in Watch : r = [watcher[w] EXCEPT !.cancel_flag_ = None, !.observing = FALSE]
    BY <1>1 DEF Watch
  <2>4. r.cancel_flag_ = None /\ ~r.observing
    BY <1>1, <2>3 DEF Watch
  <2>5. watcher' = [watcher EXCEPT ![w] = r]
    BY <1>1, <2>2, <2>3
  <2> QED
    BY <2>1, <2>4, <2>5 DEF Stops, StopWatching
<1>3. CASE DestroyWatcher(w)
  <2>1. NoWatch \in Watch /\ NoWatch.cancel_flag_ = None /\ ~NoWatch.observing
    BY DEF NoWatch, Watch
  <2> QED
    BY <1>3, <2>1 DEF Stops, DestroyWatcher
<1> QED
  BY <1>2, <1>3

\* A stop does to the waiters and flags one of two things: it takes its waiter off a
\* list nobody walks, or it leaves them, having no waiter to take, and sets its flag.
LEMMA StopEffect ==
  ASSUME Inv, NEW w \in Watchers, Stops(w)
  PROVE  \/ /\ kernel' = kernel /\ heap' = heap
            /\ flag_' = flag_ \cup ({watcher[w].cancel_flag_} \ {None})
            /\ \A a \in Addresses : heap[a] # None /\ heap[a] = watcher[w].cancel_flag_ => a \in doomed
         \/ /\ watcher[w].cancel_flag_ \notin flag_ \cup {None} /\ flag_' = flag_
            /\ \E k \in Events, a \in Addresses :
                 /\ ~kernel[k].lock_ /\ a \in members[k] /\ heap[a] = watcher[w].cancel_flag_
                 /\ kernel' = [kernel EXCEPT ![k].waiters_ = RemoveFirst(@, a)]
                 /\ heap' = [heap EXCEPT ![a] = None]
<1>1. watcher[w] \in Watch
  BY DEF Inv, Types
<1>2. CASE StopCompleted(w)
  <2>1. Finished(w) /\ UNCHANGED <<kernel, heap, flag_>>
    BY <1>2 DEF StopCompleted
  <2>2. \A a \in Addresses : heap[a] # None /\ heap[a] = watcher[w].cancel_flag_ => a \in doomed
    BY <2>1, FinishedWatch
  <2> QED
    BY <2>1, <2>2 DEF Finished
<1>3. CASE StopPosted(w)
  <2>1. /\ watcher[w].kernel_ = None /\ UNCHANGED <<kernel, heap>>
        /\ watcher[w].cancel_flag_ # None /\ flag_' = flag_ \cup {watcher[w].cancel_flag_}
    BY <1>3 DEF StopPosted, Finished
  <2>2. \A a \in Addresses : ~(heap[a] # None /\ heap[a] = watcher[w].cancel_flag_)
    BY <2>1, ConstantsAssumption DEF Inv, Owners
  <2> QED
    BY <2>1, <2>2
<1>4. CASE StopFired(w)
  <2>1. /\ ~Matches(w) /\ UNCHANGED <<kernel, heap>>
        /\ watcher[w].cancel_flag_ # None /\ flag_' = flag_ \cup {watcher[w].cancel_flag_}
    BY <1>4 DEF StopFired, Finished
  <2>2. ASSUME NEW a \in Addresses, heap[a] # None, heap[a] = watcher[w].cancel_flag_
        PROVE  FALSE
    <3>1. PICK k \in Events : k = watcher[w].kernel_ /\ a \in members[k] /\ watcher[w].waiter_ = a
      BY <2>2 DEF Inv, Owners
    <3>2. a \in Range(kernel[k].waiters_)
      BY <3>1 DEF members
    <3> QED
      BY <2>1, <2>2, <3>1, <3>2 DEF Matches
  <2> QED
    BY <2>1, <2>2
<1>5. CASE StopDequeue(w)
  <2>0. PICK a : a = watcher[w].waiter_
    OBVIOUS
  <2>1. PICK k \in Events : k = watcher[w].kernel_ /\ a = watcher[w].waiter_
    BY <1>1, <1>5, <2>0 DEF StopDequeue, Watch
  <2>2. /\ ~kernel[k].lock_ /\ a \in Range(kernel[k].waiters_) /\ heap[a] = watcher[w].cancel_flag_
        /\ kernel' = [kernel EXCEPT ![k].waiters_ = RemoveFirst(@, a)]
        /\ heap' = [heap EXCEPT ![a] = None]
        /\ flag_' = flag_ /\ watcher[w].cancel_flag_ \notin flag_ \cup {None}
    BY <1>5, <2>1 DEF StopDequeue, Matches, Finished
  <2>3. a \in members[k] /\ a \in Addresses
    BY <2>2, MembersType DEF Inv
  <2> QED
    BY <2>2, <2>3
<1> QED
  BY <1>2, <1>3, <1>4, <1>5 DEF Stops

\* The watcher's fields, the observers and the history after a stop.
LEMMA StopFields ==
  ASSUME Inv, NEW w \in Watchers, Stops(w)
  PROVE  /\ watcher' \in [Watchers -> Watch]
         /\ watcher'[w].cancel_flag_ = None /\ ~watcher'[w].observing
         /\ \A v \in Watchers : v # w => watcher'[v] = watcher[v]
         /\ loop' \in Loop /\ loop'.observers = loop.observers \ {w}
         /\ loop'.state = loop.state /\ queued' = queued
         /\ stopped' = stopped \cup ({watcher[w].cancel_flag_} \ {None}) /\ stopped' \subseteq Flags
         /\ loop'.observers = {v \in Watchers : watcher'[v].observing}
         /\ (loop'.state = "gone" => loop'.observers = {})
         /\ \A v, u \in Watchers :
              watcher'[v].cancel_flag_ # None /\ watcher'[v].cancel_flag_ = watcher'[u].cancel_flag_ => v = u
<1>1. watcher \in [Watchers -> Watch] /\ loop \in Loop /\ stopped \subseteq Flags
  BY DEF Inv, Types
<1>2. PICK r \in Watch : r.cancel_flag_ = None /\ ~r.observing /\ watcher' = [watcher EXCEPT ![w] = r]
  BY DEF Stops
<1>3. /\ watcher' \in [Watchers -> Watch] /\ watcher'[w] = r
      /\ \A v \in Watchers : v # w => watcher'[v] = watcher[v]
  BY <1>1, <1>2
<1>4. /\ loop' \in Loop /\ loop'.observers = loop.observers \ {w}
      /\ loop'.state = loop.state /\ loop'.queue = loop.queue
  BY <1>1 DEF Stops, Loop
<1>5. queued' = queued
  BY <1>4 DEF queued
<1>6. stopped' = stopped \cup ({watcher[w].cancel_flag_} \ {None}) /\ stopped' \subseteq Flags
  BY <1>1 DEF Stops, Watch
<1>7. /\ loop'.observers = {v \in Watchers : watcher'[v].observing}
      /\ loop'.state = "gone" => loop'.observers = {}
  BY <1>2, <1>3, <1>4 DEF Inv, Owners
<1>8. \A v, u \in Watchers :
        watcher'[v].cancel_flag_ # None /\ watcher'[v].cancel_flag_ = watcher'[u].cancel_flag_ => v = u
  BY <1>2, <1>3 DEF Inv, Owners
<1> QED
  BY <1>2, <1>3, <1>4, <1>5, <1>6, <1>7, <1>8
\* A stop that leaves the waiters.
LEMMA StopKeeps ==
  ASSUME Inv, NEW w \in Watchers, Stops(w), kernel' = kernel, heap' = heap,
         flag_' = flag_ \cup ({watcher[w].cancel_flag_} \ {None}),
         \A a \in Addresses : heap[a] # None /\ heap[a] = watcher[w].cancel_flag_ => a \in doomed
  PROVE  Inv'
<1> DEFINE f == watcher[w].cancel_flag_
<1> UNCHANGED <<deleted, signaler, watches, signals, called>>
  BY DEF Stops
<1>1. /\ watcher' \in [Watchers -> Watch]
      /\ watcher'[w].cancel_flag_ = None /\ ~watcher'[w].observing
      /\ \A v \in Watchers : v # w => watcher'[v] = watcher[v]
      /\ loop' \in Loop /\ loop'.state = loop.state /\ queued' = queued
      /\ stopped' = stopped \cup ({f} \ {None}) /\ stopped' \subseteq Flags
      /\ loop'.observers = {v \in Watchers : watcher'[v].observing}
      /\ (loop'.state = "gone" => loop'.observers = {})
      /\ \A v, u \in Watchers :
           watcher'[v].cancel_flag_ # None /\ watcher'[v].cancel_flag_ = watcher'[u].cancel_flag_ => v = u
  BY StopFields
<1>2. f \in Flags \cup {None} /\ (f # None => f <= watches)
  BY DEF Inv, Types, Watch, Made
<1>3. members' = members /\ doomed' = doomed
  BY DEF members, doomed
<1>4. Types'
  BY <1>1, <1>2 DEF Inv, Types
<1>5. Made'
  BY <1>1, <1>2 DEF Inv, Made
<1>6. Locks' /\ Lists'
  BY <1>3 DEF Inv, Locks, Lists
<1>7. Owners'
  <2>1. \A v \in Watchers, a \in Addresses :
          heap[a] # None /\ watcher'[v].cancel_flag_ = heap[a] =>
            /\ watcher'[v].waiter_ = a
            /\ watcher'[v].kernel_ \in Events /\ a \in members[watcher'[v].kernel_]
    BY <1>1 DEF Inv, Owners
  <2>2. \A a \in Addresses : heap[a] # None /\ a \notin doomed =>
          \E v \in Watchers : watcher'[v].cancel_flag_ = heap[a] /\ watcher'[v].observing
    BY <1>1 DEF Inv, Owners
  <2> QED
    BY <1>1, <1>3, <2>1, <2>2 DEF Owners
<1>8. Ended'
  BY <1>1, <1>3 DEF Inv, Ended
<1>9. Armed'
  <2> SUFFICES ASSUME NEW v \in Watchers, loop.state = "alive", v # w, ~Finished(v)'
               PROVE  \/ watcher'[v].cancel_flag_ \in queued'
                      \/ \E a \in Addresses : heap'[a] = watcher'[v].cancel_flag_
    BY <1>1 DEF Armed, Finished
  <2>1. ~Finished(v)
    BY <1>1 DEF Finished
  <2> QED
    BY <1>1, <2>1 DEF Inv, Armed
<1> QED
  BY <1>4, <1>5, <1>6, <1>7, <1>8, <1>9 DEF Inv

\* A stop that takes its waiter off the list.
LEMMA StopTakes ==
  ASSUME Inv, NEW w \in Watchers, Stops(w), NEW k \in Events, NEW a \in Addresses,
         watcher[w].cancel_flag_ \notin flag_ \cup {None}, flag_' = flag_,
         ~kernel[k].lock_, a \in members[k], heap[a] = watcher[w].cancel_flag_,
         kernel' = [kernel EXCEPT ![k].waiters_ = RemoveFirst(@, a)],
         heap' = [heap EXCEPT ![a] = None]
  PROVE  Inv'
<1> DEFINE f == watcher[w].cancel_flag_
<1> UNCHANGED <<deleted, signaler, watches, signals, called>>
  BY DEF Stops
<1>1. /\ watcher' \in [Watchers -> Watch]
      /\ watcher'[w].cancel_flag_ = None /\ ~watcher'[w].observing
      /\ \A v \in Watchers : v # w => watcher'[v] = watcher[v]
      /\ loop' \in Loop /\ loop'.state = loop.state /\ queued' = queued
      /\ stopped' = stopped \cup {f} /\ stopped' \subseteq Flags
      /\ loop'.observers = {v \in Watchers : watcher'[v].observing}
      /\ (loop'.state = "gone" => loop'.observers = {})
      /\ \A v, u \in Watchers :
           watcher'[v].cancel_flag_ # None /\ watcher'[v].cancel_flag_ = watcher'[u].cancel_flag_ => v = u
  BY StopFields
<1>2. f \in Flags /\ f <= watches
  BY DEF Inv, Types, Watch, Made
<1>3. PICK list \in Seq(Addresses) : list = kernel[k].waiters_ /\ IsInjective(list) /\ members[k] = Range(list)
  BY MembersType DEF Inv, Lists
<1>4. PICK rest \in Seq(Addresses) : /\ rest = RemoveFirst(list, a) /\ IsInjective(rest)
                                     /\ Range(rest) = members[k] \ {a}
  BY <1>3, RemoveList
<1>5. kernel \in [Events -> Kernel] /\ heap \in [Addresses -> Flags \cup {None}]
  BY DEF Inv, Types
<1>6. /\ kernel' \in [Events -> Kernel] /\ \A d \in Events : d # k => kernel'[d] = kernel[d]
      /\ kernel'[k].lock_ = kernel[k].lock_ /\ kernel'[k].signaled_ = kernel[k].signaled_
      /\ kernel'[k].waiters_ = rest
  BY <1>3, <1>4, <1>5 DEF Kernel
<1>7. /\ heap' \in [Addresses -> Flags \cup {None}] /\ heap'[a] = None
      /\ \A b \in Addresses : b # a => heap'[b] = heap[b]
  BY <1>5
<1>8. members'[k] = members[k] \ {a} /\ \A d \in Events : d # k => members'[d] = members[d]
  <2>1. members'[k] = Range(rest) /\ \A d \in Events : d # k => members'[d] = members[d]
    BY <1>6 DEF members
  <2> QED
    BY <1>4, <2>1
<1>9. doomed' = doomed /\ a \notin doomed /\ doomed \subseteq Addresses
  <2>1. CASE signaler.pc # "delete"
    BY <2>1 DEF doomed
  <2>2. CASE signaler.pc = "delete"
    <3>1. PICK d \in Events, b \in Addresses :
            /\ signaler.event = d /\ kernel[d].lock_ /\ Head(kernel[d].waiters_) = b /\ b \in members[d]
      BY <2>2, FiringState
    <3>2. d # k
      BY <3>1
    <3>3. b # a
      BY <3>1, <3>2 DEF Inv, Lists
    <3> QED
      BY <1>6, <3>1, <3>2, <3>3 DEF doomed
  <2> QED
    BY <2>1, <2>2
<1>10. f \notin queued
  BY <1>9 DEF Inv, Ended
<1>11. Types'
  BY <1>1, <1>6, <1>7 DEF Inv, Types
<1>12. Made'
  <2>1. \A b \in Addresses : heap'[b] # None => heap'[b] <= watches
    BY <1>7 DEF Inv, Made
  <2> QED
    BY <1>1, <1>2, <2>1 DEF Inv, Made
<1>13. Locks'
  <2>1. kernel[k].waiters_ # <<>>
    BY <1>3 DEF Range
  <2>2. ~kernel[k].signaled_
    BY <2>1 DEF Inv, Locks
  <2> QED
    BY <1>6, <2>2 DEF Inv, Locks
<1>14. Lists'
  <2>1. \A d \in Events : IsInjective(kernel'[d].waiters_)
    BY <1>4, <1>6 DEF Inv, Lists
  <2>2. \A d \in Events : a \notin members'[d]
    BY <1>8 DEF Inv, Lists
  <2>3. \A b \in Addresses, d \in Events : b # a => (b \in members'[d] <=> b \in members[d])
    BY <1>8
  <2>4. \A c, d \in Events : \A b \in members'[c] \cap members'[d] : c = d
    <3>1. \A c \in Events : members'[c] \subseteq members[c]
      BY <1>8
    <3> QED
      BY <3>1 DEF Inv, Lists
  <2>5. \A b \in Addresses : heap'[b] # None <=> \E d \in Events : b \in members'[d]
    BY <1>7, <2>2, <2>3 DEF Inv, Lists
  <2>6. \A b, c \in Addresses : heap'[b] # None /\ heap'[b] = heap'[c] => b = c
    BY <1>7 DEF Inv, Lists
  <2> QED
    BY <2>1, <2>4, <2>5, <2>6 DEF Lists
<1>15. Owners'
  <2>1. \A v \in Watchers, b \in Addresses :
          heap'[b] # None /\ watcher'[v].cancel_flag_ = heap'[b] =>
            /\ watcher'[v].waiter_ = b
            /\ watcher'[v].kernel_ \in Events /\ b \in members'[watcher'[v].kernel_]
    <3> SUFFICES ASSUME NEW v \in Watchers, NEW b \in Addresses, heap'[b] # None,
                        watcher'[v].cancel_flag_ = heap'[b]
                 PROVE  /\ watcher'[v].waiter_ = b
                        /\ watcher'[v].kernel_ \in Events /\ b \in members'[watcher'[v].kernel_]
      OBVIOUS
    <3>1. b # a /\ heap'[b] = heap[b] /\ v # w /\ watcher'[v] = watcher[v]
      BY <1>1, <1>7
    <3>2. PICK d \in Events : d = watcher[v].kernel_ /\ b \in members[d] /\ watcher[v].waiter_ = b
      BY <3>1 DEF Inv, Owners
    <3>3. b \in members'[d]
      BY <1>8, <3>1, <3>2
    <3> QED
      BY <3>1, <3>2, <3>3
  <2>2. \A b \in Addresses : heap'[b] # None /\ b \notin doomed =>
          \E v \in Watchers : watcher'[v].cancel_flag_ = heap'[b] /\ watcher'[v].observing
    <3> SUFFICES ASSUME NEW b \in Addresses, heap'[b] # None, b \notin doomed
                 PROVE  \E v \in Watchers : watcher'[v].cancel_flag_ = heap'[b] /\ watcher'[v].observing
      OBVIOUS
    <3>1. b # a /\ heap'[b] = heap[b]
      BY <1>7
    <3>2. PICK v \in Watchers : watcher[v].cancel_flag_ = heap[b] /\ watcher[v].observing
      BY <3>1 DEF Inv, Owners
    <3>3. heap[b] # f
      BY <3>1 DEF Inv, Lists
    <3> QED
      BY <1>1, <3>1, <3>2, <3>3
  <2> QED
    BY <1>1, <1>9, <2>1, <2>2 DEF Owners
<1>16. Ended'
  <2>1. \A b \in Addresses : heap'[b] \in flag_ \cup stopped' \cup queued => b \in doomed
    <3>1. None \notin flag_ \cup stopped' \cup queued
      BY <1>1, FlagsNotNone DEF Inv
    <3>2. \A b \in Addresses : b # a => heap[b] # f
      BY DEF Inv, Lists
    <3> QED
      BY <1>1, <1>7, <3>1, <3>2 DEF Inv, Ended
  <2>2. \A b \in doomed : loop.state = "alive" => heap'[b] \in flag_ \cup queued
    BY <1>7, <1>9 DEF Inv, Ended
  <2>3. \A g \in stopped' \cap queued : g \in flag_
    BY <1>1, <1>10 DEF Inv, Ended
  <2> QED
    BY <1>1, <1>9, <2>1, <2>2, <2>3 DEF Ended
<1>17. Armed'
  <2> SUFFICES ASSUME NEW v \in Watchers, loop.state = "alive", v # w, ~Finished(v)'
               PROVE  \/ watcher'[v].cancel_flag_ \in queued'
                      \/ \E b \in Addresses : heap'[b] = watcher'[v].cancel_flag_
    BY <1>1 DEF Armed, Finished
  <2>1. ~Finished(v)
    BY <1>1 DEF Finished
  <2>2. watcher[v].cancel_flag_ # f
    BY DEF Inv, Owners
  <2> QED
    BY <1>1, <1>7, <2>1, <2>2 DEF Inv, Armed
<1> QED
  BY <1>11, <1>12, <1>13, <1>14, <1>15, <1>16, <1>17 DEF Inv

\* StopWatching, whoever calls it.
LEMMA StopInv ==
  ASSUME Inv, NEW w \in Watchers,
         UserStop(w) \/ DestroyWatcher(w) \/ WillDestroyCurrentMessageLoop(w)
  PROVE  Inv'
<1>1. Stops(w)
  BY StopKinds
<1> QED
  BY <1>1, StopEffect, StopKeeps, StopTakes
\* The callback of a posted watch: sets its flag.
LEMMA AsyncCallbackInv ==
  ASSUME Inv, AsyncCallbackHelper
  PROVE  Inv'
<1> /\ loop.state = "alive" /\ loop.queue # <<>>
    /\ UNCHANGED <<kernel, deleted, heap, watcher, signaler, watches, signals, stopped>>
  BY DEF AsyncCallbackHelper
<1>1. PICK f : f = Head(loop.queue).flag
  OBVIOUS
<1>2. /\ loop \in Loop /\ loop' = [loop EXCEPT !.queue = Tail(@)]
      /\ flag_' = flag_ \cup {f} /\ called' \subseteq called \cup {f}
  BY <1>1 DEF Inv, Types, AsyncCallbackHelper
<1>3. loop'.queue = Tail(loop.queue) /\ loop'.state = "alive" /\ loop'.observers = loop.observers
  BY <1>2 DEF Loop
<1>4. /\ Tail(loop.queue) \in Seq(Task) /\ f \in Flags /\ f \in queued
      /\ queued' \subseteq queued /\ queued \subseteq queued' \cup {f}
  <2>1. /\ Tail(loop.queue) \in Seq(Task) /\ Head(loop.queue) \in Task /\ Head(loop.queue).flag \in queued
        /\ queued' \subseteq queued /\ queued \subseteq queued' \cup {Head(loop.queue).flag}
    BY <1>3, QueueTake DEF Inv
  <2> QED
    BY <1>1, <2>1 DEF Task
<1>5. members' = members /\ doomed' = doomed
  BY DEF members, doomed
<1>6. Types'
  <2>1. loop' \in Loop
    BY <1>2, <1>4 DEF Loop
  <2> QED
    BY <1>2, <1>4, <2>1 DEF Inv, Types
<1>7. Made'
  BY <1>2, <1>4 DEF Inv, Made
<1>8. Locks' /\ Lists'
  BY <1>5 DEF Inv, Locks, Lists
<1>9. Owners'
  BY <1>3, <1>5 DEF Inv, Owners
<1>10. Ended'
  BY <1>2, <1>3, <1>4, <1>5 DEF Inv, Ended
<1>11. Armed'
  BY <1>2, <1>3, <1>4 DEF Inv, Armed, Finished
<1> QED
  BY <1>6, <1>7, <1>8, <1>9, <1>10, <1>11 DEF Inv

\* The loop's end.
LEMMA LoopEndInv ==
  ASSUME Inv, DestroyLoop \/ LoopGone
  PROVE  Inv'
<1> UNCHANGED <<kernel, deleted, heap, flag_, watcher, signaler, watches, signals, stopped, called>>
  BY DEF DestroyLoop, LoopGone
<1>1. loop \in Loop
  BY DEF Inv, Types
<1>2. /\ loop' \in Loop /\ loop'.queue = <<>> /\ loop'.state # "alive"
      /\ loop'.observers = loop.observers
      /\ (loop'.state = "gone" => loop.observers = {})
  <2> DEFINE none == <<>>
  <2>0. none \in Seq(Task)
    OBVIOUS
  <2> HIDE DEF none
  <2>1. CASE DestroyLoop
    <3>1. loop' = [loop EXCEPT !.state = "destroying", !.queue = none]
      BY <2>1 DEF DestroyLoop, none
    <3>2. /\ loop' \in Loop /\ loop'.queue = none /\ loop'.state = "destroying"
          /\ loop'.observers = loop.observers
      BY <1>1, <2>0, <3>1 DEF Loop
    <3> QED
      BY <3>2 DEF none
  <2>2. CASE LoopGone
    <3>1. loop' = [loop EXCEPT !.state = "gone", !.queue = none] /\ loop.observers = {}
      BY <2>2 DEF LoopGone, none
    <3>2. /\ loop' \in Loop /\ loop'.queue = none /\ loop'.state = "gone"
          /\ loop'.observers = loop.observers
      BY <1>1, <2>0, <3>1 DEF Loop
    <3> QED
      BY <3>1, <3>2 DEF none
  <2> QED
    BY <2>1, <2>2
<1>3. members' = members /\ doomed' = doomed /\ queued' = {}
  BY <1>2, QueueEmpty DEF members, doomed
<1>4. Types'
  BY <1>2 DEF Inv, Types
<1>5. Made' /\ Locks' /\ Lists'
  BY <1>3 DEF Inv, Made, Locks, Lists
<1>6. Owners'
  BY <1>2, <1>3 DEF Inv, Owners
<1>7. Ended' /\ Armed'
  BY <1>2, <1>3 DEF Inv, Ended, Armed
<1> QED
  BY <1>4, <1>5, <1>6, <1>7 DEF Inv

-----------------------------------------------------------------------------
(* The theorems *)

\* At the start there is no waiter, no watch and no callback.
LEMMA InitInv == Init => Inv
<1> SUFFICES ASSUME Init PROVE Inv
  OBVIOUS
<1> USE DEF Init
<1>1. /\ \A e \in Events : kernel[e] = [lock_ |-> FALSE, signaled_ |-> FALSE, waiters_ |-> <<>>]
      /\ \A a \in Addresses : heap[a] = None
      /\ \A w \in Watchers : watcher[w] = NoWatch
  OBVIOUS
<1>2. /\ members = [e \in Events |-> {}] /\ doomed = {} /\ queued = {}
  <2>1. Range(<<>>) = {}
    BY DEF Range
  <2>2. members = [e \in Events |-> {}]
    BY <1>1, <2>1 DEF members
  <2>3. doomed = {} /\ queued = {}
    BY DEF doomed, queued, Quiet
  <2> QED
    BY <2>2, <2>3
<1>3. Types
  <2>1. [lock_ |-> FALSE, signaled_ |-> FALSE, waiters_ |-> <<>>] \in Kernel /\ NoWatch \in Watch
    BY DEF Kernel, NoWatch, Watch
  <2>2. <<>> \in Seq(Task)
    OBVIOUS
  <2>3. loop \in Loop
    BY <2>2 DEF Loop
  <2>4. signaler \in [pc : {"idle", "Fire", "PostTask", "delete"}, event : Events \cup {None}]
    BY DEF Quiet
  <2>5. kernel \in [Events -> Kernel] /\ heap \in [Addresses -> Flags \cup {None}]
        /\ watcher \in [Watchers -> Watch]
    BY <2>1
  <2>6. watches \in 0 .. MaxWatches /\ signals \in 0 .. MaxSignals
    BY ConstantsAssumption
  <2> QED
    BY <2>3, <2>4, <2>5, <2>6 DEF Types
<1>4. Made
  BY <1>1, <1>2 DEF Made, NoWatch
<1>5. Locks
  BY <1>1, ConstantsAssumption DEF Locks, Quiet
<1>6. Lists
  BY <1>1, <1>2 DEF Lists, IsInjective
<1>7. Owners
  BY <1>1, <1>2 DEF Owners, NoWatch
<1>8. Ended
  BY <1>1, <1>2 DEF Ended
<1>9. Armed
  BY <1>1 DEF Armed, Finished, NoWatch
<1> QED
  BY <1>3, <1>4, <1>5, <1>6, <1>7, <1>8, <1>9 DEF Inv

\* Every step keeps the invariant.
LEMMA NextInv == Inv /\ [Next]_vars => Inv'
<1> SUFFICES ASSUME Inv, [Next]_vars PROVE Inv'
  OBVIOUS
<1>1. CASE Fire
  BY <1>1, FireCheckInv, FirePostInv, FireDeleteInv DEF Fire
<1>2. CASE AsyncCallbackHelper
  BY <1>2, AsyncCallbackInv
<1>3. CASE \E e \in Events : Signal(e) \/ Reset(e) \/ DeleteEvent(e)
  BY <1>3, SignalInv, ResetInv, DeleteEventInv
<1>4. CASE \E w \in Watchers, e \in Events : StartSignaled(w, e)
  BY <1>4, StartSignaledInv
<1>5. CASE \E w \in Watchers, e \in Events, a \in Addresses : StartEnqueue(w, e, a)
  BY <1>5, StartEnqueueInv
<1>6. CASE \E w \in Watchers : \/ UserStop(w) \/ DestroyWatcher(w)
                               \/ WillDestroyCurrentMessageLoop(w)
  BY <1>6, StopInv
<1>7. CASE DestroyLoop \/ LoopGone
  BY <1>7, LoopEndInv
<1>8. CASE UNCHANGED vars
  <2>1. members' = members /\ doomed' = doomed /\ queued' = queued
    BY <1>8 DEF vars, members, doomed, queued
  <2> QED
    BY <1>8, <2>1 DEF vars, Inv, Types, Made, Locks, Lists, Owners, Ended, Armed, Finished
<1> QED
  BY <1>1, <1>2, <1>3, <1>4, <1>5, <1>6, <1>7, <1>8 DEF Next
\* What the invariant says of the waiters and the loop.
LEMMA InvSound == Inv => WatchesSound
<1> SUFFICES ASSUME Inv PROVE WatchesSound
  OBVIOUS
<1>1. TypeOK
  <2>1. \A e \in Events : /\ kernel[e].lock_ \in BOOLEAN /\ kernel[e].signaled_ \in BOOLEAN
                          /\ kernel[e].waiters_ \in Seq(Addresses)
                          /\ kernel[e].lock_ <=> signaler.event = e
    BY DEF Inv, Types, Kernel, Locks
  <2>2. flag_ \cup stopped \cup called \subseteq 1 .. watches
    BY DEF Inv, Types, Made, Flags
  <2>3. /\ loop.state \in {"alive", "destroying", "gone"}
        /\ loop.observers = {w \in Watchers : watcher[w].observing}
        /\ signaler.pc \in {"idle", "Fire", "PostTask", "delete"}
    BY DEF Inv, Types, Loop, Owners
  <2> QED
    BY <2>1, <2>2, <2>3 DEF Inv, Types, TypeOK
<1>2. WatchArmed
  <2> SUFFICES ASSUME NEW w \in Watchers, loop.state = "alive", ~Finished(w)
               PROVE  \/ \E i \in 1 .. Len(loop.queue) : loop.queue[i].flag = watcher[w].cancel_flag_
                      \/ \E e \in Events : \E a \in Range(kernel[e].waiters_) :
                           heap[a] = watcher[w].cancel_flag_
    BY DEF WatchArmed
  <2>1. CASE watcher[w].cancel_flag_ \in queued
    <3>1. loop.queue \in Seq(Task)
      BY DEF Inv, Types, Loop
    <3>2. DOMAIN loop.queue = 1 .. Len(loop.queue)
      BY <3>1
    <3> QED
      BY <2>1, <3>2 DEF queued
  <2>2. CASE \E a \in Addresses : heap[a] = watcher[w].cancel_flag_
    <3>1. PICK a \in Addresses : heap[a] = watcher[w].cancel_flag_
      BY <2>2
    <3>2. PICK e \in Events : a \in members[e]
      BY <3>1 DEF Finished, Inv, Lists
    <3> QED
      BY <3>1, <3>2 DEF members
  <2> QED
    BY <2>1, <2>2 DEF Inv, Armed
<1>3. NoSignalBesideWaiter
  BY DEF Inv, Locks, NoSignalBesideWaiter
<1>4. WaitersLive
  <2> SUFFICES ASSUME NEW e \in Events
               PROVE  /\ IsInjective(kernel[e].waiters_)
                      /\ \A a \in Range(kernel[e].waiters_) :
                           /\ heap[a] # None
                           /\ heap[a] \in flag_ \cup stopped =>
                                /\ signaler = [pc |-> "delete", event |-> e]
                                /\ a = Head(kernel[e].waiters_)
                           /\ \A d \in Events \ {e} : a \notin Range(kernel[d].waiters_)
    BY DEF WaitersLive
  <2>1. \A d \in Events : members[d] = Range(kernel[d].waiters_) /\ members[d] \subseteq Addresses
    BY MembersType DEF Inv
  <2>2. IsInjective(kernel[e].waiters_)
    BY DEF Inv, Lists
  <2> SUFFICES ASSUME NEW a \in Addresses, a \in members[e]
               PROVE  /\ heap[a] # None
                      /\ heap[a] \in flag_ \cup stopped =>
                           /\ signaler = [pc |-> "delete", event |-> e]
                           /\ a = Head(kernel[e].waiters_)
                      /\ \A d \in Events \ {e} : a \notin members[d]
    BY <2>1, <2>2
  <2>3. heap[a] # None /\ \A d \in Events \ {e} : a \notin members[d]
    BY DEF Inv, Lists
  <2>4. ASSUME heap[a] \in flag_ \cup stopped
        PROVE  signaler = [pc |-> "delete", event |-> e] /\ a = Head(kernel[e].waiters_)
    <3>1. a \in doomed
      BY <2>4 DEF Inv, Ended
    <3>2. signaler.pc = "delete" /\ a = Head(kernel[signaler.event].waiters_)
      BY <3>1 DEF doomed
    <3>3. PICK d \in Events : signaler.event = d /\ a \in members[d]
      BY <3>2, FiringState
    <3>4. d = e
      BY <3>3 DEF Inv, Lists
    <3>5. signaler \in [pc : {"idle", "Fire", "PostTask", "delete"}, event : Events \cup {None}]
      BY DEF Inv, Types
    <3> QED
      BY <3>2, <3>3, <3>4, <3>5
  <2> QED
    BY <2>3, <2>4
<1>5. PostsToLivingLoop
  <2> SUFFICES ASSUME signaler.pc = "PostTask" PROVE loop.state # "gone"
    BY DEF PostsToLivingLoop
  <2>1. PICK a \in Addresses : heap[a] \in Flags
    BY FiringState
  <2>2. a \notin doomed /\ heap[a] # None
    BY <2>1, FlagsNotNone DEF doomed, Inv
  <2>3. PICK w \in Watchers : watcher[w].observing
    BY <2>2 DEF Inv, Owners
  <2> QED
    BY <2>3 DEF Inv, Owners
<1> QED
  BY <1>1, <1>2, <1>3, <1>4, <1>5 DEF WatchesSound

\* The invariant holds always.
LEMMA InvAlways == Spec => []Inv
BY InitInv, NextInv, PTL DEF Spec

\* StartWatching, Fire and StopWatching agree about the waiters: a watch that is on
\* is armed, waiters in the lists exist and belong to watches that are on, none
\* sleeps beside its signal, and callbacks are posted to a loop that exists.
THEOREM WatchesSoundAlways == Spec => []WatchesSound
BY InvAlways, InvSound, PTL

\* AsyncCallbackHelper calls no delegate of a watch that StopWatching has ended,
\* by the user, by ~WaitableEventWatcher or by the end of the loop.
THEOREM StoppedNotCalled == Spec => NoCallAfterStop
<1>1. ASSUME Inv, [Next]_vars
      PROVE  [\A f \in Flags : f \in called' \ called => f \notin stopped]_vars
  <2> SUFFICES ASSUME NEW f \in Flags, f \in called', f \notin called
               PROVE  f \notin stopped
    OBVIOUS
  <2>1. CASE AsyncCallbackHelper
    <3>1. /\ loop.queue # <<>> /\ loop' = [loop EXCEPT !.queue = Tail(@)]
          /\ f = Head(loop.queue).flag /\ f \notin flag_
      BY <2>1 DEF AsyncCallbackHelper
    <3>2. loop'.queue = Tail(loop.queue)
      BY <1>1, <3>1 DEF Inv, Types, Loop
    <3>3. f \in queued
      BY <1>1, <3>1, <3>2, QueueTake DEF Inv
    <3> QED
      BY <1>1, <3>1, <3>3 DEF Inv, Ended
  <2>2. CASE ~AsyncCallbackHelper
    <3>1. called' = called
      BY <1>1, <2>2 DEF Next, vars, Fire, FireCheck, FirePost, FireDelete, Signal, Reset, DeleteEvent,
                 StartSignaled, StartEnqueue, UserStop, DestroyWatcher,
                 WillDestroyCurrentMessageLoop, DestroyLoop, LoopGone
    <3> QED
      BY <3>1
  <2> QED
    BY <2>1, <2>2
<1> QED
  BY <1>1, InvAlways, PTL DEF Spec, NoCallAfterStop
=============================================================================
