------------------------ MODULE WaitableEventProofs ------------------------
(***************************************************************************)
(* Proofs about WaitableEvent, for any events, threads and wait-lists: no  *)
(* waiter is missed or reached after its end, the locks leave no cycle,    *)
(* and the events do, step by step, what EventContract promises.           *)
(***************************************************************************)
EXTENDS WaitableEvent, FiniteSetTheorems, SequenceTheorems, TLAPS

-----------------------------------------------------------------------------
(* The invariant *)

Operation == [pc : Points, event : Events \cup {NoEvent}, raw : Seq(Events), many : BOOLEAN,
              finite : BOOLEAN, expired : BOOLEAN, pos : Nat, return_value : BOOLEAN]
Waiter == [fired_ : BOOLEAN, signaling_event_ : Events \cup {NoEvent},
           lock_ : Threads \cup {NoThread}, broadcast : BOOLEAN]

Types ==
  /\ lock_ \in [Events -> Threads \cup {NoThread}]
  /\ signaled_ \in [Events -> BOOLEAN]
  /\ waiters_ \in [Events -> Seq(Threads)]
  /\ sw \in [Threads -> Waiter]
  /\ thread \in [Threads -> Operation]
  /\ calls \in 0 .. MaxCalls

Signaling(t) == thread[t].pc \in {"SignalOne", "SignalAll"}

\* What a thread's arguments and its SyncWaiter are at each point of its call.
Phase(t) ==
  /\ Signaling(t) => /\ thread[t].event \in Events /\ thread[t].pos >= 1
                     /\ thread[t].event \in ManualReset <=> At(t, "SignalAll")
  /\ ~Signaling(t) => thread[t].event = NoEvent
  /\ At(t, "EnqueueMany") => thread[t].many
  /\ At(t, "EnqueueMany") \/ Live(t) => /\ thread[t].raw # <<>>
                                        /\ thread[t].many => ~thread[t].finite
                                        /\ ~thread[t].many => Len(thread[t].raw) = 1
  /\ ~Live(t) => sw[t] = NoWaiter
  /\ sw[t].lock_ = IF At(t, "check") THEN t ELSE NoThread
  /\ At(t, "dequeue") => /\ sw[t].fired_ /\ thread[t].pos >= 1
                         /\ thread[t].return_value => sw[t].signaling_event_ \in Events
  /\ Live(t) /\ ~At(t, "dequeue") /\ sw[t].fired_
       => sw[t].broadcast /\ sw[t].signaling_event_ \in Events

Phases == \A t \in Threads : Phase(t)

\* Who holds which kernel's lock.  EnqueueMany has the lower addresses locked
\* and goes on to the higher ones; a locked event is not signaled.
Locks ==
  /\ \A e \in Events : lock_[e] # NoThread =>
       /\ ~signaled_[e]
       /\ \/ Signaling(lock_[e]) /\ thread[lock_[e]].event = e
          \/ At(lock_[e], "EnqueueMany") /\ e \in Waitables(lock_[e])
  /\ \A t \in Threads : Signaling(t) => lock_[thread[t].event] = t
  /\ \A t \in Threads : At(t, "EnqueueMany") =>
       /\ Waitables(t) \ Locked(t) # {}
       /\ \A d \in Locked(t), e \in Waitables(t) \ Locked(t) : d < e

\* SignalAll has passed the i-th waiter of e, which is still in the list.
Passed(e, i) == \E s \in Threads : lock_[e] = s /\ At(s, "SignalAll") /\ i < thread[s].pos

\* t waits for e, and will leave e's list itself unless e takes it off.
Queued(t, e) ==
  /\ Live(t) /\ e \in Waitables(t)
  /\ sw[t].signaling_event_ # e
  /\ At(t, "dequeue") /\ thread[t].many =>
       \A j \in DOMAIN thread[t].raw : j < thread[t].pos => thread[t].raw[j] # e

\* The lists: a waiter is queued until it has been passed, and one that sleeps
\* has not been passed.
Lists ==
  /\ \A e \in Events : IsInjective(waiters_[e])
  /\ \A e \in Events : \A i \in DOMAIN waiters_[e] :
       Passed(e, i) \/ Queued(waiters_[e][i], e)
  /\ \A e \in Events : \A i \in DOMAIN waiters_[e] :
       Passed(e, i) => ~(Sleeping(waiters_[e][i]) /\ e \in Waitables(waiters_[e][i]))
  /\ \A t \in Threads : Sleeping(t) =>
       \A e \in Waitables(t) : ~signaled_[e] /\ t \in Range(waiters_[e])

Inv == Types /\ Phases /\ Locks /\ Lists

-----------------------------------------------------------------------------
(* Lists *)

\* A waiter at the end of a list.
LEMMA EnqueueList ==
  ASSUME NEW list \in Seq(Threads), NEW t \in Threads
  PROVE  /\ Enqueue(list, t) \in Seq(Threads)
         /\ Range(Enqueue(list, t)) = Range(list) \cup {t}
         /\ DOMAIN Enqueue(list, t) = DOMAIN list \cup {Len(list) + 1}
         /\ Enqueue(list, t)[Len(list) + 1] = t
         /\ \A i \in DOMAIN list : Enqueue(list, t)[i] = list[i]
         /\ IsInjective(list) /\ t \notin Range(list) => IsInjective(Enqueue(list, t))
<1>1. /\ Len(list) \in Nat /\ DOMAIN list = 1 .. Len(list)
      /\ DOMAIN Append(list, t) = 1 .. Len(list) + 1
      /\ Append(list, t)[Len(list) + 1] = t
      /\ \A i \in 1 .. Len(list) : Append(list, t)[i] = list[i]
  OBVIOUS
<1>2. 1 .. Len(list) + 1 = (1 .. Len(list)) \cup {Len(list) + 1}
  BY <1>1
<1>3. Range(Append(list, t)) = Range(list) \cup {t}
  BY <1>1, <1>2 DEF Range
<1>4. ASSUME IsInjective(list), t \notin Range(list) PROVE IsInjective(Append(list, t))
  BY <1>1, <1>2, <1>4 DEF IsInjective, Range
<1> QED
  BY <1>1, <1>2, <1>3, <1>4 DEF Enqueue

\* A waiter that joins a list it is not in.
LEMMA JoinedList ==
  ASSUME NEW list \in Seq(Threads), NEW t \in Threads, IsInjective(list), t \notin Range(list),
         NEW longer, longer = Enqueue(list, t)
  PROVE  /\ Range(longer) = Range(list) \cup {t} /\ IsInjective(longer)
         /\ \A i \in DOMAIN longer : longer[i] = t \/ (i \in DOMAIN list /\ longer[i] = list[i])
<1>1. /\ Range(longer) = Range(list) \cup {t} /\ IsInjective(longer)
      /\ DOMAIN longer = DOMAIN list \cup {Len(list) + 1} /\ longer[Len(list) + 1] = t
      /\ \A i \in DOMAIN list : longer[i] = list[i]
  BY EnqueueList
<1>2. \A i \in DOMAIN longer : longer[i] = t \/ (i \in DOMAIN list /\ longer[i] = list[i])
  BY <1>1
<1> QED
  BY <1>1, <1>2

\* A list without its head.
LEMMA PopList ==
  ASSUME NEW list \in Seq(Threads), list # <<>>, IsInjective(list)
  PROVE  /\ Tail(list) \in Seq(Threads) /\ IsInjective(Tail(list))
         /\ 1 \in DOMAIN list /\ Head(list) = list[1] /\ Head(list) \in Threads
         /\ Range(Tail(list)) = Range(list) \ {Head(list)}
         /\ \A i \in DOMAIN Tail(list) : i + 1 \in DOMAIN list /\ Tail(list)[i] = list[i + 1]
<1>1. /\ Len(list) \in Nat \ {0} /\ DOMAIN list = 1 .. Len(list)
      /\ DOMAIN Tail(list) = 1 .. Len(list) - 1
      /\ Head(list) = list[1] /\ \A i \in 1 .. Len(list) - 1 : Tail(list)[i] = list[i + 1]
  OBVIOUS
<1>2. IsInjective(Tail(list))
  BY <1>1 DEF IsInjective
<1>3. ASSUME NEW x \in Range(Tail(list)) PROVE x \in Range(list) \ {Head(list)}
  BY <1>1, <1>3 DEF Range, IsInjective
<1>4. ASSUME NEW x \in Range(list), x # Head(list) PROVE x \in Range(Tail(list))
  <2>1. PICK i \in 1 .. Len(list) : x = list[i]
    BY <1>1, <1>4 DEF Range
  <2>2. i - 1 \in 1 .. Len(list) - 1 /\ Tail(list)[i - 1] = list[i]
    BY <1>1, <1>4, <2>1
  <2> QED
    BY <1>1, <2>1, <2>2 DEF Range
<1> QED
  BY <1>1, <1>2, <1>3, <1>4

\* A list without one waiter.
LEMMA RemoveList ==
  ASSUME NEW list \in Seq(Threads), NEW t \in Threads, IsInjective(list)
  PROVE  /\ RemoveFirst(list, t) \in Seq(Threads) /\ IsInjective(RemoveFirst(list, t))
         /\ Range(RemoveFirst(list, t)) = Range(list) \ {t}
<1>1. Len(list) \in Nat /\ DOMAIN list = 1 .. Len(list)
  OBVIOUS
<1>2. CASE t \notin Range(list)
  <2>1. RemoveFirst(list, t) = list
    BY <1>1, <1>2 DEF RemoveFirst, Range
  <2> QED
    BY <1>2, <2>1
<1>3. CASE t \in Range(list)
  <2>1. PICK m \in 1 .. Len(list) : list[m] = t
    BY <1>1, <1>3 DEF Range
  <2>2. {i \in 1 .. Len(list) : list[i] = t} = {m}
    BY <1>1, <2>1 DEF IsInjective
  <2>3. SelectInSeq(list, LAMBDA v : v = t) = m
    BY <2>2 DEF SelectInSeq, Min
  <2> DEFINE a == SubSeq(list, 1, m - 1)
             b == SubSeq(list, m + 1, Len(list))
             r == a \o b
  <2>4. RemoveFirst(list, t) = r
    BY <2>1, <2>3 DEF RemoveFirst, RemoveAt
  <2> DEFINE n == Len(list)
  <2>5. n \in Nat /\ m \in 1 .. n /\ DOMAIN list = 1 .. n /\ \A i \in 1 .. n : list[i] \in Threads
    BY <1>1, <2>1
  <2>6. /\ a \in Seq(Threads) /\ Len(a) = m - 1 /\ \A i \in 1 .. m - 1 : a[i] = list[i]
    <3>1. \A i \in 1 .. m - 1 : list[i] \in Threads
      BY <2>5
    <3> QED
      BY <2>5, <3>1, SubSeqProperties
  <2>7. /\ b \in Seq(Threads) /\ Len(b) = n - m /\ \A i \in 1 .. n - m : b[i] = list[m + i]
    <3>1. \A i \in m + 1 .. n : list[i] \in Threads
      BY <2>5
    <3>2. /\ b \in Seq(Threads) /\ Len(b) = IF m + 1 <= n THEN n - (m + 1) + 1 ELSE 0
          /\ \A i \in 1 .. n - (m + 1) + 1 : b[i] = list[(m + 1) + i - 1]
      <4> HIDE DEF n
      <4>1. m + 1 \in Int /\ n \in Int
        BY <2>5
      <4> QED
        BY <3>1, <4>1, SubSeqProperties DEF n
    <3> HIDE DEF n, b
    <3> QED
      BY <2>5, <3>2
  <2> HIDE DEF a, b, n
  <2>8. /\ r \in Seq(Threads) /\ Len(r) = n - 1
        /\ \A i \in 1 .. n - 1 : r[i] = IF i <= m - 1 THEN a[i] ELSE b[i - (m - 1)]
    BY <2>5, <2>6, <2>7, ConcatProperties
  <2> HIDE DEF r
  <2>9. DOMAIN r = 1 .. n - 1
    BY <2>8
  <2>10. \A i \in 1 .. n - 1 : r[i] = IF i < m THEN list[i] ELSE list[i + 1]
    <3> TAKE i \in 1 .. n - 1
    <3>1. CASE i < m
      BY <2>5, <2>6, <2>8, <3>1
    <3>2. CASE ~(i < m)
      <4>1. i - (m - 1) \in 1 .. n - m /\ m + (i - (m - 1)) = i + 1 /\ ~(i <= m - 1)
        BY <2>5, <3>2
      <4>2. r[i] = b[i - (m - 1)]
        BY <2>8, <4>1
      <4>3. b[i - (m - 1)] = list[m + (i - (m - 1))]
        BY <2>7, <4>1
      <4> QED
        BY <3>2, <4>1, <4>2, <4>3
    <3> QED
      BY <3>1, <3>2
  <2>11. IsInjective(r)
    <3> SUFFICES ASSUME NEW i \in 1 .. n - 1, NEW j \in 1 .. n - 1, r[i] = r[j] PROVE i = j
      BY <2>9 DEF IsInjective
    <3> DEFINE f == IF i < m THEN i ELSE i + 1
               g == IF j < m THEN j ELSE j + 1
    <3>1. f \in 1 .. n /\ g \in 1 .. n /\ (f = g => i = j)
      BY <2>5
    <3>2. r[i] = list[f] /\ r[j] = list[g]
      BY <2>10
    <3> HIDE DEF f, g
    <3> QED
      BY <2>5, <3>1, <3>2 DEF IsInjective
  <2>12. ASSUME NEW x \in Range(r) PROVE x \in Range(list) \ {t}
    <3>1. PICK i \in 1 .. n - 1 : x = r[i]
      BY <2>9, <2>12 DEF Range
    <3>2. i \in 1 .. n /\ i + 1 \in 1 .. n /\ (i < m => i # m) /\ (~(i < m) => i + 1 # m)
      BY <2>5
    <3> QED
      BY <2>1, <2>5, <2>10, <3>1, <3>2 DEF Range, IsInjective
  <2>13. ASSUME NEW x \in Range(list), x # t PROVE x \in Range(r)
    <3>1. PICK i \in 1 .. n : x = list[i]
      BY <2>5, <2>13 DEF Range
    <3>2. CASE i < m
      <4>1. i \in 1 .. n - 1
        BY <2>5, <3>2
      <4> QED
        BY <2>9, <2>10, <3>1, <3>2, <4>1 DEF Range
    <3>3. CASE i > m
      <4>1. i - 1 \in 1 .. n - 1 /\ ~(i - 1 < m) /\ (i - 1) + 1 = i
        BY <2>5, <3>3
      <4>2. r[i - 1] = list[(i - 1) + 1]
        BY <2>10, <4>1
      <4> QED
        BY <2>9, <3>1, <4>1, <4>2 DEF Range
    <3> QED
      BY <2>1, <2>5, <2>13, <3>1, <3>2, <3>3
  <2> QED
    BY <2>4, <2>8, <2>11, <2>12, <2>13
<1> QED
  BY <1>2, <1>3

\* The extremes of a finite, non-empty set of addresses.
LEMMA LeastAndGreatest ==
  ASSUME NEW S \in SUBSET Nat, IsFiniteSet(S), S # {}
  PROVE  /\ \E m \in S : \A x \in S : m <= x
         /\ \E m \in S : \A x \in S : x <= m
<1>1. IsWellFoundedOn(StrictSubsetOrdering(S), SUBSET S)
  BY FS_StrictSubsetOrderingWellFounded, FS_FiniteSubsetsOfFinite
<1> DEFINE Below(m) == {x \in S : x < m}
           Above(m) == {x \in S : x > m}
<1>2. PICK m \in S : \A y \in S : ~(<<Below(y), Below(m)>> \in StrictSubsetOrdering(S))
  <2> DEFINE T == {Below(x) : x \in S}
  <2>1. T \subseteq SUBSET S /\ T # {}
    OBVIOUS
  <2>2. \E X \in T : \A Y \in T : ~(<<Y, X>> \in StrictSubsetOrdering(S))
    <3> HIDE DEF T
    <3> QED
      BY <1>1, <2>1, WFMin
  <2> QED
    BY <2>2
<1>3. \A x \in S : m <= x
  <2> SUFFICES ASSUME NEW x \in S, x < m PROVE FALSE
    OBVIOUS
  <2>1. Below(x) \subseteq Below(m) /\ x \in Below(m) /\ x \notin Below(x)
    <3>1. x \in Nat /\ m \in Nat /\ \A y \in S : y \in Nat
      OBVIOUS
    <3>2. \A y \in S : y < x => y < m
      BY <3>1
    <3>3. Below(x) \subseteq Below(m)
      BY <3>2
    <3>4. ~(x < x)
      BY <3>1
    <3> QED
      BY <3>3, <3>4
  <2>2. Below(x) \in SUBSET S /\ Below(m) \in SUBSET S
    OBVIOUS
  <2> HIDE DEF Below
  <2> QED
    BY <1>2, <2>1, <2>2 DEF StrictSubsetOrdering
<1>4. PICK n \in S : \A y \in S : ~(<<Above(y), Above(n)>> \in StrictSubsetOrdering(S))
  <2> DEFINE T == {Above(x) : x \in S}
  <2>1. T \subseteq SUBSET S /\ T # {}
    OBVIOUS
  <2>2. \E X \in T : \A Y \in T : ~(<<Y, X>> \in StrictSubsetOrdering(S))
    <3> HIDE DEF T
    <3> QED
      BY <1>1, <2>1, WFMin
  <2> QED
    BY <2>2
<1>5. \A x \in S : x <= n
  <2> SUFFICES ASSUME NEW x \in S, x > n PROVE FALSE
    OBVIOUS
  <2>1. Above(x) \subseteq Above(n) /\ x \in Above(n) /\ x \notin Above(x)
    <3>1. x \in Nat /\ n \in Nat /\ \A y \in S : y \in Nat
      OBVIOUS
    <3>2. \A y \in S : y > x => y > n
      BY <3>1
    <3>3. Above(x) \subseteq Above(n)
      BY <3>2
    <3>4. ~(x > x)
      BY <3>1
    <3> QED
      BY <3>3, <3>4
  <2>2. Above(x) \in SUBSET S /\ Above(n) \in SUBSET S
    OBVIOUS
  <2> HIDE DEF Above
  <2> QED
    BY <1>4, <2>1, <2>2 DEF StrictSubsetOrdering
<1> QED
  BY <1>3, <1>5

-----------------------------------------------------------------------------
(* Types *)

\* The records a thread starts and ends with.
LEMMA NoTypes == NoOperation \in Operation /\ NoWaiter \in Waiter
BY DEF NoOperation, Operation, Points, NoWaiter, Waiter

\* The events of a wait are events.
LEMMA WaitablesType ==
  ASSUME Types, NEW t \in Threads
  PROVE  Waitables(t) \subseteq Events /\ thread[t].raw \in Seq(Events) /\ thread[t] \in Operation
<1>1. thread[t] \in Operation
  BY DEF Types
<1>2. thread[t].raw \in Seq(Events)
  BY <1>1 DEF Operation
<1> QED
  BY <1>1, <1>2 DEF Waitables, Range

\* The next lock is the lowest of those EnqueueMany has not got.
LEMMA NextLockLeast ==
  ASSUME Types, Locks, NEW t \in Threads, At(t, "EnqueueMany")
  PROVE  /\ NextLock(t) \in Events
         /\ NextLock(t) \in Waitables(t) \ Locked(t)
         /\ \A d \in Waitables(t) \ Locked(t) : NextLock(t) <= d
<1> DEFINE S == Waitables(t) \ Locked(t)
<1>1. S \subseteq Events /\ S # {}
  BY WaitablesType DEF Locks
<1>2. S \in SUBSET Nat /\ IsFiniteSet(S)
  BY <1>1, FS_Subset, ConstantsAssumption DEF ConstantsAssumption
<1>3. \E m \in S : \A x \in S : m <= x
  BY <1>1, <1>2, LeastAndGreatest
<1>4. NextLock(t) = CHOOSE e \in S : \A d \in S : e <= d
  BY DEF NextLock
<1> HIDE DEF S
<1>5. NextLock(t) \in S /\ \A d \in S : NextLock(t) <= d
  BY <1>3, <1>4
<1> QED
  BY <1>1, <1>5 DEF S

\* The calls that do not wait.
LEMMA CallTypes ==
  ASSUME Types, NEW t \in Threads, NewCall(t)
  PROVE  Types'
<1>1. ASSUME Call(t) PROVE calls' \in 0 .. MaxCalls
  BY <1>1, ConstantsAssumption DEF ConstantsAssumption, Call, Types
<1>2. ASSUME NEW e \in Events, Reset(t, e) \/ IsSignaled(t, e) \/ TimedWaitSignaled(t, e)
      PROVE  Types'
  BY <1>1, <1>2 DEF Reset, IsSignaled, TimedWaitSignaled, Consume, Types
<1>3. ASSUME NEW e \in Events, Signal(t, e) PROVE Types'
  <2>1. [NoOperation EXCEPT !.pc = IF e \in ManualReset THEN "SignalAll" ELSE "SignalOne",
                            !.event = e, !.pos = 1] \in Operation
    <3> DEFINE pc == IF e \in ManualReset THEN "SignalAll" ELSE "SignalOne"
    <3>1. pc \in Points /\ <<>> \in Seq(Events)
      BY DEF Points
    <3> HIDE DEF pc
    <3>2. [NoOperation EXCEPT !.pc = pc, !.event = e, !.pos = 1] \in Operation
      BY <3>1 DEF NoOperation, Operation
    <3> QED
      BY <3>2 DEF pc
  <2> QED
    BY <1>1, <1>3, <2>1 DEF Signal, Types
<1>4. ASSUME NEW e \in Events, NEW finite \in BOOLEAN, TimedWaitEnqueue(t, e, finite)
      PROVE  Types'
  <2>1. [NoOperation EXCEPT !.pc = "check", !.raw = <<e>>, !.finite = finite] \in Operation
    <3>1. <<e>> \in Seq(Events)
      OBVIOUS
    <3> QED
      BY <3>1 DEF NoOperation, Operation, Points
  <2>2. [NoWaiter EXCEPT !.lock_ = t] \in Waiter
    BY DEF NoWaiter, Waiter
  <2>3. waiters_' \in [Events -> Seq(Threads)]
    BY <1>4, EnqueueList DEF TimedWaitEnqueue, Types
  <2> QED
    <3>1. sw' \in [Threads -> Waiter] /\ thread' \in [Threads -> Operation]
      BY <1>4, <2>1, <2>2 DEF TimedWaitEnqueue, Types
    <3> QED
      BY <1>1, <1>4, <2>3, <3>1 DEF TimedWaitEnqueue, Types
<1>5. ASSUME NEW raw \in WaitLists, WaitMany(t, raw) PROVE Types'
  <2>1. raw \in Seq(Events)
    BY ConstantsAssumption DEF ConstantsAssumption
  <2>2. [NoOperation EXCEPT !.pc = "EnqueueMany", !.raw = raw, !.many = TRUE] \in Operation
    BY <2>1 DEF NoOperation, Operation, Points
  <2> QED
    BY <1>1, <1>5, <2>2 DEF WaitMany, Types
<1> QED
  BY <1>2, <1>3, <1>4, <1>5 DEF NewCall

\* A waiter is fired.
LEMMA FireTypes ==
  ASSUME Types, NEW u \in Threads, NEW e \in Events, Fire(u, e)
  PROVE  /\ sw' \in [Threads -> Waiter]
         /\ \A v \in Threads : v # u => sw'[v] = sw[v]
         /\ sw'[u].lock_ = sw[u].lock_ /\ sw[u].lock_ = NoThread
         /\ sw'[u].fired_
         /\ IF sw[u].fired_ THEN sw' = sw
            ELSE sw'[u].broadcast /\ sw'[u].signaling_event_ = e
<1>1. sw[u] \in Waiter
  BY DEF Types
<1>2. CASE sw[u].fired_
  BY <1>2 DEF Fire, Types
<1>3. CASE ~sw[u].fired_
  <2> DEFINE r == [sw[u] EXCEPT !.fired_ = TRUE, !.signaling_event_ = e, !.broadcast = TRUE]
  <2>1. r \in Waiter /\ r.lock_ = sw[u].lock_ /\ r.fired_ /\ r.broadcast /\ r.signaling_event_ = e
    BY <1>1 DEF Waiter
  <2>2. sw' = [sw EXCEPT ![u] = r]
    BY <1>3 DEF Fire, Types
  <2> HIDE DEF r
  <2> QED
    BY <1>3, <2>1, <2>2 DEF Fire, Types
<1> QED
  BY <1>2, <1>3

\* Signallers.
LEMMA SignalTypes ==
  ASSUME Types, Phases, Lists, NEW t \in Threads,
         SignalOneNone(t) \/ SignalOneFire(t) \/ SignalAllFire(t) \/ SignalAllDone(t)
  PROVE  Types'
<1> DEFINE e == thread[t].event
<1>1. e \in Events /\ waiters_[e] \in Seq(Threads) /\ IsInjective(waiters_[e])
  <2>1. e \in Events
    BY DEF Phases, Phase, Signaling, At, SignalOneNone, SignalOneFire, SignalAllFire, SignalAllDone
  <2> QED
    BY <2>1 DEF Types, Lists
<1>2. CASE SignalOneNone(t) \/ SignalAllDone(t)
  <2>1. <<>> \in Seq(Threads)
    OBVIOUS
  <2>2. waiters_' \in [Events -> Seq(Threads)]
    BY <1>1, <1>2, <2>1 DEF SignalOneNone, SignalAllDone, Types
  <2>3. /\ lock_' \in [Events -> Threads \cup {NoThread}] /\ signaled_' \in [Events -> BOOLEAN]
        /\ thread' \in [Threads -> Operation]
    <3>1. /\ lock_' = [lock_ EXCEPT ![e] = NoThread] /\ signaled_' = [signaled_ EXCEPT ![e] = TRUE]
          /\ thread' = [thread EXCEPT ![t] = NoOperation]
      BY <1>2 DEF SignalOneNone, SignalAllDone
    <3> HIDE DEF e
    <3> QED
      BY <1>1, <3>1, NoTypes DEF Types
  <2> QED
    BY <1>2, <2>2, <2>3 DEF SignalOneNone, SignalAllDone, Types
<1>3. CASE SignalOneFire(t)
  <2>1. Head(waiters_[e]) \in Threads /\ Tail(waiters_[e]) \in Seq(Threads)
    BY <1>1, <1>3, PopList DEF SignalOneFire
  <2>2. sw' \in [Threads -> Waiter]
    BY <1>1, <1>3, <2>1, FireTypes DEF SignalOneFire
  <2>3. /\ lock_' \in [Events -> Threads \cup {NoThread}] /\ thread' \in [Threads -> Operation]
    BY <1>1, <1>3, NoTypes DEF SignalOneFire, Types
  <2> QED
    BY <1>1, <1>3, <2>1, <2>2, <2>3 DEF SignalOneFire, Types
<1>4. CASE SignalAllFire(t)
  <2>1. thread[t].pos \in Nat /\ thread[t].pos >= 1 /\ thread[t] \in Operation
    BY <1>4 DEF Types, Operation, Phases, Phase, Signaling, At, SignalAllFire
  <2>2. waiters_[e][thread[t].pos] \in Threads
    BY <1>1, <1>4, <2>1 DEF SignalAllFire
  <2>3. sw' \in [Threads -> Waiter]
    BY <1>1, <1>4, <2>2, FireTypes DEF SignalAllFire
  <2>4. [thread[t] EXCEPT !.pos = @ + 1] \in Operation
    BY <2>1 DEF Operation
  <2>5. thread' \in [Threads -> Operation]
    BY <1>4, <2>4 DEF SignalAllFire, Types
  <2> QED
    BY <1>4, <2>3, <2>5 DEF SignalAllFire, Types
<1> QED
  BY <1>2, <1>3, <1>4
\* What a step of TimedWait or WaitMany between its enqueueing and its
\* dequeueing does: only the thread's own state and waiter change.
LEMMA WaiterEffect ==
  ASSUME Types, Phases, NEW t \in Threads,
         \/ TimedWaitEnd(t) \/ CvWait(t) \/ WaitManyFired(t)
         \/ CvWakeBroadcast(t) \/ CvWakeTimeout(t) \/ CvWakeSpurious(t)
  PROVE  /\ UNCHANGED <<lock_, signaled_, waiters_>> /\ calls' \in 0 .. MaxCalls
         /\ thread' \in [Threads -> Operation] /\ sw' \in [Threads -> Waiter]
         /\ \A u \in Threads : u # t => thread'[u] = thread[u] /\ sw'[u] = sw[u]
         /\ thread[t].pc \in {"check", "blocked"}
         /\ thread'[t].pc \in {"check", "blocked", "dequeue"}
         /\ thread'[t].raw = thread[t].raw /\ thread'[t].many = thread[t].many
         /\ thread'[t].event = thread[t].event /\ thread'[t].finite = thread[t].finite
         /\ sw'[t].signaling_event_ = sw[t].signaling_event_
         /\ sw'[t].broadcast = sw[t].broadcast
         /\ sw'[t].lock_ = IF thread'[t].pc = "check" THEN t ELSE NoThread
         /\ thread'[t].pc # "dequeue" => sw'[t].fired_ = sw[t].fired_
         /\ thread'[t].pc = "dequeue" =>
              /\ sw'[t].fired_ /\ thread'[t].pos = 1
              /\ thread'[t].return_value = sw[t].fired_
              /\ sw[t].fired_ \/ thread[t].finite
<1>1. thread[t] \in Operation /\ sw[t] \in Waiter
  BY DEF Types
<1>2. CASE TimedWaitEnd(t) \/ WaitManyFired(t)
  <2> DEFINE r == [thread[t] EXCEPT !.pc = "dequeue", !.pos = 1, !.return_value = sw[t].fired_]
             w == [sw[t] EXCEPT !.fired_ = TRUE, !.lock_ = NoThread]
  <2>1. /\ r \in Operation /\ r.pc = "dequeue" /\ r.pos = 1 /\ r.return_value = sw[t].fired_
        /\ r.raw = thread[t].raw /\ r.many = thread[t].many /\ r.event = thread[t].event
        /\ r.finite = thread[t].finite
    <3>1. sw[t].fired_ \in BOOLEAN
      BY <1>1 DEF Waiter
    <3> QED
      BY <1>1, <3>1 DEF Operation, Points
  <2>2. /\ w \in Waiter /\ w.fired_ /\ w.lock_ = NoThread
        /\ w.signaling_event_ = sw[t].signaling_event_ /\ w.broadcast = sw[t].broadcast
    BY <1>1 DEF Waiter
  <2>3. thread' = [thread EXCEPT ![t] = r] /\ sw' = [sw EXCEPT ![t] = w]
    <3>1. CASE TimedWaitEnd(t)
      BY <3>1 DEF TimedWaitEnd, Types
    <3>2. CASE WaitManyFired(t)
      <4>1. sw[t].fired_ = TRUE
        BY <1>1, <3>2 DEF WaitManyFired, Waiter
      <4>2. [sw[t] EXCEPT !.lock_ = NoThread] = w
        BY <1>1, <4>1 DEF Waiter
      <4>3. thread' = [thread EXCEPT ![t] = r]
        BY <3>2, <4>1 DEF WaitManyFired, Types
      <4>4. sw' = [sw EXCEPT ![t] = [sw[t] EXCEPT !.lock_ = NoThread]]
        BY <3>2 DEF WaitManyFired, Types
      <4> QED
        BY <4>2, <4>3, <4>4
    <3> QED
      BY <1>2, <3>1, <3>2
  <2>4. thread[t].pc = "check" /\ (sw[t].fired_ \/ thread[t].finite)
    BY <1>2 DEF TimedWaitEnd, WaitManyFired, At
  <2>5. UNCHANGED <<lock_, signaled_, waiters_>> /\ calls' \in 0 .. MaxCalls
    BY <1>2 DEF TimedWaitEnd, WaitManyFired, Types
  <2> HIDE DEF r, w
  <2>6. /\ thread' \in [Threads -> Operation] /\ sw' \in [Threads -> Waiter]
        /\ thread'[t] = r /\ sw'[t] = w
        /\ \A u \in Threads : u # t => thread'[u] = thread[u] /\ sw'[u] = sw[u]
    BY <2>1, <2>2, <2>3 DEF Types
  <2> QED
    BY <2>1, <2>2, <2>4, <2>5, <2>6
<1>3. CASE CvWait(t)
  <2> DEFINE r == [thread[t] EXCEPT !.pc = "blocked"]
             w == [sw[t] EXCEPT !.lock_ = NoThread]
  <2>1. /\ r \in Operation /\ r.pc = "blocked"
        /\ r.raw = thread[t].raw /\ r.many = thread[t].many /\ r.event = thread[t].event
        /\ r.finite = thread[t].finite
    BY <1>1 DEF Operation, Points
  <2>2. /\ w \in Waiter /\ w.fired_ = sw[t].fired_ /\ w.lock_ = NoThread
        /\ w.signaling_event_ = sw[t].signaling_event_ /\ w.broadcast = sw[t].broadcast
    BY <1>1 DEF Waiter
  <2>3. thread' = [thread EXCEPT ![t] = r] /\ sw' = [sw EXCEPT ![t] = w]
    BY <1>3 DEF CvWait, Types
  <2>4. thread[t].pc = "check" /\ UNCHANGED <<lock_, signaled_, waiters_>> /\ calls' \in 0 .. MaxCalls
    BY <1>3 DEF CvWait, At, Types
  <2> HIDE DEF r, w
  <2>5. /\ thread' \in [Threads -> Operation] /\ sw' \in [Threads -> Waiter]
        /\ thread'[t] = r /\ sw'[t] = w
        /\ \A u \in Threads : u # t => thread'[u] = thread[u] /\ sw'[u] = sw[u]
    BY <2>1, <2>2, <2>3 DEF Types
  <2> QED
    BY <2>1, <2>2, <2>4, <2>5
<1>4. ASSUME NEW expired \in BOOLEAN, CvWake(t, expired), calls' \in 0 .. MaxCalls
      PROVE  /\ UNCHANGED <<lock_, signaled_, waiters_>>
             /\ thread' \in [Threads -> Operation] /\ sw' \in [Threads -> Waiter]
             /\ \A u \in Threads : u # t => thread'[u] = thread[u] /\ sw'[u] = sw[u]
             /\ thread[t].pc = "blocked" /\ thread'[t].pc = "check"
             /\ thread'[t].raw = thread[t].raw /\ thread'[t].many = thread[t].many
             /\ thread'[t].event = thread[t].event /\ thread'[t].finite = thread[t].finite
             /\ sw'[t].signaling_event_ = sw[t].signaling_event_
             /\ sw'[t].broadcast = sw[t].broadcast
             /\ sw'[t].lock_ = t /\ sw'[t].fired_ = sw[t].fired_
  <2> DEFINE r == [thread[t] EXCEPT !.pc = "check", !.expired = expired]
             w == [sw[t] EXCEPT !.lock_ = t]
  <2>1. /\ r \in Operation /\ r.pc = "check"
        /\ r.raw = thread[t].raw /\ r.many = thread[t].many /\ r.event = thread[t].event
        /\ r.finite = thread[t].finite
    BY <1>1 DEF Operation, Points
  <2>2. /\ w \in Waiter /\ w.fired_ = sw[t].fired_ /\ w.lock_ = t
        /\ w.signaling_event_ = sw[t].signaling_event_ /\ w.broadcast = sw[t].broadcast
    BY <1>1 DEF Waiter
  <2>3. thread' = [thread EXCEPT ![t] = r] /\ sw' = [sw EXCEPT ![t] = w]
    BY <1>4 DEF CvWake, Types
  <2>4. thread[t].pc = "blocked" /\ UNCHANGED <<lock_, signaled_, waiters_>>
    BY <1>4 DEF CvWake, At
  <2> HIDE DEF r, w
  <2>5. /\ thread' \in [Threads -> Operation] /\ sw' \in [Threads -> Waiter]
        /\ thread'[t] = r /\ sw'[t] = w
        /\ \A u \in Threads : u # t => thread'[u] = thread[u] /\ sw'[u] = sw[u]
    BY <2>1, <2>2, <2>3 DEF Types
  <2> QED
    BY <2>1, <2>2, <2>4, <2>5
<1>5. CASE CvWakeBroadcast(t) \/ CvWakeTimeout(t) \/ CvWakeSpurious(t)
  <2>1. calls' \in 0 .. MaxCalls
    <3>1. calls' = calls \/ (calls < MaxCalls /\ calls' = calls + 1)
      BY <1>5 DEF CvWakeBroadcast, CvWakeTimeout, CvWakeSpurious
    <3>2. calls \in 0 .. MaxCalls
      BY DEF Types
    <3> QED
      BY <3>1, <3>2, ConstantsAssumption DEF ConstantsAssumption
  <2>2. \E expired \in BOOLEAN : CvWake(t, expired)
    BY <1>5 DEF CvWakeBroadcast, CvWakeTimeout, CvWakeSpurious
  <2> QED
    BY <1>4, <2>1, <2>2
<1> QED
  BY <1>2, <1>3, <1>5

\* EnqueueMany and the steps that leave a wait.
LEMMA WaitTypes ==
  ASSUME Types, Phases, Locks, Lists, NEW t \in Threads,
         \/ EnqueueManySignaled(t) \/ EnqueueManyLock(t) \/ EnqueueManyLast(t)
         \/ TimedWaitDequeue(t) \/ WaitManyDequeue(t) \/ WaitManyReturn(t)
  PROVE  Types'
<1>1. /\ thread[t] \in Operation /\ sw[t] \in Waiter
      /\ Waitables(t) \subseteq Events /\ thread[t].raw \in Seq(Events)
  BY WaitablesType DEF Types
<1>2. ASSUME NEW e \in Events, Dequeue(e, t) PROVE waiters_' \in [Events -> Seq(Threads)]
  BY <1>2, RemoveList DEF Dequeue, Types, Lists
<1>3. CASE EnqueueManySignaled(t) \/ EnqueueManyLock(t)
  <2> DEFINE e == NextLock(t)
  <2>1. e \in Events
    BY <1>3, NextLockLeast DEF EnqueueManySignaled, EnqueueManyLock
  <2> HIDE DEF e
  <2>2. CASE EnqueueManySignaled(t)
    <3>1. signaled_' \in [Events -> BOOLEAN]
      BY <2>1, <2>2 DEF EnqueueManySignaled, Consume, e, Types
    <3>2. lock_' \in [Events -> Threads \cup {NoThread}]
      BY <2>2 DEF EnqueueManySignaled, Types
    <3> QED
      BY <2>2, <3>1, <3>2, NoTypes DEF EnqueueManySignaled, Types
  <2>3. CASE EnqueueManyLock(t)
    BY <2>1, <2>3 DEF EnqueueManyLock, e, Types
  <2> QED
    BY <1>3, <2>2, <2>3
<1>4. CASE EnqueueManyLast(t)
  <2>1. waiters_' \in [Events -> Seq(Threads)]
    BY <1>1, <1>4, EnqueueList DEF EnqueueManyLast, Types
  <2>2. lock_' \in [Events -> Threads \cup {NoThread}]
    BY <1>4 DEF EnqueueManyLast, Types
  <2>3. [NoWaiter EXCEPT !.lock_ = t] \in Waiter
    BY DEF NoWaiter, Waiter
  <2>4. [thread[t] EXCEPT !.pc = "check"] \in Operation
    BY <1>1 DEF Operation, Points
  <2>5. sw' \in [Threads -> Waiter] /\ thread' \in [Threads -> Operation]
    BY <1>4, <2>3, <2>4 DEF EnqueueManyLast, Types
  <2> QED
    BY <1>4, <2>1, <2>2, <2>5 DEF EnqueueManyLast, Types
<1>5. CASE TimedWaitDequeue(t)
  <2>1. thread[t].raw # <<>>
    BY <1>5 DEF TimedWaitDequeue, Phases, Phase, Live, At
  <2>2. thread[t].raw[1] \in Events
    BY <1>1, <2>1
  <2> QED
    BY <1>2, <1>5, <2>2, NoTypes DEF TimedWaitDequeue, Types
<1>6. CASE WaitManyDequeue(t)
  <2>1. thread[t].pos \in Nat /\ [thread[t] EXCEPT !.pos = @ + 1] \in Operation
    BY <1>1 DEF Operation
  <2>2. thread' \in [Threads -> Operation]
    BY <1>6, <2>1 DEF WaitManyDequeue, Types
  <2>3. thread[t].raw[thread[t].pos] \in Events
    <3>1. thread[t].pos >= 1 /\ thread[t].pos <= Len(thread[t].raw)
      BY <1>6 DEF WaitManyDequeue, Phases, Phase, At
    <3> QED
      BY <1>1, <2>1, <3>1
  <2>4. waiters_' \in [Events -> Seq(Threads)]
    BY <1>2, <1>6, <2>3 DEF WaitManyDequeue, Types
  <2> QED
    BY <1>6, <2>2, <2>4 DEF WaitManyDequeue, Types
<1>7. CASE WaitManyReturn(t)
  BY <1>7, NoTypes DEF WaitManyReturn, Types
<1> QED
  BY <1>3, <1>4, <1>5, <1>6, <1>7
\* Every step keeps the types.
LEMMA NextTypes ==
  ASSUME Inv, Next
  PROVE  Types'
<1> SUFFICES ASSUME NEW t \in Threads, NewCall(t) \/ Step(t) PROVE Types'
  BY DEF Next
<1>1. CASE NewCall(t)
  BY <1>1, CallTypes DEF Inv
<1>2. CASE SignalOneNone(t) \/ SignalOneFire(t) \/ SignalAllFire(t) \/ SignalAllDone(t)
  BY <1>2, SignalTypes DEF Inv
<1>3. CASE \/ TimedWaitEnd(t) \/ CvWait(t) \/ WaitManyFired(t)
           \/ CvWakeBroadcast(t) \/ CvWakeTimeout(t) \/ CvWakeSpurious(t)
  BY <1>3, WaiterEffect DEF Inv, Types
<1>4. CASE \/ EnqueueManySignaled(t) \/ EnqueueManyLock(t) \/ EnqueueManyLast(t)
           \/ TimedWaitDequeue(t) \/ WaitManyDequeue(t) \/ WaitManyReturn(t)
  BY <1>4, WaitTypes DEF Inv
<1> QED
  BY <1>1, <1>2, <1>3, <1>4 DEF Step

-----------------------------------------------------------------------------
(* What a step that leaves part of the state alone keeps *)

\* A thread that is left alone stays in its phase.
LEMMA PhasesKept ==
  ASSUME Phases,
         \A u \in Threads : Phase(u)' \/ (thread'[u] = thread[u] /\ sw'[u] = sw[u])
  PROVE  Phases'
<1> SUFFICES ASSUME NEW u \in Threads, thread'[u] = thread[u], sw'[u] = sw[u] PROVE Phase(u)'
  BY DEF Phases
<1>1. Phase(u)
  BY DEF Phases
<1> QED
  BY <1>1 DEF Phase, Signaling, At, Live

\* The kernels' locks stay put, and so do the threads that hold one.
LEMMA LocksKept ==
  ASSUME Types, Types', Locks, NEW t \in Threads, lock_' = lock_,
         \A u \in Threads : u # t => thread'[u] = thread[u],
         ~Signaling(t), ~At(t, "EnqueueMany"), ~Signaling(t)',
         At(t, "EnqueueMany")' => Waitables(t)' # {},
         \A e \in Events : lock_[e] # NoThread => ~signaled_'[e]
  PROVE  Locks'
<1>1. \A e \in Events : lock_[e] # t
  BY ConstantsAssumption DEF ConstantsAssumption, Locks, Types
<1>2. Locked(t)' = {}
  BY <1>1 DEF Locked
<1>3. \A u \in Threads : u # t => /\ Locked(u)' = Locked(u) /\ Waitables(u)' = Waitables(u)
                                  /\ Signaling(u)' = Signaling(u)
                                  /\ At(u, "EnqueueMany")' = At(u, "EnqueueMany")
  BY DEF Locked, Waitables, Signaling, At
<1>4. ASSUME NEW e \in Events, lock_'[e] # NoThread
      PROVE  /\ ~signaled_'[e]
             /\ \/ Signaling(lock_[e])' /\ thread'[lock_'[e]].event = e
                \/ At(lock_[e], "EnqueueMany")' /\ e \in Waitables(lock_[e])'
  <2>1. lock_[e] \in Threads /\ lock_[e] # t /\ lock_'[e] = lock_[e]
    BY <1>1, <1>4 DEF Types
  <2>2. \/ Signaling(lock_[e]) /\ thread[lock_[e]].event = e
        \/ At(lock_[e], "EnqueueMany") /\ e \in Waitables(lock_[e])
    BY <1>4, <2>1 DEF Locks
  <2>3. thread'[lock_[e]] = thread[lock_[e]]
    BY <2>1
  <2> QED
    BY <1>4, <2>1, <2>2, <2>3 DEF Signaling, At, Waitables
<1>5. ASSUME NEW u \in Threads, Signaling(u)' PROVE lock_'[thread'[u].event] = u
  BY <1>3, <1>5 DEF Locks
<1>6. ASSUME NEW u \in Threads, At(u, "EnqueueMany")'
      PROVE  /\ Waitables(u)' \ Locked(u)' # {}
             /\ \A d \in Locked(u)', e \in Waitables(u)' \ Locked(u)' : d < e
  BY <1>2, <1>3, <1>6 DEF Locks
<1> QED
  BY <1>4, <1>5, <1>6 DEF Locks, Locked, Waitables, At, Signaling

\* The lists after a step, waiter by waiter.
LEMMA ListsPrime ==
  ASSUME Types',
         \A e \in Events : IsInjective(waiters_'[e]),
         \A e \in Events : \A i \in DOMAIN waiters_'[e] : \A u \in Threads :
           u = waiters_'[e][i] =>
             /\ Passed(e, i)' \/ Queued(u, e)'
             /\ Passed(e, i)' => ~(Sleeping(u)' /\ e \in Waitables(u)'),
         \A u \in Threads : Sleeping(u)' =>
           \A e \in Waitables(u)' : ~signaled_'[e] /\ u \in Range(waiters_'[e])
  PROVE  Lists'
<1>1. ASSUME NEW e \in Events, NEW i \in DOMAIN waiters_'[e]
      PROVE  (/\ Passed(e, i) \/ Queued(waiters_[e][i], e)
              /\ Passed(e, i) => ~(Sleeping(waiters_[e][i]) /\ e \in Waitables(waiters_[e][i])))'
  <2>1. PICK u \in Threads : u = waiters_'[e][i]
    BY <1>1 DEF Types
  <2>2. (u = waiters_[e][i] => (Queued(waiters_[e][i], e) <=> Queued(u, e)))'
    BY DEF Queued
  <2>3. (u = waiters_[e][i] => (Sleeping(waiters_[e][i]) <=> Sleeping(u)))'
    BY DEF Sleeping
  <2>4. (u = waiters_[e][i] => Waitables(waiters_[e][i]) = Waitables(u))'
    BY DEF Waitables
  <2> QED
    BY <1>1, <2>1, <2>2, <2>3, <2>4
<1> QED
  BY <1>1 DEF Lists

\* The lists stay as they are, and nobody who sleeps is passed over.
LEMMA ListsKept ==
  ASSUME Types, Types', Lists, NEW t \in Threads, waiters_' = waiters_,
         \A u \in Threads : u # t => thread'[u] = thread[u] /\ sw'[u] = sw[u],
         \A e \in Events : \A i \in DOMAIN waiters_[e] : Passed(e, i)' <=> Passed(e, i),
         \A e \in Events : Queued(t, e) => Queued(t, e)',
         Sleeping(t)' => Sleeping(t) /\ Waitables(t)' = Waitables(t),
         \A e \in Events : signaled_'[e] => signaled_[e] \/ waiters_[e] = <<>>
  PROVE  Lists'
<1>1. ASSUME NEW u \in Threads
      PROVE  /\ Sleeping(u)' => Sleeping(u) /\ Waitables(u)' = Waitables(u)
             /\ \A e \in Events : Queued(u, e) => Queued(u, e)'
  <2>1. CASE u # t
    <3>1. thread'[u] = thread[u] /\ sw'[u] = sw[u]
      BY <2>1
    <3> QED
      BY <3>1 DEF Sleeping, Waitables, Queued, Live, At
  <2> QED
    BY <2>1
<1>2. ASSUME NEW e \in Events, NEW i \in DOMAIN waiters_[e]
      PROVE  waiters_[e][i] \in Threads
  BY <1>2 DEF Types
<1>3. ASSUME NEW e \in Events, NEW i \in DOMAIN waiters_'[e]
      PROVE  /\ Passed(e, i)' \/ Queued(waiters_[e][i], e)'
             /\ Passed(e, i)' => ~(Sleeping(waiters_[e][i])' /\ e \in Waitables(waiters_[e][i])')
  BY <1>1, <1>2, <1>3 DEF Lists
<1>4. ASSUME NEW u \in Threads, Sleeping(u)', NEW e \in Waitables(u)'
      PROVE  ~signaled_'[e] /\ u \in Range(waiters_'[e])
  <2>1. e \in Waitables(u) /\ Sleeping(u)
    BY <1>1, <1>4
  <2>2. e \in Events /\ ~signaled_[e] /\ u \in Range(waiters_[e])
    BY <2>1, WaitablesType DEF Lists
  <2>3. waiters_[e] # <<>>
    BY <2>2 DEF Range
  <2> QED
    BY <2>2, <2>3
<1>5. \A e \in Events : IsInjective(waiters_'[e])
  BY DEF Lists
<1> QED
  BY <1>3, <1>4, <1>5 DEF Lists, Sleeping, Waitables, Queued, Live, At

\* A step of a thread that is not signalling, with the locks of signallers
\* where they were, passes nobody over.
LEMMA PassedKept ==
  ASSUME Types, NEW t \in Threads, NEW e \in Events, NEW i,
         \A u \in Threads : u # t => thread'[u] = thread[u],
         ~At(t, "SignalAll"), ~At(t, "SignalAll")',
         lock_'[e] # lock_[e] => lock_[e] \in {t, NoThread} /\ lock_'[e] \in {t, NoThread}
  PROVE  Passed(e, i)' <=> Passed(e, i)
<1>1. NoThread \notin Threads
  BY ConstantsAssumption DEF ConstantsAssumption
<1>2. ASSUME NEW s \in Threads
      PROVE  (lock_'[e] = s /\ At(s, "SignalAll")' /\ i < thread'[s].pos)
               <=> (lock_[e] = s /\ At(s, "SignalAll") /\ i < thread[s].pos)
  BY <1>1 DEF At
<1> QED
  BY <1>2 DEF Passed, At

-----------------------------------------------------------------------------
(* Invariance, step by step *)

\* Waiters between enqueueing and dequeueing.
LEMMA WaiterSteps ==
  ASSUME Inv, Types', NEW t \in Threads,
         \/ TimedWaitEnd(t) \/ CvWait(t) \/ WaitManyFired(t)
         \/ CvWakeBroadcast(t) \/ CvWakeTimeout(t) \/ CvWakeSpurious(t)
  PROVE  Inv'
<1> USE DEF Inv
<1>1. /\ UNCHANGED <<lock_, signaled_, waiters_>>
      /\ \A u \in Threads : u # t => thread'[u] = thread[u] /\ sw'[u] = sw[u]
  BY WaiterEffect
<1>2. /\ thread[t].pc \in {"check", "blocked"}
      /\ thread'[t].pc \in {"check", "blocked", "dequeue"}
      /\ thread'[t].raw = thread[t].raw /\ thread'[t].many = thread[t].many
      /\ thread'[t].event = thread[t].event /\ thread'[t].finite = thread[t].finite
      /\ sw'[t].signaling_event_ = sw[t].signaling_event_
      /\ sw'[t].broadcast = sw[t].broadcast
      /\ sw'[t].lock_ = IF thread'[t].pc = "check" THEN t ELSE NoThread
      /\ thread'[t].pc # "dequeue" => sw'[t].fired_ = sw[t].fired_
      /\ thread'[t].pc = "dequeue" =>
           /\ sw'[t].fired_ /\ thread'[t].pos = 1
           /\ thread'[t].return_value = sw[t].fired_
           /\ sw[t].fired_ \/ thread[t].finite
  BY WaiterEffect
<1>3. Phase(t)'
  <2>1. Phase(t)
    BY DEF Phases
  <2> QED
    BY <1>2, <2>1 DEF Phase, Signaling, At, Live
<1>4. Phases'
  BY <1>1, <1>3, PhasesKept
<1>5. Locks'
  <2>1. ~Signaling(t) /\ ~Signaling(t)' /\ ~At(t, "EnqueueMany") /\ ~At(t, "EnqueueMany")'
    BY <1>2 DEF Signaling, At
  <2>2. \A e \in Events : lock_[e] # NoThread => ~signaled_'[e]
    BY <1>1 DEF Locks
  <2> QED
    BY <1>1, <2>1, <2>2, LocksKept
<1>6. Lists'
  <2>1. \A e \in Events : \A i \in DOMAIN waiters_[e] : Passed(e, i)' <=> Passed(e, i)
    <3>1. ~At(t, "SignalAll") /\ ~At(t, "SignalAll")'
      BY <1>2 DEF At
    <3> QED
      BY <1>1, <3>1, PassedKept
  <2>2. \A e \in Events : Queued(t, e) => Queued(t, e)'
    <3> SUFFICES ASSUME NEW e \in Events, Queued(t, e) PROVE Queued(t, e)'
      OBVIOUS
    <3>1. \A j \in DOMAIN thread'[t].raw : ~(j < 1)
      <4>1. thread'[t].raw \in Seq(Events)
        BY DEF Types, Operation
      <4> QED
        BY <4>1
    <3> QED
      BY <1>2, <3>1 DEF Queued, Live, At, Waitables
  <2>3. Sleeping(t)' => Sleeping(t) /\ Waitables(t)' = Waitables(t)
    BY <1>2 DEF Sleeping, Waitables
  <2> QED
    BY <1>1, <2>1, <2>2, <2>3, ListsKept
<1> QED
  BY <1>4, <1>5, <1>6
\* A waiter that is awake leaves a list nobody is working on.
LEMMA ListsLeft ==
  ASSUME Types, Types', Lists, NEW t \in Threads, NEW e \in Events,
         lock_[e] = NoThread, Dequeue(e, t), lock_' = lock_, signaled_' = signaled_,
         \A u \in Threads : u # t => thread'[u] = thread[u] /\ sw'[u] = sw[u],
         ~At(t, "SignalAll"), ~At(t, "SignalAll")', ~Sleeping(t)',
         \A d \in Events : d # e /\ Queued(t, d) => Queued(t, d)'
  PROVE  Lists'
<1>1. ASSUME NEW u \in Threads, u # t
      PROVE  /\ Sleeping(u)' = Sleeping(u) /\ Waitables(u)' = Waitables(u)
             /\ \A d \in Events : Queued(u, d)' = Queued(u, d)
  <2>1. thread'[u] = thread[u] /\ sw'[u] = sw[u]
    BY <1>1
  <2> QED
    BY <2>1 DEF Sleeping, Waitables, Queued, Live, At
<1>2. \A d \in Events : \A i : Passed(d, i)' <=> Passed(d, i)
  BY PassedKept
<1>3. /\ IsInjective(waiters_'[e]) /\ Range(waiters_'[e]) = Range(waiters_[e]) \ {t}
      /\ \A d \in Events : d # e => waiters_'[d] = waiters_[d]
  <2>1. waiters_[e] \in Seq(Threads) /\ IsInjective(waiters_[e])
    BY DEF Types, Lists
  <2>2. waiters_'[e] = RemoveFirst(waiters_[e], t) /\ \A d \in Events : d # e => waiters_'[d] = waiters_[d]
    BY DEF Dequeue, Types
  <2> QED
    BY <2>1, <2>2, RemoveList
<1>4. \A d \in Events : IsInjective(waiters_'[d])
  BY <1>3 DEF Lists
<1>5. ASSUME NEW d \in Events, NEW i \in DOMAIN waiters_'[d], NEW u \in Threads,
             u = waiters_'[d][i]
      PROVE  /\ Passed(d, i)' \/ Queued(u, d)'
             /\ Passed(d, i)' => ~(Sleeping(u)' /\ d \in Waitables(u)')
  <2>1. CASE d = e
    <3>1. ~Passed(e, i)'
      BY ConstantsAssumption DEF ConstantsAssumption, Passed
    <3>2. u \in Range(waiters_[e]) /\ u # t
      BY <1>3, <1>5, <2>1 DEF Range
    <3>3. PICK j \in DOMAIN waiters_[e] : waiters_[e][j] = u
      BY <3>2 DEF Range
    <3>4. ~Passed(e, j)
      BY <3>3, ConstantsAssumption DEF ConstantsAssumption, Passed
    <3>5. Queued(u, e)
      BY <3>3, <3>4 DEF Lists
    <3> QED
      BY <1>1, <2>1, <3>1, <3>2, <3>5
  <2>2. CASE d # e
    <3>1. waiters_[d][i] = u /\ i \in DOMAIN waiters_[d]
      BY <1>3, <1>5, <2>2
    <3>2. /\ Passed(d, i) \/ Queued(u, d)
          /\ Passed(d, i) => ~(Sleeping(u) /\ d \in Waitables(u))
      BY <3>1 DEF Lists
    <3> QED
      BY <1>1, <1>2, <2>2, <3>1, <3>2
  <2> QED
    BY <2>1, <2>2
<1>6. ASSUME NEW u \in Threads, Sleeping(u)', NEW d \in Waitables(u)'
      PROVE  ~signaled_'[d] /\ u \in Range(waiters_'[d])
  <2>1. u # t /\ d \in Waitables(u) /\ Sleeping(u)
    BY <1>1, <1>6
  <2>2. d \in Events /\ ~signaled_[d] /\ u \in Range(waiters_[d])
    BY <2>1, WaitablesType DEF Lists
  <2> QED
    BY <1>3, <2>1, <2>2
<1> QED
  BY <1>4, <1>5, <1>6, ListsPrime

\* Waiters that leave the lists and return.
LEMMA LeaveSteps ==
  ASSUME Inv, Types', NEW t \in Threads,
         TimedWaitDequeue(t) \/ WaitManyDequeue(t) \/ WaitManyReturn(t)
  PROVE  Inv'
<1> USE DEF Inv
<1>1. /\ At(t, "dequeue") /\ lock_' = lock_ /\ signaled_' = signaled_
      /\ thread[t] \in Operation /\ sw[t] \in Waiter /\ thread[t].raw \in Seq(Events)
      /\ Phase(t) /\ thread[t].pos >= 1 /\ thread[t].pos \in Nat
  BY DEF TimedWaitDequeue, WaitManyDequeue, WaitManyReturn, Phases, Phase, Types, Operation
<1>2. \A u \in Threads : u # t => thread'[u] = thread[u] /\ sw'[u] = sw[u]
  BY DEF TimedWaitDequeue, WaitManyDequeue, WaitManyReturn, Types
<1>3. /\ TimedWaitDequeue(t) \/ WaitManyReturn(t) => thread'[t] = NoOperation /\ sw'[t] = NoWaiter
      /\ WaitManyDequeue(t) => /\ sw' = sw /\ thread'[t].pc = "dequeue"
                               /\ thread'[t] = [thread[t] EXCEPT !.pos = @ + 1]
  BY <1>1 DEF TimedWaitDequeue, WaitManyDequeue, WaitManyReturn, Types, At, Operation
<1>4. WaitManyDequeue(t) => /\ thread'[t].event = thread[t].event /\ thread'[t].raw = thread[t].raw
                            /\ thread'[t].many = thread[t].many /\ thread'[t].finite = thread[t].finite
                            /\ thread'[t].pos = thread[t].pos + 1
                            /\ thread'[t].return_value = thread[t].return_value
  BY <1>1, <1>3 DEF Operation
<1>5. Phase(t)'
  <2>1. CASE TimedWaitDequeue(t) \/ WaitManyReturn(t)
    BY <1>3, <2>1 DEF NoOperation, NoWaiter, Phase, Signaling, At, Live
  <2>2. CASE WaitManyDequeue(t)
    <3>1. thread[t].pos + 1 >= 1
      BY <1>1
    <3> QED
      BY <1>1, <1>3, <1>4, <2>2, <3>1 DEF Phase, Signaling, At, Live
  <2> QED
    BY <2>1, <2>2
<1>6. Phases'
  BY <1>2, <1>5, PhasesKept
<1>7. /\ ~Signaling(t) /\ ~Signaling(t)' /\ ~At(t, "EnqueueMany") /\ ~At(t, "EnqueueMany")'
      /\ ~At(t, "SignalAll") /\ ~At(t, "SignalAll")' /\ ~Sleeping(t)'
  BY <1>1, <1>3 DEF Signaling, Sleeping, At, NoOperation
<1>8. Locks'
  <2>1. \A e \in Events : lock_[e] # NoThread => ~signaled_'[e]
    BY <1>1 DEF Locks
  <2> QED
    BY <1>1, <1>2, <1>7, <2>1, LocksKept
<1>9. \A e \in Events : \A i \in DOMAIN waiters_[e] : Passed(e, i)' <=> Passed(e, i)
  BY <1>1, <1>2, <1>7, PassedKept
<1>10. ASSUME waiters_' = waiters_, \A e \in Events : Queued(t, e) => Queued(t, e)'
       PROVE  Lists'
  BY <1>1, <1>2, <1>7, <1>9, <1>10, ListsKept
<1>11. CASE TimedWaitDequeue(t)
  <2> DEFINE e == thread[t].raw[1]
  <2>1. Len(thread[t].raw) = 1
    BY <1>1, <1>11 DEF TimedWaitDequeue, Phase, Live, At
  <2>2. e \in Events /\ Waitables(t) = {e}
    BY <1>1, <2>1 DEF Waitables, Range
  <2>3. \A d \in Events : d # e => ~Queued(t, d)
    BY <2>2 DEF Queued
  <2>4. lock_[e] = NoThread /\ Dequeue(e, t)
    BY <1>11 DEF TimedWaitDequeue
  <2> HIDE DEF e
  <2> QED
    BY <1>1, <1>2, <1>6, <1>7, <1>8, <2>2, <2>3, <2>4, ListsLeft
<1>12. CASE WaitManyReturn(t)
  <2>1. \A e \in Events : ~Queued(t, e)
    <3> SUFFICES ASSUME NEW e \in Events, Queued(t, e) PROVE FALSE
      OBVIOUS
    <3>1. thread[t].many /\ thread[t].pos > Len(thread[t].raw)
      BY <1>12 DEF WaitManyReturn
    <3>2. PICK j \in DOMAIN thread[t].raw : thread[t].raw[j] = e
      BY DEF Queued, Waitables, Range
    <3>3. j < thread[t].pos
      BY <1>1, <3>1
    <3> QED
      BY <1>1, <3>1, <3>2, <3>3 DEF Queued
  <2> QED
    BY <1>6, <1>8, <1>10, <1>12, <2>1 DEF WaitManyReturn
<1>13. CASE WaitManyDequeue(t)
  <2> DEFINE p == thread[t].pos
             e == thread[t].raw[p]
  <2>1. p \in DOMAIN thread[t].raw /\ e \in Events
    <3>1. p <= Len(thread[t].raw)
      BY <1>13 DEF WaitManyDequeue
    <3> QED
      BY <1>1, <3>1
  <2>2. ASSUME NEW d \in Events, d # e, Queued(t, d) PROVE Queued(t, d)'
    <3>1. \A j \in DOMAIN thread[t].raw : j < p + 1 => j = p \/ j < p
      BY <1>1
    <3> QED
      BY <1>1, <1>3, <1>4, <1>13, <2>2, <3>1 DEF Queued, Live, At, Waitables
  <2>3. CASE e = sw[t].signaling_event_
    <3>1. ~Queued(t, e)
      BY <2>3 DEF Queued
    <3> QED
      BY <1>6, <1>8, <1>10, <1>13, <2>2, <2>3, <3>1 DEF WaitManyDequeue
  <2>4. CASE e # sw[t].signaling_event_
    <3>1. lock_[e] = NoThread /\ Dequeue(e, t)
      BY <1>13, <2>4 DEF WaitManyDequeue
    <3> HIDE DEF e
    <3> QED
      BY <1>1, <1>2, <1>6, <1>7, <1>8, <2>1, <2>2, <3>1, ListsLeft
  <2> QED
    BY <2>3, <2>4
<1> QED
  BY <1>11, <1>12, <1>13
\* A thread gives up all the kernels' locks it has.
LEMMA LocksReleased ==
  ASSUME Types, Types', Phases, Locks, NEW t \in Threads,
         \A d \in Events : lock_'[d] = IF lock_[d] = t THEN NoThread ELSE lock_[d],
         \A u \in Threads : u # t => thread'[u] = thread[u],
         ~Signaling(t)', ~At(t, "EnqueueMany")',
         \A d \in Events : lock_[d] # t /\ lock_[d] # NoThread => signaled_'[d] = signaled_[d]
  PROVE  Locks'
<1>1. NoThread \notin Threads
  BY ConstantsAssumption DEF ConstantsAssumption
<1>2. \A u \in Threads : u # t => Locked(u)' = Locked(u) /\ Waitables(u)' = Waitables(u)
  BY <1>1 DEF Locked, Waitables
<1>3. ASSUME NEW d \in Events, lock_'[d] # NoThread, NEW u \in Threads, u = lock_'[d]
      PROVE  /\ ~signaled_'[d]
             /\ \/ Signaling(u)' /\ thread'[u].event = d
                \/ At(u, "EnqueueMany")' /\ d \in Waitables(u)'
  <2>1. lock_[d] = u /\ u # t /\ thread'[u] = thread[u]
    BY <1>1, <1>3
  <2>2. /\ ~signaled_[d]
        /\ \/ Signaling(u) /\ thread[u].event = d
           \/ At(u, "EnqueueMany") /\ d \in Waitables(u)
    BY <1>1, <2>1 DEF Locks
  <2> QED
    BY <1>1, <2>1, <2>2 DEF Signaling, At, Waitables
<1>4. ASSUME NEW d \in Events, lock_'[d] # NoThread
      PROVE  (/\ ~signaled_[d]
              /\ \/ Signaling(lock_[d]) /\ thread[lock_[d]].event = d
                 \/ At(lock_[d], "EnqueueMany") /\ d \in Waitables(lock_[d]))'
  <2>1. PICK u \in Threads : u = lock_'[d]
    BY <1>4 DEF Types
  <2> QED
    BY <1>3, <1>4, <2>1 DEF Signaling, At, Waitables
<1>5. ASSUME NEW u \in Threads, Signaling(u)' PROVE lock_'[thread'[u].event] = u
  <2>1. u # t /\ thread'[u] = thread[u] /\ Signaling(u) /\ lock_[thread[u].event] = u
    BY <1>5 DEF Locks, Signaling
  <2>2. thread[u].event \in Events
    BY <2>1 DEF Phases, Phase
  <2> QED
    BY <2>1, <2>2
<1>6. ASSUME NEW u \in Threads, At(u, "EnqueueMany")'
      PROVE  /\ Waitables(u)' \ Locked(u)' # {}
             /\ \A d \in Locked(u)', e \in Waitables(u)' \ Locked(u)' : d < e
  <2>1. u # t /\ At(u, "EnqueueMany")
    BY <1>6 DEF At
  <2> QED
    BY <1>2, <2>1 DEF Locks
<1> QED
  BY <1>4, <1>5, <1>6 DEF Locks, Locked, Waitables, At, Signaling

\* A signaller has the lock of its event and of no other.
LEMMA SignallerLock ==
  ASSUME Types, Phases, Locks, NEW t \in Threads, Signaling(t)
  PROVE  /\ thread[t].event \in Events /\ lock_[thread[t].event] = t
         /\ \A d \in Events : lock_[d] = t <=> d = thread[t].event
         /\ ~signaled_[thread[t].event]
         /\ ~Live(t) /\ ~Sleeping(t)
<1>1. thread[t].event \in Events /\ lock_[thread[t].event] = t
  BY DEF Phases, Phase, Locks
<1>2. ~At(t, "EnqueueMany") /\ ~Live(t) /\ ~Sleeping(t) /\ t # NoThread
  BY ConstantsAssumption DEF ConstantsAssumption, Signaling, At, Live, Sleeping
<1> QED
  BY <1>1, <1>2 DEF Locks

\* What firing a queued waiter does to the threads and their waiters.
LEMMA FireEffect ==
  ASSUME Inv, NEW t \in Threads, Signaling(t), NEW u \in Threads, NEW e \in Events,
         Queued(u, e), Fire(u, e),
         \A v \in Threads : v # t => thread'[v] = thread[v]
  PROVE  /\ u # t
         /\ \A v \in Threads : v # t /\ v # u => thread'[v] = thread[v] /\ sw'[v] = sw[v]
         /\ sw'[t] = sw[t]
         /\ Phase(u)' /\ ~Sleeping(u)'
         /\ \A v \in Threads : v # t => /\ Waitables(v)' = Waitables(v)
                                        /\ Sleeping(v)' => Sleeping(v)
                                        /\ \A d \in Events : (d # e \/ v # u) /\ Queued(v, d)
                                                               => Queued(v, d)'
<1> USE DEF Inv
<1>1. u # t
  BY DEF Queued, Live, Signaling
<1>2. /\ \A v \in Threads : v # u => sw'[v] = sw[v]
      /\ sw'[u].lock_ = sw[u].lock_ /\ sw[u].lock_ = NoThread
      /\ sw'[u].fired_
      /\ IF sw[u].fired_ THEN sw' = sw
         ELSE sw'[u].broadcast /\ sw'[u].signaling_event_ = e
  BY FireTypes
<1>3. thread'[u] = thread[u] /\ Phase(u) /\ Live(u)
  BY <1>1 DEF Phases, Queued
<1>4. Phase(u)'
  BY <1>2, <1>3 DEF Phase, Signaling, At, Live
<1>5. ~Sleeping(u)'
  BY <1>2 DEF Sleeping
<1>6. ASSUME NEW v \in Threads, v # t
      PROVE  /\ Waitables(v)' = Waitables(v)
             /\ Sleeping(v)' => Sleeping(v)
             /\ \A d \in Events : (d # e \/ v # u) /\ Queued(v, d) => Queued(v, d)'
  <2>1. thread'[v] = thread[v]
    BY <1>6
  <2>2. CASE v # u
    BY <1>2, <2>1, <2>2 DEF Waitables, Sleeping, Queued, Live, At
  <2>3. CASE v = u
    BY <1>2, <1>5, <2>1, <2>3 DEF Waitables, Queued, Live, At
  <2> QED
    BY <2>2, <2>3
<1> QED
  BY <1>1, <1>2, <1>4, <1>5, <1>6
\* Signal finds no waiter (left), or has gone through the whole list.
LEMMA SignalKeepSteps ==
  ASSUME Inv, Types', NEW t \in Threads, SignalOneNone(t) \/ SignalAllDone(t)
  PROVE  Inv'
<1> USE DEF Inv
<1> DEFINE e == thread[t].event
<1>1. /\ Signaling(t) /\ signaled_' = [signaled_ EXCEPT ![e] = TRUE]
      /\ lock_' = [lock_ EXCEPT ![e] = NoThread]
      /\ thread' = [thread EXCEPT ![t] = NoOperation] /\ sw' = sw
  BY DEF SignalOneNone, SignalAllDone, Signaling, At
<1>2. /\ e \in Events /\ lock_[e] = t /\ \A d \in Events : lock_[d] = t <=> d = e
      /\ ~Live(t) /\ ~Sleeping(t)
  BY <1>1, SignallerLock
<1>3. thread'[t] = NoOperation /\ \A u \in Threads : u # t => thread'[u] = thread[u]
  BY <1>1 DEF Types
<1>4. Phases'
  <2>1. sw[t] = NoWaiter
    BY <1>2 DEF Phases, Phase
  <2>2. Phase(t)'
    BY <1>1, <1>3, <2>1 DEF Phase, NoOperation, NoWaiter, Signaling, At, Live
  <2> QED
    BY <1>1, <1>3, <2>2, PhasesKept
<1>5. /\ ~Signaling(t)' /\ ~At(t, "EnqueueMany")' /\ ~At(t, "SignalAll")' /\ ~Sleeping(t)'
  BY <1>3 DEF Signaling, At, Sleeping, NoOperation
<1>6. /\ \A d \in Events : lock_'[d] = IF lock_[d] = t THEN NoThread ELSE lock_[d]
      /\ signaled_'[e] /\ \A d \in Events : d # e => signaled_'[d] = signaled_[d]
  <2> HIDE DEF e
  <2> QED
    BY <1>1, <1>2 DEF Types
<1>7. Locks'
  <2>1. \A d \in Events : lock_[d] # t /\ lock_[d] # NoThread => signaled_'[d] = signaled_[d]
    BY <1>2, <1>6
  <2> QED
    BY <1>3, <1>5, <1>6, <2>1, LocksReleased
<1>8. Lists'
  <2>1. CASE SignalOneNone(t)
    <3>1. waiters_' = waiters_ /\ waiters_[e] = <<>> /\ ~At(t, "SignalAll")
      BY <2>1 DEF SignalOneNone, At
    <3>2. \A d \in Events : \A i \in DOMAIN waiters_[d] : Passed(d, i)' <=> Passed(d, i)
      BY <1>3, <1>5, <1>6, <3>1, PassedKept
    <3>3. \A d \in Events : ~Queued(t, d)
      BY <1>2 DEF Queued
    <3>4. \A d \in Events : signaled_'[d] => signaled_[d] \/ waiters_[d] = <<>>
      BY <1>6, <3>1
    <3> QED
      BY <1>1, <1>3, <1>5, <3>1, <3>2, <3>3, <3>4, ListsKept
  <2>2. CASE SignalAllDone(t)
    <3>1. /\ At(t, "SignalAll") /\ thread[t].pos > Len(waiters_[e])
          /\ waiters_' = [waiters_ EXCEPT ![e] = <<>>]
      BY <2>2 DEF SignalAllDone
    <3>2. waiters_'[e] = <<>> /\ \A d \in Events : d # e => waiters_'[d] = waiters_[d]
      <4> HIDE DEF e
      <4> QED
        BY <1>2, <3>1 DEF Types
    <3>3. waiters_[e] \in Seq(Threads) /\ thread[t].pos \in Nat
      BY <1>2 DEF Types, Operation
    <3>4. \A i \in DOMAIN waiters_[e] : Passed(e, i)
      <4> TAKE i \in DOMAIN waiters_[e]
      <4>1. i < thread[t].pos
        BY <3>1, <3>3
      <4> QED
        BY <1>2, <3>1, <4>1 DEF Passed
    <3>5. \A u \in Threads : Sleeping(u) => e \notin Waitables(u)
      <4> SUFFICES ASSUME NEW u \in Threads, Sleeping(u), e \in Waitables(u) PROVE FALSE
        OBVIOUS
      <4>1. PICK i \in DOMAIN waiters_[e] : waiters_[e][i] = u
        BY DEF Lists, Range
      <4> QED
        BY <1>2, <3>4, <4>1 DEF Lists
    <3>6. ASSUME NEW u \in Threads, u # t
          PROVE  /\ Sleeping(u)' = Sleeping(u) /\ Waitables(u)' = Waitables(u)
                 /\ \A d \in Events : Queued(u, d)' = Queued(u, d)
      <4>1. thread'[u] = thread[u] /\ sw'[u] = sw[u]
        BY <1>1, <1>3, <3>6
      <4> QED
        BY <4>1 DEF Sleeping, Waitables, Queued, Live, At
    <3>7. ASSUME NEW d \in Events, d # e, NEW i PROVE Passed(d, i)' <=> Passed(d, i)
      <4>1. lock_'[d] = lock_[d] /\ lock_[d] # t
        BY <1>2, <1>6, <3>7
      <4>2. \A s \in Threads : lock_[d] = s => thread'[s] = thread[s]
        BY <1>3, <4>1
      <4> QED
        BY <4>1, <4>2 DEF Passed, At
    <3>8. \A d \in Events : IsInjective(waiters_'[d])
      BY <3>2 DEF Lists, IsInjective
    <3>9. ASSUME NEW d \in Events, NEW i \in DOMAIN waiters_'[d], NEW u \in Threads,
                 u = waiters_'[d][i]
          PROVE  /\ Passed(d, i)' \/ Queued(u, d)'
                 /\ Passed(d, i)' => ~(Sleeping(u)' /\ d \in Waitables(u)')
      <4>1. d # e /\ i \in DOMAIN waiters_[d] /\ u = waiters_[d][i]
        BY <3>2, <3>9
      <4>2. /\ Passed(d, i) \/ Queued(u, d)
            /\ Passed(d, i) => ~(Sleeping(u) /\ d \in Waitables(u))
        BY <4>1 DEF Lists
      <4>3. Queued(u, d) => u # t
        BY <1>2 DEF Queued
      <4> QED
        BY <1>5, <3>6, <3>7, <4>1, <4>2, <4>3
    <3>10. ASSUME NEW u \in Threads, Sleeping(u)', NEW d \in Waitables(u)'
           PROVE  ~signaled_'[d] /\ u \in Range(waiters_'[d])
      <4>1. u # t /\ Sleeping(u) /\ d \in Waitables(u)
        BY <1>5, <3>6, <3>10
      <4>2. d \in Events /\ d # e /\ ~signaled_[d] /\ u \in Range(waiters_[d])
        BY <3>5, <4>1, WaitablesType DEF Lists
      <4> QED
        BY <1>6, <3>2, <4>2
    <3> QED
      BY <3>8, <3>9, <3>10, ListsPrime
  <2> QED
    BY <2>1, <2>2
<1> QED
  BY <1>4, <1>7, <1>8
\* SignalOne fires the first waiter of the list.
LEMMA SignalOneFireStep ==
  ASSUME Inv, Types', NEW t \in Threads, SignalOneFire(t)
  PROVE  Inv'
<1> USE DEF Inv
<1>a. Signaling(t)
  BY DEF SignalOneFire, Signaling, At
<1>b. PICK e \in Events : e = thread[t].event
  BY <1>a, SignallerLock
<1>c. PICK u \in Threads : u = Head(waiters_[e])
  <2>1. waiters_[e] \in Seq(Threads) /\ IsInjective(waiters_[e]) /\ waiters_[e] # <<>>
    BY <1>b DEF Types, Lists, SignalOneFire
  <2> QED
    BY <2>1, PopList
<1>1. /\ At(t, "SignalOne") /\ waiters_[e] # <<>> /\ Fire(u, e)
      /\ waiters_' = [waiters_ EXCEPT ![e] = Tail(@)] /\ signaled_' = signaled_
      /\ IF sw[u].fired_ THEN UNCHANGED <<lock_, thread>>
         ELSE /\ lock_' = [lock_ EXCEPT ![e] = NoThread]
              /\ thread' = [thread EXCEPT ![t] = NoOperation]
  BY <1>b, <1>c DEF SignalOneFire
<1>2. /\ e \in Events /\ lock_[e] = t /\ \A d \in Events : lock_[d] = t <=> d = e
      /\ ~Live(t) /\ ~Sleeping(t)
  BY <1>a, <1>b, SignallerLock
<1>3. /\ waiters_[e] \in Seq(Threads) /\ IsInjective(waiters_[e])
      /\ Tail(waiters_[e]) \in Seq(Threads) /\ IsInjective(Tail(waiters_[e]))
      /\ 1 \in DOMAIN waiters_[e] /\ u = waiters_[e][1] /\ u \in Threads
      /\ Range(Tail(waiters_[e])) = Range(waiters_[e]) \ {u}
      /\ \A i \in DOMAIN Tail(waiters_[e]) :
           i + 1 \in DOMAIN waiters_[e] /\ Tail(waiters_[e])[i] = waiters_[e][i + 1]
  <2>1. waiters_[e] \in Seq(Threads) /\ IsInjective(waiters_[e])
    BY <1>2 DEF Types, Lists
  <2> QED
    BY <1>1, <1>c, <2>1, PopList
<1>4. \A i : ~Passed(e, i)
  BY <1>1, <1>2 DEF Passed, At
<1>5. Queued(u, e)
  BY <1>2, <1>3, <1>4 DEF Lists
<1>6. /\ \A v \in Threads : v # t => thread'[v] = thread[v]
      /\ waiters_'[e] = Tail(waiters_[e])
      /\ \A d \in Events : d # e => waiters_'[d] = waiters_[d]
      /\ sw[u].fired_ => thread'[t] = thread[t]
      /\ ~sw[u].fired_ => thread'[t] = NoOperation
      /\ ~sw[u].fired_ => \A d \in Events : lock_'[d] = IF lock_[d] = t THEN NoThread ELSE lock_[d]
      /\ ~At(t, "SignalAll") /\ ~At(t, "SignalAll")' /\ ~Sleeping(t)'
  <2>1. /\ \A v \in Threads : v # t => thread'[v] = thread[v]
        /\ waiters_'[e] = Tail(waiters_[e])
        /\ \A d \in Events : d # e => waiters_'[d] = waiters_[d]
        /\ sw[u].fired_ => thread'[t] = thread[t]
        /\ ~sw[u].fired_ => thread'[t] = NoOperation
    BY <1>1, <1>2 DEF Types
  <2>2. ~sw[u].fired_ => \A d \in Events : lock_'[d] = IF lock_[d] = t THEN NoThread ELSE lock_[d]
    BY <1>1, <1>2 DEF Types
  <2>3. ~At(t, "SignalAll") /\ ~At(t, "SignalAll")' /\ ~Sleeping(t)'
    BY <1>1, <2>1 DEF At, Sleeping, NoOperation
  <2> QED
    BY <2>1, <2>2, <2>3
<1>7. /\ u # t
      /\ \A v \in Threads : v # t /\ v # u => thread'[v] = thread[v] /\ sw'[v] = sw[v]
      /\ sw'[t] = sw[t]
      /\ Phase(u)' /\ ~Sleeping(u)'
      /\ \A v \in Threads : v # t => /\ Waitables(v)' = Waitables(v)
                                     /\ Sleeping(v)' => Sleeping(v)
                                     /\ \A d \in Events : (d # e \/ v # u) /\ Queued(v, d)
                                                            => Queued(v, d)'
  BY <1>1, <1>a, <1>5, <1>6, FireEffect
<1>8. Phases'
  <2>1. sw[t] = NoWaiter
    BY <1>2 DEF Phases, Phase
  <2>2. thread'[t] = NoOperation => Phase(t)'
    BY <1>7, <2>1 DEF Phase, NoOperation, NoWaiter, Signaling, At, Live
  <2> QED
    BY <1>6, <1>7, <2>2, PhasesKept
<1>9. Locks'
  <2>1. CASE sw[u].fired_
    <3>1. UNCHANGED <<lock_, thread, signaled_>>
      BY <1>1, <2>1
    <3> QED
      BY <3>1 DEF Locks, Signaling, At, Waitables, Locked
  <2>2. CASE ~sw[u].fired_
    <3>1. ~Signaling(t)' /\ ~At(t, "EnqueueMany")'
      BY <1>6, <2>2 DEF Signaling, At, NoOperation
    <3> QED
      BY <1>1, <1>6, <2>2, <3>1, LocksReleased
  <2> QED
    BY <2>1, <2>2
<1>10. Lists'
  <2>1. \A d \in Events : \A i : Passed(d, i)' <=> Passed(d, i)
    <3>1. \A d \in Events : lock_'[d] # lock_[d] => lock_[d] \in {t, NoThread} /\ lock_'[d] \in {t, NoThread}
      BY <1>1, <1>6
    <3> QED
      BY <1>6, <3>1, PassedKept
  <2>2. \A d \in Events : IsInjective(waiters_'[d])
    BY <1>3, <1>6 DEF Lists
  <2>3. ASSUME NEW d \in Events, NEW i \in DOMAIN waiters_'[d], NEW v \in Threads,
               v = waiters_'[d][i]
        PROVE  /\ Passed(d, i)' \/ Queued(v, d)'
               /\ Passed(d, i)' => ~(Sleeping(v)' /\ d \in Waitables(v)')
    <3>1. CASE d = e
      <4>1. i \in DOMAIN Tail(waiters_[e]) /\ v = Tail(waiters_[e])[i]
        BY <1>6, <2>3, <3>1
      <4>2. i + 1 \in DOMAIN waiters_[e] /\ v = waiters_[e][i + 1] /\ v \in Range(Tail(waiters_[e]))
        BY <1>3, <4>1 DEF Range
      <4>3. Queued(v, e) /\ v # u
        BY <1>2, <1>3, <1>4, <4>2 DEF Lists
      <4>4. v # t
        BY <1>2, <4>3 DEF Queued
      <4>5. ~Passed(d, i)'
        BY <1>4, <2>1, <3>1
      <4> QED
        BY <1>7, <3>1, <4>3, <4>4, <4>5
    <3>2. CASE d # e
      <4>1. i \in DOMAIN waiters_[d] /\ v = waiters_[d][i]
        BY <1>6, <2>3, <3>2
      <4>2. /\ Passed(d, i) \/ Queued(v, d)
            /\ Passed(d, i) => ~(Sleeping(v) /\ d \in Waitables(v))
        BY <4>1 DEF Lists
      <4>3. Queued(v, d) => v # t
        BY <1>2 DEF Queued
      <4> QED
        BY <1>6, <1>7, <2>1, <3>2, <4>2, <4>3
    <3> QED
      BY <3>1, <3>2
  <2>4. ASSUME NEW v \in Threads, Sleeping(v)', NEW d \in Waitables(v)'
        PROVE  ~signaled_'[d] /\ v \in Range(waiters_'[d])
    <3>1. v # t /\ v # u /\ Sleeping(v) /\ d \in Waitables(v)
      BY <1>6, <1>7, <2>4
    <3>2. d \in Events /\ ~signaled_[d] /\ v \in Range(waiters_[d])
      BY <3>1, WaitablesType DEF Lists
    <3> QED
      BY <1>1, <1>3, <1>6, <3>1, <3>2
  <2> QED
    BY <2>2, <2>3, <2>4, ListsPrime
<1> QED
  BY <1>8, <1>9, <1>10

\* SignalAll fires the next waiter of the list.
LEMMA SignalAllFireStep ==
  ASSUME Inv, Types', NEW t \in Threads, SignalAllFire(t)
  PROVE  Inv'
<1> USE DEF Inv
<1>a. Signaling(t) /\ At(t, "SignalAll") /\ thread[t] \in Operation
  BY DEF SignalAllFire, Signaling, At, Types
<1>b. PICK e \in Events : e = thread[t].event
  BY <1>a, SignallerLock
<1>c. PICK p \in Nat : p = thread[t].pos /\ p >= 1
  BY <1>a DEF Operation, Phases, Phase
<1>d. PICK u \in Threads : u = waiters_[e][p]
  <2>1. waiters_[e] \in Seq(Threads) /\ p <= Len(waiters_[e])
    BY <1>b, <1>c DEF Types, SignalAllFire
  <2> QED
    BY <1>c, <2>1
<1>1. /\ At(t, "SignalAll") /\ p <= Len(waiters_[e]) /\ Fire(u, e)
      /\ waiters_' = waiters_ /\ signaled_' = signaled_ /\ lock_' = lock_
      /\ thread' = [thread EXCEPT ![t].pos = @ + 1]
  BY <1>b, <1>c, <1>d DEF SignalAllFire
<1>2. /\ e \in Events /\ lock_[e] = t /\ \A d \in Events : lock_[d] = t <=> d = e
      /\ ~Live(t) /\ ~Sleeping(t)
  BY <1>a, <1>b, SignallerLock
<1>3. waiters_[e] \in Seq(Threads) /\ p \in DOMAIN waiters_[e]
  <2>1. waiters_[e] \in Seq(Threads)
    BY DEF Types
  <2> QED
    BY <1>1, <1>c, <2>1
<1>4. ~Passed(e, p)
  BY <1>2, <1>c DEF Passed
<1>5. Queued(u, e)
  BY <1>3, <1>4, <1>d DEF Lists
<1>6. /\ \A v \in Threads : v # t => thread'[v] = thread[v]
      /\ thread'[t].pc = "SignalAll" /\ thread'[t].event = e /\ thread'[t].pos = p + 1
      /\ thread'[t].raw = thread[t].raw
  BY <1>1, <1>a, <1>b, <1>c DEF Types, Operation, At
<1>7. /\ u # t
      /\ \A v \in Threads : v # t /\ v # u => thread'[v] = thread[v] /\ sw'[v] = sw[v]
      /\ sw'[t] = sw[t]
      /\ Phase(u)' /\ ~Sleeping(u)'
      /\ \A v \in Threads : v # t => /\ Waitables(v)' = Waitables(v)
                                     /\ Sleeping(v)' => Sleeping(v)
                                     /\ \A d \in Events : (d # e \/ v # u) /\ Queued(v, d)
                                                            => Queued(v, d)'
  BY <1>1, <1>a, <1>5, <1>6, FireEffect
<1>8. Phases'
  <2>1. Phase(t) /\ p + 1 >= 1
    BY <1>c DEF Phases
  <2>2. Phase(t)'
    BY <1>1, <1>6, <1>7, <1>b, <2>1 DEF Phase, Signaling, At, Live
  <2> QED
    BY <1>6, <1>7, <2>2, PhasesKept
<1>9. Locks'
  <2>1. \A v \in Threads : /\ thread'[v].pc = thread[v].pc /\ thread'[v].event = thread[v].event
                           /\ thread'[v].raw = thread[v].raw
    BY <1>1, <1>6, <1>b DEF At
  <2>2. \A v \in Threads : /\ Signaling(v)' = Signaling(v) /\ Waitables(v)' = Waitables(v)
                           /\ At(v, "EnqueueMany")' = At(v, "EnqueueMany")
                           /\ Locked(v)' = Locked(v)
    BY <1>1, <2>1 DEF Signaling, Waitables, At, Locked
  <2>3. ASSUME NEW d \in Events, lock_[d] # NoThread
        PROVE  (/\ ~signaled_[d]
                /\ \/ Signaling(lock_[d]) /\ thread[lock_[d]].event = d
                   \/ At(lock_[d], "EnqueueMany") /\ d \in Waitables(lock_[d]))'
    <3>1. lock_[d] \in Threads /\ lock_'[d] = lock_[d]
      BY <1>1, <2>3 DEF Types
    <3>2. /\ ~signaled_[d]
          /\ \/ Signaling(lock_[d]) /\ thread[lock_[d]].event = d
             \/ At(lock_[d], "EnqueueMany") /\ d \in Waitables(lock_[d])
      BY <2>3 DEF Locks
    <3> QED
      BY <1>1, <2>1, <3>1, <3>2 DEF Signaling, Waitables, At
  <2>4. \A v \in Threads : Signaling(v)' => lock_'[thread'[v].event] = v
    BY <1>1, <2>1, <2>2 DEF Locks
  <2>5. ASSUME NEW v \in Threads, At(v, "EnqueueMany")'
        PROVE  /\ Waitables(v)' \ Locked(v)' # {}
               /\ \A d \in Locked(v)', c \in Waitables(v)' \ Locked(v)' : d < c
    BY <2>2, <2>5 DEF Locks
  <2> QED
    BY <1>1, <2>3, <2>4, <2>5 DEF Locks, Locked, Waitables, At, Signaling
<1>10. Lists'
  <2>1. ASSUME NEW d \in Events, d # e, NEW i PROVE Passed(d, i)' <=> Passed(d, i)
    <3>1. lock_'[d] = lock_[d] /\ lock_[d] # t
      BY <1>1, <1>2, <2>1
    <3>2. \A s \in Threads : lock_[d] = s => thread'[s] = thread[s]
      BY <1>6, <3>1
    <3> QED
      BY <3>1, <3>2 DEF Passed, At
  <2>2. ASSUME NEW i \in DOMAIN waiters_[e] PROVE Passed(e, i)' <=> Passed(e, i) \/ i = p
    <3>1. (i < p + 1) <=> (i < p \/ i = p)
      BY <1>3, <1>c
    <3>2. (Passed(e, i) <=> i < p) /\ (Passed(e, i)' <=> i < p + 1)
      BY <1>1, <1>2, <1>6, <1>c DEF Passed, At
    <3> QED
      BY <3>1, <3>2
  <2>3. \A d \in Events : IsInjective(waiters_'[d])
    BY <1>1 DEF Lists
  <2>4. ASSUME NEW d \in Events, NEW i \in DOMAIN waiters_'[d], NEW v \in Threads,
               v = waiters_'[d][i]
        PROVE  /\ Passed(d, i)' \/ Queued(v, d)'
               /\ Passed(d, i)' => ~(Sleeping(v)' /\ d \in Waitables(v)')
    <3>1. i \in DOMAIN waiters_[d] /\ v = waiters_[d][i]
      BY <1>1, <2>4
    <3>2. /\ Passed(d, i) \/ Queued(v, d)
          /\ Passed(d, i) => ~(Sleeping(v) /\ d \in Waitables(v))
      BY <3>1 DEF Lists
    <3>3. (Queued(v, d) => v # t) /\ ~Sleeping(t)'
      BY <1>2, <1>6 DEF Queued, Sleeping
    <3>4. CASE d # e
      BY <1>7, <2>1, <3>2, <3>3, <3>4
    <3>5. CASE d = e /\ i = p
      BY <1>7, <1>d, <2>2, <3>1, <3>5
    <3>6. CASE d = e /\ i # p
      <4>1. v # u
        BY <1>3, <1>d, <3>1, <3>6 DEF Lists, IsInjective
      <4> QED
        BY <1>7, <2>2, <3>1, <3>2, <3>3, <3>6, <4>1
    <3> QED
      BY <3>4, <3>5, <3>6
  <2>5. ASSUME NEW v \in Threads, Sleeping(v)', NEW d \in Waitables(v)'
        PROVE  ~signaled_'[d] /\ v \in Range(waiters_'[d])
    <3>1. v # t /\ Sleeping(v) /\ d \in Waitables(v)
      BY <1>6, <1>7, <2>5 DEF Sleeping
    <3> QED
      BY <1>1, <3>1 DEF Lists
  <2> QED
    BY <2>3, <2>4, <2>5, ListsPrime
<1> QED
  BY <1>8, <1>9, <1>10
\* Reset, and the calls that find the event signaled.
LEMMA FlagSteps ==
  ASSUME Inv, Types', NEW t \in Threads, NEW e \in Events,
         Reset(t, e) \/ IsSignaled(t, e) \/ TimedWaitSignaled(t, e)
  PROVE  Inv'
<1> USE DEF Inv
<1>1. /\ UNCHANGED <<lock_, waiters_, sw, thread>> /\ At(t, "idle")
      /\ \A d \in Events : signaled_'[d] => signaled_[d]
  BY DEF Reset, IsSignaled, TimedWaitSignaled, Consume, Call, Types
<1>2. Phases'
  BY <1>1, PhasesKept
<1>3. ~Signaling(t) /\ ~At(t, "EnqueueMany") /\ ~Sleeping(t) /\ ~At(t, "SignalAll")
  BY <1>1 DEF Signaling, Sleeping, At
<1>4. Locks'
  <2>1. ~Signaling(t)' /\ ~At(t, "EnqueueMany")' /\ \A d \in Events : lock_[d] # NoThread => ~signaled_'[d]
    BY <1>1, <1>3 DEF Signaling, At, Locks
  <2> QED
    BY <1>1, <1>3, <2>1, LocksKept
<1>5. Lists'
  <2>1. \A d \in Events : \A i \in DOMAIN waiters_[d] : Passed(d, i)' <=> Passed(d, i)
    BY <1>1 DEF Passed, At
  <2>2. /\ \A d \in Events : Queued(t, d) => Queued(t, d)'
        /\ Sleeping(t)' => Sleeping(t) /\ Waitables(t)' = Waitables(t)
    BY <1>1 DEF Queued, Sleeping, Waitables, Live, At
  <2> QED
    BY <1>1, <2>1, <2>2, ListsKept
<1> QED
  BY <1>2, <1>4, <1>5

\* Signal and WaitMany begin.
LEMMA BeginSteps ==
  ASSUME Inv, Types', NEW t \in Threads,
         (\E e \in Events : Signal(t, e)) \/ (\E raw \in WaitLists : WaitMany(t, raw))
  PROVE  Inv'
<1> USE DEF Inv
<1>1. /\ At(t, "idle") /\ UNCHANGED <<signaled_, waiters_, sw>>
      /\ \A u \in Threads : u # t => thread'[u] = thread[u]
  BY DEF Signal, WaitMany, Call, Types
<1>2. ~Signaling(t) /\ ~At(t, "EnqueueMany") /\ ~Live(t) /\ ~At(t, "SignalAll") /\ sw[t] = NoWaiter
  BY <1>1 DEF Signaling, At, Live, Phases, Phase
<1>3. \A d \in Events : lock_[d] # t
  BY <1>2, ConstantsAssumption DEF ConstantsAssumption, Locks
<1>4. ASSUME NEW pc, thread'[t].pc = pc, pc \in {"SignalOne", "SignalAll", "EnqueueMany"},
             \A d \in Events : \A i \in DOMAIN waiters_[d] : Passed(d, i)' <=> Passed(d, i)
      PROVE  Lists'
  <2>1. \A d \in Events : ~Queued(t, d)
    BY <1>2 DEF Queued
  <2>2. ~Sleeping(t)'
    BY <1>4 DEF Sleeping
  <2> QED
    BY <1>1, <1>4, <2>1, <2>2, ListsKept
<1>5. CASE \E e \in Events : Signal(t, e)
  <2>1. PICK e \in Events : Signal(t, e)
    BY <1>5
  <2> DEFINE pc == IF e \in ManualReset THEN "SignalAll" ELSE "SignalOne"
             r == [NoOperation EXCEPT !.pc = pc, !.event = e, !.pos = 1]
  <2>2. r.pc = pc /\ r.event = e /\ r.pos = 1 /\ thread'[t] = r
    BY <2>1 DEF Signal, NoOperation, Types
  <2>3. /\ lock_[e] = NoThread /\ ~signaled_[e] /\ lock_'[e] = t
        /\ \A d \in Events : d # e => lock_'[d] = lock_[d]
    BY <2>1 DEF Signal, Types
  <2>4. pc \in {"SignalOne", "SignalAll"} /\ (e \in ManualReset <=> pc = "SignalAll")
    OBVIOUS
  <2> HIDE DEF r, pc
  <2>5. Phases'
    <3>1. Phase(t)'
      BY <1>1, <1>2, <2>2, <2>4 DEF Phase, NoWaiter, Signaling, At, Live
    <3> QED
      BY <1>1, <3>1, PhasesKept
  <2>6. Locks'
    <3>1. ASSUME NEW d \in Events, NEW u \in Threads, u = lock_'[d]
          PROVE  /\ ~signaled_'[d]
                 /\ \/ Signaling(u)' /\ thread'[u].event = d
                    \/ At(u, "EnqueueMany")' /\ d \in Waitables(u)'
      <4>1. CASE d = e
        BY <1>1, <2>2, <2>3, <2>4, <3>1, <4>1 DEF Signaling
      <4>2. CASE d # e
        <5>1. u = lock_[d] /\ u # t /\ u # NoThread /\ thread'[u] = thread[u]
          BY <1>1, <1>3, <2>3, <3>1, <4>2, ConstantsAssumption DEF ConstantsAssumption
        <5> QED
          BY <1>1, <5>1 DEF Locks, Signaling, At, Waitables
      <4> QED
        BY <4>1, <4>2
    <3>2. ASSUME NEW d \in Events, lock_'[d] # NoThread
          PROVE  (/\ ~signaled_[d]
                  /\ \/ Signaling(lock_[d]) /\ thread[lock_[d]].event = d
                     \/ At(lock_[d], "EnqueueMany") /\ d \in Waitables(lock_[d]))'
      <4>1. PICK u \in Threads : u = lock_'[d]
        BY <3>2 DEF Types
      <4> QED
        BY <3>1, <4>1 DEF Signaling, At, Waitables
    <3>3. ASSUME NEW u \in Threads, Signaling(u)' PROVE lock_'[thread'[u].event] = u
      <4>1. CASE u = t
        BY <2>2, <2>3, <4>1
      <4>2. CASE u # t
        <5>1. thread'[u] = thread[u] /\ Signaling(u)
          BY <1>1, <3>3, <4>2 DEF Signaling
        <5>2. thread[u].event \in Events /\ lock_[thread[u].event] = u
          BY <5>1, SignallerLock
        <5>3. thread[u].event # e
          BY <2>3, <5>2, ConstantsAssumption DEF ConstantsAssumption
        <5> QED
          BY <2>3, <5>1, <5>2, <5>3
      <4> QED
        BY <4>1, <4>2
    <3>4. ASSUME NEW u \in Threads, At(u, "EnqueueMany")'
          PROVE  /\ Waitables(u)' \ Locked(u)' # {}
                 /\ \A d \in Locked(u)', c \in Waitables(u)' \ Locked(u)' : d < c
      <4>1. u # t
        BY <2>2, <2>4, <3>4 DEF At
      <4>2. thread'[u] = thread[u] /\ At(u, "EnqueueMany")
        BY <1>1, <3>4, <4>1 DEF At
      <4>3. Locked(u)' = Locked(u) /\ Waitables(u)' = Waitables(u)
        <5>1. NoThread # u
          BY ConstantsAssumption DEF ConstantsAssumption
        <5> QED
          BY <2>3, <4>1, <4>2, <5>1 DEF Locked, Waitables
      <4> QED
        BY <4>2, <4>3 DEF Locks
    <3> QED
      BY <3>2, <3>3, <3>4 DEF Locks, Locked, Waitables, At, Signaling
  <2>7. \A d \in Events : \A i \in DOMAIN waiters_[d] : Passed(d, i)' <=> Passed(d, i)
    <3> SUFFICES ASSUME NEW d \in Events, NEW i \in DOMAIN waiters_[d]
                 PROVE  Passed(d, i)' <=> Passed(d, i)
      OBVIOUS
    <3>1. CASE d = e
      <4>1. waiters_[e] \in Seq(Threads)
        BY DEF Types
      <4>2. ~(i < 1)
        BY <3>1, <4>1
      <4>3. ~Passed(e, i)
        BY <2>3, ConstantsAssumption DEF ConstantsAssumption, Passed
      <4>4. ~Passed(e, i)'
        BY <2>2, <2>3, <4>2 DEF Passed
      <4> QED
        BY <3>1, <4>3, <4>4
    <3>2. CASE d # e
      <4>1. \A s \in Threads : lock_'[d] = s => lock_[d] = s /\ thread'[s] = thread[s]
        BY <1>1, <1>3, <2>3, <3>2
      <4>2. \A s \in Threads : lock_[d] = s => lock_'[d] = s /\ thread'[s] = thread[s]
        BY <1>1, <1>3, <2>3, <3>2
      <4> QED
        BY <4>1, <4>2 DEF Passed, At
    <3> QED
      BY <3>1, <3>2
  <2> QED
    BY <1>4, <2>2, <2>4, <2>5, <2>6, <2>7
<1>6. CASE \E raw \in WaitLists : WaitMany(t, raw)
  <2>1. PICK raw \in WaitLists : WaitMany(t, raw)
    BY <1>6
  <2> DEFINE r == [NoOperation EXCEPT !.pc = "EnqueueMany", !.raw = raw, !.many = TRUE]
  <2>2. /\ r.pc = "EnqueueMany" /\ r.raw = raw /\ r.many /\ ~r.finite /\ r.event = NoEvent
        /\ thread'[t] = r /\ lock_' = lock_
    BY <2>1 DEF WaitMany, NoOperation, Types
  <2>3. raw \in Seq(Events) /\ raw # <<>> /\ Range(raw) # {}
    <3>1. raw \in Seq(Events) /\ raw # <<>>
      BY ConstantsAssumption DEF ConstantsAssumption
    <3>2. 1 \in DOMAIN raw
      BY <3>1
    <3> QED
      BY <3>1, <3>2 DEF Range
  <2> HIDE DEF r
  <2>4. Phases'
    <3>1. Phase(t)'
      BY <1>1, <1>2, <2>2, <2>3 DEF Phase, NoWaiter, Signaling, At, Live
    <3> QED
      BY <1>1, <3>1, PhasesKept
  <2>5. Locks'
    <3>1. ~Signaling(t)' /\ Waitables(t)' # {}
      BY <2>2, <2>3 DEF Signaling, Waitables
    <3>2. \A d \in Events : lock_[d] # NoThread => ~signaled_'[d]
      BY <1>1 DEF Locks
    <3> QED
      BY <1>1, <1>2, <2>2, <3>1, <3>2, LocksKept
  <2>6. \A d \in Events : \A i \in DOMAIN waiters_[d] : Passed(d, i)' <=> Passed(d, i)
    <3>1. ~At(t, "SignalAll")'
      BY <2>2 DEF At
    <3> QED
      BY <1>1, <1>2, <2>2, <3>1, PassedKept
  <2> QED
    BY <1>4, <2>2, <2>4, <2>5, <2>6
<1> QED
  BY <1>5, <1>6
\* A waiter joins the lists of events that are not signaled and that no other
\* thread has locked.
LEMMA ListsJoined ==
  ASSUME Types, Types', Lists, NEW t \in Threads, NEW W \in SUBSET Events,
         ~Live(t), ~At(t, "SignalAll"), thread'[t].pc = "check",
         sw'[t] = [NoWaiter EXCEPT !.lock_ = t], Waitables(t)' = W,
         \A u \in Threads : u # t => thread'[u] = thread[u] /\ sw'[u] = sw[u],
         signaled_' = signaled_,
         \A d \in W : /\ lock_[d] \in {t, NoThread} /\ ~signaled_[d]
                      /\ waiters_'[d] = Enqueue(waiters_[d], t),
         \A d \in Events : d \notin W => waiters_'[d] = waiters_[d],
         \A d \in Events :
           lock_'[d] # lock_[d] => lock_[d] \in {t, NoThread} /\ lock_'[d] \in {t, NoThread}
  PROVE  Lists'
<1>1. ~At(t, "SignalAll")' /\ sw'[t].signaling_event_ = NoEvent /\ ~sw'[t].fired_
  BY DEF At, NoWaiter
<1>2. ASSUME NEW u \in Threads, u # t
      PROVE  /\ Sleeping(u)' = Sleeping(u) /\ Waitables(u)' = Waitables(u)
             /\ \A d \in Events : Queued(u, d)' = Queued(u, d)
  <2>1. thread'[u] = thread[u] /\ sw'[u] = sw[u]
    BY <1>2
  <2> QED
    BY <2>1 DEF Sleeping, Waitables, Queued, Live, At
<1>3. \A d \in Events : \A i : Passed(d, i)' <=> Passed(d, i)
  BY <1>1, PassedKept
<1>4. \A d \in Events : ~Queued(t, d)
  BY DEF Queued
<1>5. \A d \in W : Queued(t, d)'
  <2>1. NoEvent \notin Events
    BY ConstantsAssumption DEF ConstantsAssumption
  <2> QED
    BY <1>1, <2>1 DEF Queued, Live, At
<1>6. ASSUME NEW d \in W
      PROVE  /\ \A i : ~Passed(d, i)
             /\ \A i \in DOMAIN waiters_[d] : Queued(waiters_[d][i], d) /\ waiters_[d][i] # t
             /\ t \notin Range(waiters_[d])
  <2>1. \A i : ~Passed(d, i)
    BY <1>6, ConstantsAssumption DEF ConstantsAssumption, Passed
  <2>2. \A i \in DOMAIN waiters_[d] : Queued(waiters_[d][i], d)
    BY <2>1 DEF Lists
  <2>3. \A i \in DOMAIN waiters_[d] : waiters_[d][i] # t
    BY <1>4, <2>2
  <2> QED
    BY <2>1, <2>2, <2>3 DEF Range
<1>7. ASSUME NEW d \in W
      PROVE  /\ Range(waiters_'[d]) = Range(waiters_[d]) \cup {t}
             /\ IsInjective(waiters_'[d])
             /\ \A i \in DOMAIN waiters_'[d] :
                  \/ waiters_'[d][i] = t
                  \/ i \in DOMAIN waiters_[d] /\ waiters_'[d][i] = waiters_[d][i]
  <2>1. waiters_[d] \in Seq(Threads) /\ IsInjective(waiters_[d]) /\ t \notin Range(waiters_[d])
    BY <1>6, <1>7 DEF Types, Lists
  <2>2. waiters_'[d] = Enqueue(waiters_[d], t)
    BY <1>7
  <2> QED
    BY <2>1, <2>2, JoinedList
<1>8. \A d \in Events : IsInjective(waiters_'[d])
  BY <1>7 DEF Lists
<1>9. ASSUME NEW d \in Events, NEW i \in DOMAIN waiters_'[d], NEW v \in Threads,
             v = waiters_'[d][i]
      PROVE  /\ Passed(d, i)' \/ Queued(v, d)'
             /\ Passed(d, i)' => ~(Sleeping(v)' /\ d \in Waitables(v)')
  <2>1. CASE d \in W
    <3>1. Queued(v, d)'
      BY <1>2, <1>5, <1>6, <1>7, <1>9, <2>1
    <3> QED
      BY <1>3, <1>6, <2>1, <3>1
  <2>2. CASE d \notin W
    <3>1. i \in DOMAIN waiters_[d] /\ v = waiters_[d][i]
      BY <1>9, <2>2
    <3>2. /\ Passed(d, i) \/ Queued(v, d)
          /\ Passed(d, i) => ~(Sleeping(v) /\ d \in Waitables(v))
      BY <3>1 DEF Lists
    <3> QED
      BY <1>2, <1>3, <1>4, <2>2, <3>2
  <2> QED
    BY <2>1, <2>2
<1>10. ASSUME NEW v \in Threads, Sleeping(v)', NEW d \in Waitables(v)'
       PROVE  ~signaled_'[d] /\ v \in Range(waiters_'[d])
  <2>1. CASE v = t
    BY <1>7, <1>10, <2>1
  <2>2. CASE v # t
    <3>1. Sleeping(v) /\ d \in Waitables(v)
      BY <1>2, <1>10, <2>2
    <3>2. d \in Events /\ ~signaled_[d] /\ v \in Range(waiters_[d])
      BY <3>1, WaitablesType DEF Lists
    <3> QED
      BY <1>7, <3>2
  <2> QED
    BY <2>1, <2>2
<1> QED
  BY <1>8, <1>9, <1>10, ListsPrime

\* TimedWait enqueues its waiter.
LEMMA TimedWaitEnqueueStep ==
  ASSUME Inv, Types', NEW t \in Threads, NEW e \in Events, NEW finite \in BOOLEAN,
         TimedWaitEnqueue(t, e, finite)
  PROVE  Inv'
<1> USE DEF Inv
<1> DEFINE r == [NoOperation EXCEPT !.pc = "check", !.raw = <<e>>, !.finite = finite]
           w == [NoWaiter EXCEPT !.lock_ = t]
<1>1. /\ At(t, "idle") /\ lock_[e] = NoThread /\ ~signaled_[e]
      /\ lock_' = lock_ /\ signaled_' = signaled_
      /\ waiters_' = [waiters_ EXCEPT ![e] = Enqueue(@, t)]
      /\ sw' = [sw EXCEPT ![t] = w] /\ thread' = [thread EXCEPT ![t] = r]
  BY DEF TimedWaitEnqueue, Call
<1>2. r.pc = "check" /\ r.raw = <<e>> /\ ~r.many /\ r.event = NoEvent
  BY DEF NoOperation
<1>3. w.lock_ = t /\ ~w.fired_
  BY DEF NoWaiter
<1> HIDE DEF r
<1>4. /\ thread'[t] = r /\ sw'[t] = w
      /\ \A u \in Threads : u # t => thread'[u] = thread[u] /\ sw'[u] = sw[u]
      /\ waiters_'[e] = Enqueue(waiters_[e], t)
      /\ \A d \in Events : d # e => waiters_'[d] = waiters_[d]
  <2> HIDE DEF w
  <2> QED
    BY <1>1 DEF Types
<1>5. Phases'
  <2>1. <<e>> # <<>> /\ Len(<<e>>) = 1
    OBVIOUS
  <2> HIDE DEF w
  <2>2. Phase(t)'
    BY <1>2, <1>3, <1>4, <2>1 DEF Phase, Signaling, At, Live
  <2> QED
    BY <1>4, <2>2, PhasesKept
<1>6. Locks'
  <2>1. ~Signaling(t) /\ ~At(t, "EnqueueMany") /\ ~Signaling(t)' /\ ~At(t, "EnqueueMany")'
    BY <1>1, <1>2, <1>4 DEF Signaling, At
  <2>2. \A d \in Events : lock_[d] # NoThread => ~signaled_'[d]
    BY <1>1 DEF Locks
  <2> QED
    BY <1>1, <1>4, <2>1, <2>2, LocksKept
<1>7. Lists'
  <2>1. ~Live(t) /\ ~At(t, "SignalAll")
    BY <1>1 DEF Live, At
  <2>2. Waitables(t)' = {e}
    <3>1. Range(<<e>>) = {e}
      BY DEF Range
    <3> QED
      BY <1>2, <1>4, <3>1 DEF Waitables
  <2>3. {e} \in SUBSET Events
    OBVIOUS
  <2> QED
    BY <1>1, <1>2, <1>4, <2>1, <2>2, <2>3, ListsJoined
<1> QED
  BY <1>5, <1>6, <1>7

\* EnqueueMany.
LEMMA EnqueueManySteps ==
  ASSUME Inv, Types', NEW t \in Threads,
         EnqueueManySignaled(t) \/ EnqueueManyLock(t) \/ EnqueueManyLast(t)
  PROVE  Inv'
<1> USE DEF Inv
<1>1. /\ At(t, "EnqueueMany") /\ ~Signaling(t) /\ ~Live(t) /\ ~At(t, "SignalAll")
      /\ Phase(t) /\ sw[t] = NoWaiter /\ thread[t] \in Operation /\ Waitables(t) \subseteq Events
  <2>1. At(t, "EnqueueMany") /\ Phase(t)
    BY DEF EnqueueManySignaled, EnqueueManyLock, EnqueueManyLast, Phases
  <2>2. ~Signaling(t) /\ ~Live(t) /\ ~At(t, "SignalAll")
    BY <2>1 DEF At, Signaling, Live
  <2> QED
    BY <2>1, <2>2, WaitablesType DEF Phase
<1>2. PICK e \in Events : e = NextLock(t)
  BY <1>1, NextLockLeast
<1>3. e \in Waitables(t) /\ e \notin Locked(t) /\ \A d \in Waitables(t) \ Locked(t) : e <= d
  BY <1>1, <1>2, NextLockLeast
<1>4. \A d \in Events : d \in Locked(t) <=> lock_[d] = t
  BY DEF Locked
<1>5. \A d \in Locked(t) : d \in Waitables(t) /\ ~signaled_[d]
  <2> SUFFICES ASSUME NEW d \in Locked(t) PROVE d \in Waitables(t) /\ ~signaled_[d]
    OBVIOUS
  <2>1. d \in Events /\ lock_[d] = t /\ t # NoThread
    BY ConstantsAssumption DEF ConstantsAssumption, Locked
  <2> QED
    BY <1>1, <2>1 DEF Locks
<1>6. \A d \in Events : ~Queued(t, d)
  BY <1>1 DEF Queued
<1>7. CASE EnqueueManySignaled(t)
  <2>1. /\ lock_[e] = NoThread /\ waiters_' = waiters_ /\ sw' = sw
        /\ \A d \in Events : lock_'[d] = IF lock_[d] = t THEN NoThread ELSE lock_[d]
        /\ thread'[t] = NoOperation /\ \A u \in Threads : u # t => thread'[u] = thread[u]
    BY <1>2, <1>4, <1>7 DEF EnqueueManySignaled, Types
  <2>2. /\ \A d \in Events : signaled_'[d] => signaled_[d]
        /\ \A d \in Events : d # e => signaled_'[d] = signaled_[d]
    BY <1>2, <1>7 DEF EnqueueManySignaled, Consume, Types
  <2>3. ~Signaling(t)' /\ ~At(t, "EnqueueMany")' /\ ~Sleeping(t)' /\ ~At(t, "SignalAll")'
    BY <2>1 DEF Signaling, At, Sleeping, NoOperation
  <2>4. Phases'
    <3>1. Phase(t)'
      BY <1>1, <2>1 DEF Phase, NoOperation, NoWaiter, Signaling, At, Live
    <3> QED
      BY <2>1, <3>1, PhasesKept
  <2>5. Locks'
    BY <2>1, <2>2, <2>3, LocksReleased
  <2>6. Lists'
    <3>1. \A d \in Events : \A i \in DOMAIN waiters_[d] : Passed(d, i)' <=> Passed(d, i)
      BY <1>1, <2>1, <2>3, PassedKept
    <3> QED
      BY <1>6, <2>1, <2>2, <2>3, <3>1, ListsKept
  <2> QED
    BY <2>4, <2>5, <2>6
<1>8. CASE EnqueueManyLock(t)
  <2>1. /\ Waitables(t) \ Locked(t) # {e} /\ lock_[e] = NoThread /\ ~signaled_[e]
        /\ lock_'[e] = t /\ \A d \in Events : d # e => lock_'[d] = lock_[d]
        /\ UNCHANGED <<signaled_, waiters_, sw, thread>>
    BY <1>2, <1>8 DEF EnqueueManyLock, Types
  <2>2. Phases'
    BY <2>1, PhasesKept
  <2>3. Locks'
    <3>1. ASSUME NEW d \in Events, NEW u \in Threads, u = lock_'[d]
          PROVE  /\ ~signaled_'[d]
                 /\ \/ Signaling(u)' /\ thread'[u].event = d
                    \/ At(u, "EnqueueMany")' /\ d \in Waitables(u)'
      <4>1. CASE d = e
        BY <1>1, <1>3, <2>1, <3>1, <4>1 DEF At, Waitables
      <4>2. CASE d # e
        <5>1. u = lock_[d] /\ u # NoThread
          BY <2>1, <3>1, <4>2, ConstantsAssumption DEF ConstantsAssumption
        <5> QED
          BY <2>1, <5>1 DEF Locks, Signaling, At, Waitables
      <4> QED
        BY <4>1, <4>2
    <3>2. ASSUME NEW d \in Events, lock_'[d] # NoThread
          PROVE  (/\ ~signaled_[d]
                  /\ \/ Signaling(lock_[d]) /\ thread[lock_[d]].event = d
                     \/ At(lock_[d], "EnqueueMany") /\ d \in Waitables(lock_[d]))'
      <4>1. PICK u \in Threads : u = lock_'[d]
        BY <3>2 DEF Types
      <4> QED
        BY <3>1, <4>1 DEF Signaling, At, Waitables
    <3>3. ASSUME NEW u \in Threads, Signaling(u)' PROVE lock_'[thread'[u].event] = u
      <4>1. thread'[u] = thread[u] /\ Signaling(u)
        BY <2>1, <3>3 DEF Signaling
      <4>2. thread[u].event \in Events /\ lock_[thread[u].event] = u
        BY <4>1, SignallerLock
      <4>3. thread[u].event # e
        BY <2>1, <4>2, ConstantsAssumption DEF ConstantsAssumption
      <4> QED
        BY <2>1, <4>1, <4>2, <4>3
    <3>4. Locked(t)' = Locked(t) \cup {e} /\ \A u \in Threads : u # t => Locked(u)' = Locked(u)
      <4>1. \A u \in Threads : u # NoThread
        BY ConstantsAssumption DEF ConstantsAssumption
      <4> QED
        BY <2>1, <4>1 DEF Locked
    <3>5. ASSUME NEW u \in Threads, At(u, "EnqueueMany")'
          PROVE  /\ Waitables(u)' \ Locked(u)' # {}
                 /\ \A d \in Locked(u)', c \in Waitables(u)' \ Locked(u)' : d < c
      <4>1. At(u, "EnqueueMany") /\ Waitables(u)' = Waitables(u)
        BY <2>1, <3>5 DEF At, Waitables
      <4>2. CASE u # t
        BY <3>4, <4>1, <4>2 DEF Locks
      <4>3. CASE u = t
        <5>1. Waitables(t) \ Locked(t)' # {}
          BY <1>3, <2>1, <3>4
        <5>2. ASSUME NEW d \in Locked(t)', NEW c \in Waitables(t) \ Locked(t)' PROVE d < c
          <6>1. c \in Waitables(t) \ Locked(t) /\ c # e /\ e <= c /\ c \in Nat /\ e \in Nat
            BY <1>1, <1>3, <3>4, <5>2, ConstantsAssumption DEF ConstantsAssumption
          <6>2. e < c
            BY <6>1
          <6>3. d \in Locked(t) => d < c
            BY <1>1, <6>1 DEF Locks
          <6> QED
            BY <3>4, <5>2, <6>2, <6>3
        <5> QED
          BY <4>1, <4>3, <5>1, <5>2
      <4> QED
        BY <4>2, <4>3
    <3> QED
      BY <3>2, <3>3, <3>5 DEF Locks, Locked, Waitables, At, Signaling
  <2>4. Lists'
    <3>1. ~At(t, "SignalAll")'
      BY <1>1, <2>1 DEF At
    <3>2. \A d \in Events : \A i \in DOMAIN waiters_[d] : Passed(d, i)' <=> Passed(d, i)
      BY <1>1, <2>1, <3>1, PassedKept
    <3>3. ~Sleeping(t)'
      BY <1>1, <2>1 DEF Sleeping, Live
    <3> QED
      BY <1>6, <2>1, <3>2, <3>3, ListsKept
  <2> QED
    BY <2>2, <2>3, <2>4
<1>9. CASE EnqueueManyLast(t)
  <2> DEFINE r == [thread[t] EXCEPT !.pc = "check"]
             w == [NoWaiter EXCEPT !.lock_ = t]
  <2>1. /\ Waitables(t) \ Locked(t) = {e} /\ lock_[e] = NoThread /\ ~signaled_[e]
        /\ signaled_' = signaled_
        /\ \A d \in Events : lock_'[d] = IF lock_[d] = t THEN NoThread ELSE lock_[d]
        /\ \A d \in Waitables(t) : waiters_'[d] = Enqueue(waiters_[d], t)
        /\ \A d \in Events : d \notin Waitables(t) => waiters_'[d] = waiters_[d]
    BY <1>1, <1>2, <1>4, <1>9 DEF EnqueueManyLast
  <2>2. /\ r.pc = "check" /\ r.raw = thread[t].raw /\ r.many = thread[t].many
        /\ r.finite = thread[t].finite /\ r.event = thread[t].event
    BY <1>1 DEF Operation
  <2>3. w.lock_ = t /\ ~w.fired_
    BY DEF NoWaiter
  <2>4. /\ thread'[t] = r /\ sw'[t] = w
        /\ \A u \in Threads : u # t => thread'[u] = thread[u] /\ sw'[u] = sw[u]
    BY <1>9 DEF EnqueueManyLast, Types
  <2> HIDE DEF r
  <2>5. Phases'
    <3> HIDE DEF w
    <3>1. Phase(t)'
      BY <1>1, <2>2, <2>3, <2>4 DEF Phase, Signaling, At, Live
    <3> QED
      BY <2>4, <3>1, PhasesKept
  <2>6. Locks'
    <3>1. ~Signaling(t)' /\ ~At(t, "EnqueueMany")'
      BY <2>2, <2>4 DEF Signaling, At
    <3> QED
      BY <2>1, <2>4, <3>1, LocksReleased
  <2>7. Lists'
    <3>1. Waitables(t)' = Waitables(t)
      BY <2>2, <2>4 DEF Waitables
    <3>2. \A d \in Waitables(t) : lock_[d] \in {t, NoThread} /\ ~signaled_[d]
      BY <1>1, <1>4, <1>5, <2>1
    <3>3. PICK W \in SUBSET Events : W = Waitables(t)
      BY <1>1
    <3> QED
      BY <1>1, <2>1, <2>2, <2>4, <3>1, <3>2, <3>3, ListsJoined
  <2> QED
    BY <2>5, <2>6, <2>7
<1> QED
  BY <1>7, <1>8, <1>9

-----------------------------------------------------------------------------
(* Theorems *)

\* The state a program starts with.
LEMMA InitInv ==
  ASSUME Init
  PROVE  Inv
<1>1. Types
  <2>1. <<>> \in Seq(Threads) /\ 0 \in 0 .. MaxCalls
    BY ConstantsAssumption DEF ConstantsAssumption
  <2> QED
    BY <2>1, NoTypes DEF Init, Types
<1>2. Phases
  BY DEF Init, Phases, Phase, NoOperation, NoWaiter, Signaling, At, Live
<1>3. Locks
  BY DEF Init, Locks, NoOperation, Signaling, At
<1>4. Lists
  BY DEF Init, Lists, NoOperation, Sleeping, IsInjective
<1> QED
  BY <1>1, <1>2, <1>3, <1>4 DEF Inv

\* The invariant is inductive.
LEMMA StepInv ==
  ASSUME Inv, [Next]_vars
  PROVE  Inv'
<1>1. CASE Next
  <2>1. Types'
    BY <1>1, NextTypes
  <2>2. PICK t \in Threads : NewCall(t) \/ Step(t)
    BY <1>1 DEF Next
  <2>3. CASE NewCall(t)
    BY <2>1, <2>3, FlagSteps, BeginSteps, TimedWaitEnqueueStep DEF NewCall
  <2>4. CASE Step(t)
    BY <2>1, <2>4, SignalKeepSteps, SignalOneFireStep, SignalAllFireStep, WaiterSteps, LeaveSteps,
       EnqueueManySteps DEF Step
  <2> QED
    BY <2>2, <2>3, <2>4
<1>2. CASE UNCHANGED vars
  BY <1>2 DEF vars, Inv, Types, Phases, Phase, Signaling, At, Live, Locks, Locked, Waitables, Lists,
              Passed, Queued, Sleeping
<1> QED
  BY <1>1, <1>2

\* The invariant holds in every behaviour.
LEMMA Invariance == Spec => []Inv
BY InitInv, StepInv, PTL DEF Spec
\* Nobody sleeps beside a signal or a fired waiter, and no signaller reaches a
\* waiter whose thread has left.
THEOREM WaitersSoundAlways == Spec => []WaitersSound
<1>1. ASSUME Inv PROVE WaitersSound
  <2> USE <1>1 DEF Inv
  <2>1. TypeOK
    <3>1. \A t \in Threads : thread[t].pc \in Points
      BY DEF Types, Operation
    <3> QED
      BY <3>1 DEF TypeOK, Types, Waiter, Lists
  <2>2. NoMissedSignal
    BY DEF NoMissedSignal, Lists
  <2>3. ASSUME NEW t \in Threads, Signaling(t), NEW i \in DOMAIN waiters_[thread[t].event],
               At(t, "SignalAll") => i = thread[t].pos
        PROVE  Live(waiters_[thread[t].event][i])
    <3>1. thread[t].event \in Events /\ lock_[thread[t].event] = t
      BY <2>3, SignallerLock
    <3>2. thread[t].pos \in Nat
      BY DEF Types, Operation
    <3>3. ~(thread[t].pos < thread[t].pos)
      BY <3>2
    <3>4. ~Passed(thread[t].event, i)
      BY <2>3, <3>1, <3>3 DEF Passed
    <3> QED
      BY <3>1, <3>4 DEF Lists, Queued
  <2>4. FiresLiveWaiters
    <3> SUFFICES ASSUME NEW t \in Threads
                 PROVE  /\ At(t, "SignalOne") /\ waiters_[thread[t].event] # <<>>
                             => Live(Head(waiters_[thread[t].event]))
                        /\ At(t, "SignalAll") /\ thread[t].pos <= Len(waiters_[thread[t].event])
                             => Live(waiters_[thread[t].event][thread[t].pos])
      BY DEF FiresLiveWaiters
    <3>1. ASSUME Signaling(t) PROVE waiters_[thread[t].event] \in Seq(Threads)
      BY <3>1, SignallerLock DEF Types
    <3>2. ASSUME At(t, "SignalOne"), waiters_[thread[t].event] # <<>>
          PROVE  Live(Head(waiters_[thread[t].event]))
      <4>1. Signaling(t) /\ ~At(t, "SignalAll")
        BY <3>2 DEF Signaling, At
      <4>2. /\ 1 \in DOMAIN waiters_[thread[t].event]
            /\ Head(waiters_[thread[t].event]) = waiters_[thread[t].event][1]
        BY <3>1, <3>2, <4>1
      <4> QED
        BY <2>3, <4>1, <4>2
    <3>3. ASSUME At(t, "SignalAll"), thread[t].pos <= Len(waiters_[thread[t].event])
          PROVE  Live(waiters_[thread[t].event][thread[t].pos])
      <4>1. Signaling(t)
        BY <3>3 DEF Signaling, At
      <4>2. thread[t].pos \in Nat /\ thread[t].pos >= 1
        BY <4>1 DEF Types, Operation, Phases, Phase
      <4>3. thread[t].pos \in DOMAIN waiters_[thread[t].event]
        BY <3>1, <3>3, <4>1, <4>2
      <4> QED
        BY <2>3, <4>1, <4>3
    <3> QED
      BY <3>2, <3>3
  <2>5. NoStaleWaiter
    <3> SUFFICES ASSUME NEW e \in Events, NEW t \in Threads, lock_[e] = NoThread,
                        t \in Range(waiters_[e])
                 PROVE  Live(t) /\ e \in Waitables(t)
      BY DEF NoStaleWaiter
    <3>1. PICK i \in DOMAIN waiters_[e] : waiters_[e][i] = t
      BY DEF Range
    <3>2. ~Passed(e, i)
      BY ConstantsAssumption DEF ConstantsAssumption, Passed
    <3> QED
      BY <3>1, <3>2 DEF Lists, Queued
  <2>6. FiredIsWoken
    BY DEF FiredIsWoken, Phases, Phase, Live, At
  <2> QED
    BY <2>1, <2>2, <2>4, <2>5, <2>6 DEF WaitersSound
<1> QED
  BY <1>1, Invariance, PTL

\* The kernels' locks are taken by address and the waiters' locks after them:
\* in any set of threads there is one that waits for nobody in the set.
THEOREM NoLockCycleAlways == Spec => []NoLockCycle
<1>1. ASSUME Inv PROVE NoLockCycle
  <2> USE <1>1 DEF Inv
  <2> SUFFICES ASSUME NEW S \in SUBSET Threads, S # {},
                      \A t \in S : BlockedBy(t) \cap S # {}
               PROVE  FALSE
    BY DEF NoLockCycle
  <2>1. \A t \in Threads : t # NoThread
    BY ConstantsAssumption DEF ConstantsAssumption
  <2>2. ASSUME NEW t \in S PROVE ~At(t, "check")
    BY <2>2 DEF BlockedBy, At
  <2>3. ASSUME NEW v \in Threads PROVE sw[v].lock_ \notin S
    BY <2>1, <2>2 DEF Phases, Phase
  <2>4. ASSUME NEW t \in S, Signaling(t) PROVE FALSE
    <3>1. waiters_[thread[t].event] \in Seq(Threads)
      BY <2>4, SignallerLock DEF Types
    <3>2. thread[t].pos \in Nat /\ thread[t].pos >= 1
      BY <2>4 DEF Types, Operation, Phases, Phase
    <3>3. CASE At(t, "SignalOne")
      <4>1. waiters_[thread[t].event] # <<>> => Head(waiters_[thread[t].event]) \in Threads
        BY <3>1
      <4>2. BlockedBy(t) = IF waiters_[thread[t].event] # <<>>
                           THEN {sw[Head(waiters_[thread[t].event])].lock_} ELSE {}
        BY <3>3 DEF BlockedBy, At
      <4> QED
        BY <2>3, <4>1, <4>2
    <3>4. CASE At(t, "SignalAll")
      <4>1. thread[t].pos <= Len(waiters_[thread[t].event])
              => waiters_[thread[t].event][thread[t].pos] \in Threads
        BY <3>1, <3>2
      <4>2. BlockedBy(t) = IF thread[t].pos <= Len(waiters_[thread[t].event])
                           THEN {sw[waiters_[thread[t].event][thread[t].pos]].lock_} ELSE {}
        BY <3>4 DEF BlockedBy, At
      <4> QED
        BY <2>3, <4>1, <4>2
    <3> QED
      BY <2>4, <3>3, <3>4 DEF Signaling, At
  <2>5. ASSUME NEW e \in Events, lock_[e] \in S
        PROVE  At(lock_[e], "EnqueueMany") /\ e \in Locked(lock_[e])
    BY <2>1, <2>4, <2>5 DEF Locks, Locked
  <2>6. ASSUME NEW t \in S, At(t, "EnqueueMany") PROVE lock_[NextLock(t)] \in S
    <3>1. BlockedBy(t) = {lock_[NextLock(t)]}
      BY <2>6 DEF BlockedBy, At
    <3> QED
      BY <3>1
  <2>7. \E t \in S : At(t, "EnqueueMany")
    <3>1. PICK t \in S : TRUE
      OBVIOUS
    <3>2. ASSUME ~At(t, "EnqueueMany") PROVE \E e \in Events : lock_[e] \in S
      <4>1. BlockedBy(t) = IF At(t, "dequeue") /\ thread[t].pos <= Len(thread[t].raw)
                           THEN {lock_[thread[t].raw[thread[t].pos]]} ELSE {}
        BY <2>4, <3>2 DEF BlockedBy, At, Signaling
      <4>2. At(t, "dequeue") /\ thread[t].pos <= Len(thread[t].raw)
            /\ lock_[thread[t].raw[thread[t].pos]] \in S
        BY <4>1
      <4>3. thread[t].pos \in Nat /\ thread[t].pos >= 1 /\ thread[t].raw \in Seq(Events)
        BY <4>2 DEF Types, Operation, Phases, Phase
      <4>4. thread[t].raw[thread[t].pos] \in Events
        BY <4>2, <4>3
      <4> QED
        BY <4>2, <4>4
    <3> QED
      BY <2>5, <3>2
  <2> DEFINE E == {t \in S : At(t, "EnqueueMany")}
             N == {NextLock(t) : t \in E}
  <2>8. N \subseteq Events /\ N # {}
    BY <2>7, NextLockLeast
  <2>9. PICK g \in E : \A t \in E : NextLock(t) <= NextLock(g)
    <3>1. N \in SUBSET Nat /\ IsFiniteSet(N)
      BY <2>8, FS_Subset, ConstantsAssumption DEF ConstantsAssumption
    <3>2. \E m \in N : \A x \in N : x <= m
      <4> HIDE DEF N
      <4> QED
        BY <2>8, <3>1, LeastAndGreatest
    <3> QED
      BY <3>2
  <2>10. PICK h \in E : h = lock_[NextLock(g)]
    BY <2>5, <2>6, <2>9, NextLockLeast
  <2>11. NextLock(g) < NextLock(h)
    <3>1. NextLock(g) \in Events /\ NextLock(g) \in Locked(h)
      BY <2>5, <2>9, <2>10, NextLockLeast
    <3>2. NextLock(h) \in Waitables(h) \ Locked(h)
      BY <2>10, NextLockLeast
    <3> QED
      BY <2>10, <3>1, <3>2 DEF Locks
  <2>12. NextLock(g) \in Nat /\ NextLock(h) \in Nat /\ NextLock(h) <= NextLock(g)
    BY <2>8, <2>9, <2>10, ConstantsAssumption DEF ConstantsAssumption
  <2> HIDE DEF E, N
  <2> QED
    BY <2>11, <2>12
<1> QED
  BY <1>1, Invariance, PTL
-----------------------------------------------------------------------------
(* The refinement *)

\* The state of the contract, thread by thread.
WaitingFor(t) == IF Sleeping(t) THEN Waitables(t) ELSE {}
Patient(t) == Sleeping(t) /\ ~thread[t].finite
Given(t) == IF \/ thread[t].pc \in {"check", "blocked"} /\ sw[t].fired_
               \/ At(t, "dequeue") /\ thread[t].return_value
            THEN sw[t].signaling_event_ ELSE NoEvent

signaled == {e \in Events : signaled_[e]}
signaling == [t \in Threads |-> thread[t].event]
waiting == [t \in Threads |-> WaitingFor(t)]
patient == {t \in Threads : Patient(t)}
given == [t \in Threads |-> Given(t)]

\* A thread that is left alone.
LEMMA SameForContract ==
  ASSUME NEW u \in Threads, thread'[u] = thread[u], sw'[u] = sw[u]
  PROVE  WaitingFor(u)' = WaitingFor(u) /\ (Patient(u)' <=> Patient(u)) /\ Given(u)' = Given(u)
BY DEF WaitingFor, Patient, Given, Sleeping, Waitables, At

\* A thread outside of its waits.
LEMMA IdleForContract ==
  ASSUME NEW t \in Threads, thread[t].pc \in {"idle", "SignalOne", "SignalAll", "EnqueueMany"}
  PROVE  WaitingFor(t) = {} /\ ~Patient(t) /\ Given(t) = NoEvent
BY DEF WaitingFor, Patient, Given, Sleeping, At

\* A step that the contract does not see.
LEMMA StutterForContract ==
  ASSUME signaled' = signaled,
         \A v \in Threads : /\ thread'[v].event = thread[v].event
                            /\ WaitingFor(v)' = WaitingFor(v) /\ Given(v)' = Given(v)
                            /\ Patient(v)' <=> Patient(v)
  PROVE  UNCHANGED Contract!vars
<1>1. signaling' = signaling
  BY DEF signaling
<1>2. waiting' = waiting
  BY DEF waiting
<1>3. given' = given
  BY DEF given
<1>4. patient' = patient
  BY DEF patient
<1> QED
  BY <1>1, <1>2, <1>3, <1>4
     DEF Contract!vars, signaled, signaling, waiting, patient, given, WaitingFor, Patient, Given

\* The state a program starts with.
LEMMA InitContract ==
  ASSUME Init
  PROVE  Contract!Init
BY DEF Init, NoOperation, Sleeping, At, Contract!Init

\* Reset and the calls that find an event signaled.
LEMMA FlagContract ==
  ASSUME Inv, NEW t \in Threads, NEW e \in Events,
         Reset(t, e) \/ IsSignaled(t, e) \/ TimedWaitSignaled(t, e)
  PROVE  Contract!Next
<1> USE DEF Inv
<1>1. At(t, "idle") /\ UNCHANGED <<lock_, waiters_, sw, thread>>
  BY DEF Reset, IsSignaled, TimedWaitSignaled, Call
<1>2. /\ signaling' = signaling /\ waiting' = waiting /\ given' = given /\ patient' = patient
  BY <1>1 DEF signaling, waiting, given, patient, WaitingFor, Patient, Given, Sleeping, Waitables, At
<1>3. WaitingFor(t) = {} /\ ~Patient(t) /\ Given(t) = NoEvent /\ thread[t].event = NoEvent
  BY <1>1, IdleForContract DEF At, Phases, Phase, Signaling
<1>4. CASE Reset(t, e)
  <2>1. signaled' = signaled \ {e}
    BY <1>4 DEF Reset, signaled, Types
  <2>2. Contract!Reset(e)
    BY <1>2, <2>1 DEF Contract!Reset, signaled, signaling, waiting, patient, given, WaitingFor, Patient, Given
  <2> QED
    BY <2>2 DEF Contract!Next
<1>5. CASE IsSignaled(t, e) \/ TimedWaitSignaled(t, e)
  <2>1. e \in signaled /\ signaled' = IF e \in ManualReset THEN signaled ELSE signaled \ {e}
    BY <1>5 DEF IsSignaled, TimedWaitSignaled, Consume, signaled, Types
  <2>2. Contract!Idle(t)
    BY <1>3 DEF Contract!Idle, WaitingFor, Given
  <2>3. Contract!Take(t, e)
    BY <1>2, <2>1, <2>2 DEF Contract!Take, signaled, signaling, waiting, patient, given, WaitingFor, Patient, Given
  <2> QED
    BY <2>3 DEF Contract!Next
<1> QED
  BY <1>4, <1>5
\* Signal begins, WaitMany begins.
LEMMA BeginContract ==
  ASSUME Inv, NEW t \in Threads,
         (\E e \in Events : Signal(t, e)) \/ (\E raw \in WaitLists : WaitMany(t, raw))
  PROVE  [Contract!Next]_Contract!vars
<1> USE DEF Inv
<1>1. /\ At(t, "idle") /\ UNCHANGED <<signaled_, waiters_, sw>>
      /\ \A u \in Threads : u # t => thread'[u] = thread[u]
  BY DEF Signal, WaitMany, Call, Types
<1>2. WaitingFor(t) = {} /\ ~Patient(t) /\ Given(t) = NoEvent /\ thread[t].event = NoEvent
  BY <1>1, IdleForContract DEF At, Phases, Phase, Signaling
<1>3. \A u \in Threads : u # t =>
        /\ WaitingFor(u)' = WaitingFor(u) /\ Given(u)' = Given(u) /\ (Patient(u)' <=> Patient(u))
        /\ thread'[u].event = thread[u].event
  BY <1>1, SameForContract
<1>4. signaled' = signaled
  BY <1>1 DEF signaled
<1>5. CASE \E e \in Events : Signal(t, e)
  <2>1. PICK e \in Events : Signal(t, e)
    BY <1>5
  <2>2. thread'[t].event = e /\ thread'[t].pc \in {"SignalOne", "SignalAll"} /\ e \notin signaled
    BY <2>1 DEF Signal, NoOperation, Types, signaled
  <2>3. WaitingFor(t)' = {} /\ ~Patient(t)' /\ Given(t)' = NoEvent
    BY <2>2 DEF WaitingFor, Patient, Given, Sleeping, At
  <2>4. signaling' = [signaling EXCEPT ![t] = e]
    BY <1>3, <2>2 DEF signaling
  <2>5. waiting' = waiting /\ given' = given /\ patient' = patient
    <3>1. \A u \in Threads : WaitingFor(u)' = WaitingFor(u)
      BY <1>2, <1>3, <2>3
    <3>2. \A u \in Threads : Given(u)' = Given(u)
      BY <1>2, <1>3, <2>3
    <3>3. \A u \in Threads : Patient(u)' <=> Patient(u)
      BY <1>2, <1>3, <2>3
    <3> QED
      BY <3>1, <3>2, <3>3 DEF waiting, given, patient
  <2>6. Contract!Idle(t)
    BY <1>2 DEF Contract!Idle, WaitingFor, Given
  <2>7. Contract!SignalBegin(t, e)
    BY <1>4, <2>2, <2>4, <2>5, <2>6
       DEF Contract!SignalBegin, signaled, signaling, waiting, patient, given, WaitingFor, Patient, Given
  <2> QED
    BY <2>7 DEF Contract!Next
<1>6. CASE \E raw \in WaitLists : WaitMany(t, raw)
  <2>1. thread'[t].pc = "EnqueueMany" /\ thread'[t].event = NoEvent
    BY <1>6 DEF WaitMany, NoOperation, Types
  <2>2. WaitingFor(t)' = {} /\ ~Patient(t)' /\ Given(t)' = NoEvent
    BY <2>1 DEF WaitingFor, Patient, Given, Sleeping, At
  <2> QED
    BY <1>2, <1>3, <1>4, <2>1, <2>2, StutterForContract
<1> QED
  BY <1>5, <1>6

\* A wait begins: the thread is in the lists of its events, none of which is
\* signaled.
LEMMA WaitContract ==
  ASSUME Inv, NEW t \in Threads, NEW W \in SUBSET Events, NEW finite \in BOOLEAN,
         thread[t].pc \in {"idle", "EnqueueMany"},
         signaled_' = signaled_, W # {}, \A e \in W : ~signaled_[e],
         \A u \in Threads : u # t => thread'[u] = thread[u] /\ sw'[u] = sw[u],
         thread'[t].pc = "check", thread'[t].event = NoEvent, thread'[t].finite = finite,
         Waitables(t)' = W, ~sw'[t].fired_
  PROVE  Contract!Next
<1> USE DEF Inv
<1>1. WaitingFor(t) = {} /\ ~Patient(t) /\ Given(t) = NoEvent /\ thread[t].event = NoEvent
  BY IdleForContract DEF Phases, Phase, Signaling
<1>2. \A u \in Threads : u # t =>
        /\ WaitingFor(u)' = WaitingFor(u) /\ Given(u)' = Given(u) /\ (Patient(u)' <=> Patient(u))
        /\ thread'[u].event = thread[u].event
  BY SameForContract
<1>3. WaitingFor(t)' = W /\ (Patient(t)' <=> ~finite) /\ Given(t)' = NoEvent
  BY DEF WaitingFor, Patient, Given, Sleeping, At
<1>4. signaled' = signaled /\ W \cap signaled = {}
  BY DEF signaled
<1>5. signaling' = signaling
  BY <1>1, <1>2 DEF signaling
<1>6. waiting' = [waiting EXCEPT ![t] = W]
  BY <1>2, <1>3 DEF waiting
<1>7. given' = given
  <2>1. \A u \in Threads : Given(u)' = Given(u)
    BY <1>1, <1>2, <1>3
  <2> QED
    BY <2>1 DEF given
<1>8. patient' = IF ~finite THEN patient \cup {t} ELSE patient
  BY <1>1, <1>2, <1>3 DEF patient
<1>9. Contract!Idle(t)
  BY <1>1 DEF Contract!Idle, WaitingFor, Given
<1>10. Contract!Wait(t, W, ~finite)
  BY <1>4, <1>5, <1>6, <1>7, <1>8, <1>9
     DEF Contract!Wait, signaled, signaling, waiting, patient, given, WaitingFor, Patient, Given
<1> QED
  BY <1>10 DEF Contract!Next

\* EnqueueMany.
LEMMA EnqueueManyContract ==
  ASSUME Inv, NEW t \in Threads,
         EnqueueManySignaled(t) \/ EnqueueManyLock(t) \/ EnqueueManyLast(t)
  PROVE  [Contract!Next]_Contract!vars
<1> USE DEF Inv
<1>1. At(t, "EnqueueMany") /\ Phase(t) /\ thread[t] \in Operation /\ Waitables(t) \subseteq Events
  BY WaitablesType DEF EnqueueManySignaled, EnqueueManyLock, EnqueueManyLast, Phases
<1>2. WaitingFor(t) = {} /\ ~Patient(t) /\ Given(t) = NoEvent /\ thread[t].event = NoEvent
  BY <1>1, IdleForContract DEF At, Phase, Signaling
<1>3. PICK e \in Events : e = NextLock(t)
  BY <1>1, NextLockLeast
<1>4. CASE EnqueueManySignaled(t)
  <2>1. /\ thread'[t] = NoOperation /\ sw' = sw
        /\ \A u \in Threads : u # t => thread'[u] = thread[u]
    BY <1>4 DEF EnqueueManySignaled, Types
  <2>2. \A u \in Threads : u # t =>
          /\ WaitingFor(u)' = WaitingFor(u) /\ Given(u)' = Given(u) /\ (Patient(u)' <=> Patient(u))
          /\ thread'[u].event = thread[u].event
    BY <2>1, SameForContract
  <2>3. WaitingFor(t)' = {} /\ ~Patient(t)' /\ Given(t)' = NoEvent /\ thread'[t].event = NoEvent
    BY <2>1 DEF WaitingFor, Patient, Given, Sleeping, At, NoOperation
  <2>4. signaling' = signaling
    BY <1>2, <2>2, <2>3 DEF signaling
  <2>5. waiting' = waiting /\ given' = given /\ patient' = patient
    <3>1. \A u \in Threads : WaitingFor(u)' = WaitingFor(u)
      BY <1>2, <2>2, <2>3
    <3>2. \A u \in Threads : Given(u)' = Given(u)
      BY <1>2, <2>2, <2>3
    <3>3. \A u \in Threads : Patient(u)' <=> Patient(u)
      BY <1>2, <2>2, <2>3
    <3> QED
      BY <3>1, <3>2, <3>3 DEF waiting, given, patient
  <2>6. e \in signaled /\ signaled' = IF e \in ManualReset THEN signaled ELSE signaled \ {e}
    BY <1>3, <1>4 DEF EnqueueManySignaled, Consume, signaled, Types
  <2>7. Contract!Idle(t)
    BY <1>2 DEF Contract!Idle, WaitingFor, Given
  <2>8. Contract!Take(t, e)
    BY <2>4, <2>5, <2>6, <2>7
       DEF Contract!Take, signaled, signaling, waiting, patient, given, WaitingFor, Patient, Given
  <2> QED
    BY <2>8 DEF Contract!Next
<1>5. CASE EnqueueManyLock(t)
  <2>1. UNCHANGED <<signaled_, waiters_, sw, thread>>
    BY <1>5 DEF EnqueueManyLock
  <2>2. signaled' = signaled
    BY <2>1 DEF signaled
  <2> QED
    BY <2>1, <2>2, SameForContract, StutterForContract
<1>6. CASE EnqueueManyLast(t)
  <2> DEFINE r == [thread[t] EXCEPT !.pc = "check"]
  <2>1. /\ r.pc = "check" /\ r.raw = thread[t].raw /\ r.finite = thread[t].finite
        /\ r.event = thread[t].event
    BY <1>1 DEF Operation
  <2>2. /\ thread'[t] = r /\ ~sw'[t].fired_ /\ signaled_' = signaled_
        /\ \A u \in Threads : u # t => thread'[u] = thread[u] /\ sw'[u] = sw[u]
    BY <1>6 DEF EnqueueManyLast, NoWaiter, Types
  <2> HIDE DEF r
  <2>3. thread[t].finite = FALSE
    BY <1>1 DEF Phase, At, Operation
  <2>4. Waitables(t)' = Waitables(t)
    BY <2>1, <2>2 DEF Waitables
  <2>5. \A d \in Waitables(t) : ~signaled_[d]
    <3>1. Waitables(t) \ Locked(t) = {e} /\ ~signaled_[e] /\ t # NoThread
      BY <1>3, <1>6, ConstantsAssumption DEF ConstantsAssumption, EnqueueManyLast
    <3> QED
      BY <1>1, <3>1 DEF Locks, Locked
  <2>6. Waitables(t) # {}
    BY <1>1, NextLockLeast
  <2>7. PICK W \in SUBSET Events : W = Waitables(t)
    BY <1>1
  <2>8. thread[t].pc \in {"idle", "EnqueueMany"}
    BY <1>1 DEF At
  <2>9. Contract!Next
    BY <1>2, <2>1, <2>2, <2>3, <2>4, <2>5, <2>6, <2>7, <2>8, WaitContract
  <2> QED
    BY <2>9
<1> QED
  BY <1>4, <1>5, <1>6

\* TimedWait enqueues its waiter.
LEMMA TimedWaitContract ==
  ASSUME Inv, NEW t \in Threads, NEW e \in Events, NEW finite \in BOOLEAN,
         TimedWaitEnqueue(t, e, finite)
  PROVE  Contract!Next
<1> USE DEF Inv
<1> DEFINE r == [NoOperation EXCEPT !.pc = "check", !.raw = <<e>>, !.finite = finite]
<1>1. r.pc = "check" /\ r.raw = <<e>> /\ r.finite = finite /\ r.event = NoEvent
  BY DEF NoOperation
<1>2. /\ thread[t].pc = "idle" /\ ~signaled_[e] /\ signaled_' = signaled_
      /\ thread'[t] = r /\ ~sw'[t].fired_
      /\ \A u \in Threads : u # t => thread'[u] = thread[u] /\ sw'[u] = sw[u]
  BY DEF TimedWaitEnqueue, Call, At, NoWaiter, Types
<1> HIDE DEF r
<1>3. Waitables(t)' = {e}
  <2>1. Range(<<e>>) = {e}
    BY DEF Range
  <2> QED
    BY <1>1, <1>2, <2>1 DEF Waitables
<1>4. {e} \in SUBSET Events /\ {e} # {}
  OBVIOUS
<1> QED
  BY <1>1, <1>2, <1>3, <1>4, WaitContract

\* Waiters between enqueueing and dequeueing: a wait that is out of time gives
\* up, nothing else is seen.
LEMMA WaiterContract ==
  ASSUME Inv, NEW t \in Threads,
         \/ TimedWaitEnd(t) \/ CvWait(t) \/ WaitManyFired(t)
         \/ CvWakeBroadcast(t) \/ CvWakeTimeout(t) \/ CvWakeSpurious(t)
  PROVE  [Contract!Next]_Contract!vars
<1> USE DEF Inv
<1>1. /\ UNCHANGED <<lock_, signaled_, waiters_>>
      /\ \A u \in Threads : u # t => thread'[u] = thread[u] /\ sw'[u] = sw[u]
      /\ thread[t].pc \in {"check", "blocked"}
      /\ thread'[t].pc \in {"check", "blocked", "dequeue"}
      /\ thread'[t].raw = thread[t].raw
      /\ thread'[t].event = thread[t].event /\ thread'[t].finite = thread[t].finite
      /\ sw'[t].signaling_event_ = sw[t].signaling_event_
      /\ thread'[t].pc # "dequeue" => sw'[t].fired_ = sw[t].fired_
      /\ thread'[t].pc = "dequeue" => /\ sw'[t].fired_
                                      /\ thread'[t].return_value = sw[t].fired_
                                      /\ sw[t].fired_ \/ thread[t].finite
  BY WaiterEffect
<1>2. \A u \in Threads : u # t =>
        /\ WaitingFor(u)' = WaitingFor(u) /\ Given(u)' = Given(u) /\ (Patient(u)' <=> Patient(u))
        /\ thread'[u].event = thread[u].event
  BY <1>1, SameForContract
<1>3. signaled' = signaled
  BY <1>1 DEF signaled
<1>4. CASE thread'[t].pc # "dequeue" \/ sw[t].fired_
  <2>1. WaitingFor(t)' = WaitingFor(t) /\ Given(t)' = Given(t) /\ (Patient(t)' <=> Patient(t))
    BY <1>1, <1>4 DEF WaitingFor, Given, Patient, Sleeping, Waitables, At
  <2> QED
    BY <1>1, <1>2, <1>3, <2>1, StutterForContract
<1>5. CASE thread'[t].pc = "dequeue" /\ ~sw[t].fired_
  <2>1. /\ WaitingFor(t)' = {} /\ WaitingFor(t) = Waitables(t) /\ ~Patient(t) /\ ~Patient(t)'
        /\ Given(t) = NoEvent /\ Given(t)' = NoEvent
    BY <1>1, <1>5 DEF WaitingFor, Given, Patient, Sleeping, At
  <2>2. Waitables(t) # {}
    <3>1. thread[t].raw # <<>> /\ thread[t].raw \in Seq(Events)
      BY <1>1, WaitablesType DEF Phases, Phase, Live
    <3>2. 1 \in DOMAIN thread[t].raw
      BY <3>1
    <3> QED
      BY <3>2 DEF Waitables, Range
  <2>3. signaling' = signaling
    BY <1>1, <1>2 DEF signaling
  <2>4. waiting' = [waiting EXCEPT ![t] = {}] /\ waiting[t] # {}
    BY <1>2, <2>1, <2>2 DEF waiting
  <2>5. given' = given /\ patient' = patient /\ t \notin patient
    <3>1. \A u \in Threads : Given(u)' = Given(u)
      BY <1>2, <2>1
    <3>2. \A u \in Threads : Patient(u)' <=> Patient(u)
      BY <1>2, <2>1
    <3> QED
      BY <2>1, <3>1, <3>2 DEF given, patient
  <2>6. Contract!GiveUp(t)
    BY <1>3, <2>3, <2>4, <2>5
       DEF Contract!GiveUp, signaled, signaling, waiting, patient, given, WaitingFor, Patient, Given
  <2> QED
    BY <2>6 DEF Contract!Next
<1> QED
  BY <1>1, <1>4, <1>5

\* Waiters that leave the lists and return.
LEMMA LeaveContract ==
  ASSUME Inv, NEW t \in Threads,
         TimedWaitDequeue(t) \/ WaitManyDequeue(t) \/ WaitManyReturn(t)
  PROVE  [Contract!Next]_Contract!vars
<1> USE DEF Inv
<1>1. /\ At(t, "dequeue") /\ signaled_' = signaled_ /\ thread[t] \in Operation
      /\ \A u \in Threads : u # t => thread'[u] = thread[u] /\ sw'[u] = sw[u]
  BY DEF TimedWaitDequeue, WaitManyDequeue, WaitManyReturn, Types
<1>2. \A u \in Threads : u # t =>
        /\ WaitingFor(u)' = WaitingFor(u) /\ Given(u)' = Given(u) /\ (Patient(u)' <=> Patient(u))
        /\ thread'[u].event = thread[u].event
  BY <1>1, SameForContract
<1>3. /\ WaitingFor(t) = {} /\ ~Patient(t) /\ thread[t].event = NoEvent
      /\ Given(t) = IF thread[t].return_value THEN sw[t].signaling_event_ ELSE NoEvent
      /\ thread[t].return_value => sw[t].signaling_event_ \in Events
  BY <1>1 DEF WaitingFor, Patient, Given, Sleeping, At, Phases, Phase, Signaling
<1>4. signaled' = signaled
  BY <1>1 DEF signaled
<1>5. CASE WaitManyDequeue(t)
  <2>1. thread'[t] = [thread[t] EXCEPT !.pos = @ + 1] /\ sw' = sw
    BY <1>5 DEF WaitManyDequeue, Types
  <2>2. /\ thread'[t].pc = "dequeue" /\ thread'[t].event = thread[t].event
        /\ thread'[t].return_value = thread[t].return_value
    BY <1>1, <2>1 DEF Operation, At
  <2>3. /\ WaitingFor(t)' = {} /\ ~Patient(t)'
        /\ Given(t)' = IF thread[t].return_value THEN sw[t].signaling_event_ ELSE NoEvent
    BY <2>1, <2>2 DEF WaitingFor, Patient, Given, Sleeping, At
  <2> QED
    BY <1>2, <1>3, <1>4, <2>2, <2>3, StutterForContract
<1>6. CASE TimedWaitDequeue(t) \/ WaitManyReturn(t)
  <2>1. thread'[t] = NoOperation
    BY <1>6 DEF TimedWaitDequeue, WaitManyReturn, Types
  <2>2. WaitingFor(t)' = {} /\ ~Patient(t)' /\ Given(t)' = NoEvent /\ thread'[t].event = NoEvent
    BY <2>1 DEF WaitingFor, Patient, Given, Sleeping, At, NoOperation
  <2>3. CASE ~thread[t].return_value
    BY <1>2, <1>3, <1>4, <2>2, <2>3, StutterForContract
  <2>4. CASE thread[t].return_value
    <3>1. signaling' = signaling
      BY <1>2, <1>3, <2>2 DEF signaling
    <3>2. waiting' = waiting /\ patient' = patient
      <4>1. \A u \in Threads : WaitingFor(u)' = WaitingFor(u)
        BY <1>2, <1>3, <2>2
      <4>2. \A u \in Threads : Patient(u)' <=> Patient(u)
        BY <1>2, <1>3, <2>2
      <4> QED
        BY <4>1, <4>2 DEF waiting, patient
    <3>3. given' = [given EXCEPT ![t] = NoEvent] /\ given[t] # NoEvent
      <4>1. Given(t) # NoEvent
        BY <1>3, <2>4, ConstantsAssumption DEF ConstantsAssumption
      <4> QED
        BY <1>2, <2>2, <4>1 DEF given
    <3>4. Contract!Return(t)
      BY <1>4, <3>1, <3>2, <3>3
         DEF Contract!Return, signaled, signaling, waiting, patient, given, WaitingFor, Patient, Given
    <3> QED
      BY <3>4 DEF Contract!Next
  <2> QED
    BY <2>3, <2>4
<1> QED
  BY <1>5, <1>6
\* Signal finds nobody waiting (any more).
LEMMA KeepContract ==
  ASSUME Inv, NEW t \in Threads, SignalOneNone(t) \/ SignalAllDone(t)
  PROVE  Contract!Next
<1> USE DEF Inv
<1>1. Signaling(t) /\ thread[t].pc \in {"SignalOne", "SignalAll"}
  BY DEF SignalOneNone, SignalAllDone, Signaling, At
<1>2. PICK e \in Events : e = thread[t].event
  BY <1>1, SignallerLock
<1>3. lock_[e] = t /\ e # NoEvent
  BY <1>1, <1>2, SignallerLock, ConstantsAssumption DEF ConstantsAssumption
<1>4. /\ signaled_' = [signaled_ EXCEPT ![e] = TRUE] /\ sw' = sw
      /\ thread' = [thread EXCEPT ![t] = NoOperation]
  BY <1>2 DEF SignalOneNone, SignalAllDone
<1>5. thread'[t] = NoOperation /\ \A u \in Threads : u # t => thread'[u] = thread[u]
  BY <1>4 DEF Types
<1>6. \A u \in Threads : e \notin WaitingFor(u)
  <2> SUFFICES ASSUME NEW u \in Threads, Sleeping(u), e \in Waitables(u) PROVE FALSE
    BY DEF WaitingFor
  <2>1. PICK i \in DOMAIN waiters_[e] : waiters_[e][i] = u
    BY DEF Lists, Range
  <2>2. waiters_[e] \in Seq(Threads) /\ thread[t].pos \in Nat
    BY DEF Types, Operation
  <2>3. waiters_[e] # <<>>
    BY <2>1
  <2>4. At(t, "SignalAll") /\ thread[t].pos > Len(waiters_[e])
    BY <1>2, <2>3 DEF SignalOneNone, SignalAllDone
  <2>5. i < thread[t].pos
    BY <2>1, <2>2, <2>4
  <2>6. Passed(e, i)
    BY <1>3, <2>4, <2>5 DEF Passed
  <2> QED
    BY <2>1, <2>6 DEF Lists
<1>7. WaitingFor(t) = {} /\ ~Patient(t) /\ Given(t) = NoEvent
  BY <1>1, IdleForContract
<1>8. WaitingFor(t)' = {} /\ ~Patient(t)' /\ Given(t)' = NoEvent /\ thread'[t].event = NoEvent
  BY <1>5 DEF WaitingFor, Patient, Given, Sleeping, At, NoOperation
<1>9. \A u \in Threads : u # t =>
        /\ WaitingFor(u)' = WaitingFor(u) /\ Given(u)' = Given(u) /\ (Patient(u)' <=> Patient(u))
        /\ thread'[u].event = thread[u].event
  BY <1>4, <1>5, SameForContract
<1>10. signaling' = [signaling EXCEPT ![t] = NoEvent] /\ signaling[t] = e
  BY <1>2, <1>8, <1>9 DEF signaling
<1>11. waiting' = waiting /\ given' = given /\ patient' = patient
  <2>1. \A u \in Threads : WaitingFor(u)' = WaitingFor(u)
    BY <1>7, <1>8, <1>9
  <2>2. \A u \in Threads : Given(u)' = Given(u)
    BY <1>7, <1>8, <1>9
  <2>3. \A u \in Threads : Patient(u)' <=> Patient(u)
    BY <1>7, <1>8, <1>9
  <2> QED
    BY <2>1, <2>2, <2>3 DEF waiting, given, patient
<1>12. signaled' = signaled \cup {e}
  BY <1>4 DEF signaled, Types
<1>13. \A u \in Threads : e \notin waiting[u]
  BY <1>6 DEF waiting
<1>14. /\ signaling[t] # NoEvent /\ \A u \in Threads : signaling[t] \notin waiting[u]
       /\ signaled' = signaled \cup {signaling[t]}
  BY <1>3, <1>10, <1>12, <1>13
<1>15. Contract!SignalKeep(t)
  BY <1>10, <1>11, <1>14
     DEF Contract!SignalKeep, signaled, signaling, waiting, patient, given, WaitingFor, Patient, Given
<1> QED
  BY <1>15 DEF Contract!Next

\* A waiter is fired: it is given the signal, unless it refuses.
LEMMA FireContract ==
  ASSUME Inv, NEW t \in Threads, Signaling(t), NEW u \in Threads, NEW e \in Events,
         e = thread[t].event, Queued(u, e), Fire(u, e), signaled_' = signaled_,
         \A v \in Threads : v # t => thread'[v] = thread[v],
         thread'[t].pc \in {"idle", "SignalOne", "SignalAll"},
         thread'[t].event = IF e \notin ManualReset /\ ~sw[u].fired_ THEN NoEvent ELSE e
  PROVE  [Contract!Next]_Contract!vars
<1> USE DEF Inv
<1>1. /\ u # t /\ sw'[t] = sw[t]
      /\ \A v \in Threads : v # t /\ v # u => thread'[v] = thread[v] /\ sw'[v] = sw[v]
  BY FireEffect
<1>2. sw'[u].fired_ /\ IF sw[u].fired_ THEN sw' = sw ELSE sw'[u].signaling_event_ = e
  BY FireTypes
<1>3. thread[t].pc \in {"SignalOne", "SignalAll"}
  BY DEF Signaling
<1>4. WaitingFor(t) = {} /\ ~Patient(t) /\ Given(t) = NoEvent
  BY <1>3, IdleForContract
<1>5. WaitingFor(t)' = {} /\ ~Patient(t)' /\ Given(t)' = NoEvent
  BY DEF WaitingFor, Patient, Given, Sleeping, At
<1>6. \A v \in Threads : v # u =>
        /\ WaitingFor(v)' = WaitingFor(v) /\ Given(v)' = Given(v) /\ (Patient(v)' <=> Patient(v))
  <2> SUFFICES ASSUME NEW v \in Threads, v # u, v # t
               PROVE  /\ WaitingFor(v)' = WaitingFor(v) /\ Given(v)' = Given(v)
                      /\ Patient(v)' <=> Patient(v)
    BY <1>4, <1>5
  <2> QED
    BY <1>1, SameForContract
<1>7. signaled' = signaled
  BY DEF signaled
<1>8. \A v \in Threads : v # t => thread'[v].event = thread[v].event
  OBVIOUS
<1>9. CASE sw[u].fired_
  <2>1. thread'[u] = thread[u] /\ sw'[u] = sw[u]
    BY <1>1, <1>2, <1>9
  <2>2. /\ WaitingFor(u)' = WaitingFor(u) /\ Given(u)' = Given(u) /\ (Patient(u)' <=> Patient(u))
    BY <2>1, SameForContract
  <2>3. thread'[t].event = thread[t].event
    BY <1>9
  <2> QED
    BY <1>6, <1>7, <1>8, <2>2, <2>3, StutterForContract
<1>10. CASE ~sw[u].fired_
  <2>1. thread[u].pc \in {"check", "blocked"} /\ e \in Waitables(u) /\ thread'[u] = thread[u]
    BY <1>1, <1>10 DEF Queued, Live, Phases, Phase, At
  <2>2. e \in WaitingFor(u)
    BY <1>10, <2>1 DEF WaitingFor, Sleeping
  <2>3. WaitingFor(u)' = {} /\ ~Patient(u)' /\ Given(u)' = e
    BY <1>2, <1>10, <2>1 DEF WaitingFor, Patient, Given, Sleeping, At
  <2>4. waiting' = [waiting EXCEPT ![u] = {}] /\ e \in waiting[u]
    BY <1>6, <2>2, <2>3 DEF waiting
  <2>5. given' = [given EXCEPT ![u] = e]
    BY <1>6, <2>3 DEF given
  <2>6. patient' = patient \ {u}
    BY <1>6, <2>3 DEF patient
  <2>7. signaling[t] = e
    BY DEF signaling
  <2>8. Contract!Give(u, e)
    BY <2>4, <2>5, <2>6
       DEF Contract!Give, signaled, signaling, waiting, patient, given, WaitingFor, Patient, Given
  <2>9. CASE e \in ManualReset
    <3>1. signaling' = signaling
      BY <1>8, <2>9 DEF signaling
    <3>2. Contract!Give(u, signaling[t]) /\ signaling[t] \in ManualReset
      BY <2>7, <2>8, <2>9 DEF Contract!Give
    <3>3. Contract!SignalRelease(t, u)
      BY <1>7, <3>1, <3>2 DEF Contract!SignalRelease, signaled, signaling
    <3> QED
      BY <3>3 DEF Contract!Next
  <2>10. CASE e \notin ManualReset
    <3>1. signaling' = [signaling EXCEPT ![t] = NoEvent]
      BY <1>8, <1>10, <2>10 DEF signaling
    <3>2. Contract!Give(u, signaling[t]) /\ signaling[t] \in Events \ ManualReset
      BY <2>7, <2>8, <2>10 DEF Contract!Give
    <3>3. Contract!SignalGive(t, u)
      BY <1>7, <3>1, <3>2 DEF Contract!SignalGive, signaled, signaling
    <3> QED
      BY <3>3 DEF Contract!Next
  <2> QED
    BY <2>9, <2>10
<1> QED
  BY <1>9, <1>10

\* SignalOne and SignalAll fire a waiter.
LEMMA SignalContract ==
  ASSUME Inv, NEW t \in Threads, SignalOneFire(t) \/ SignalAllFire(t)
  PROVE  [Contract!Next]_Contract!vars
<1> USE DEF Inv
<1>1. Signaling(t) /\ thread[t] \in Operation
  BY DEF SignalOneFire, SignalAllFire, Signaling, At, Types
<1>2. PICK e \in Events : e = thread[t].event
  BY <1>1, SignallerLock
<1>3. /\ lock_[e] = t /\ waiters_[e] \in Seq(Threads) /\ IsInjective(waiters_[e])
      /\ e \in ManualReset <=> At(t, "SignalAll")
  BY <1>1, <1>2, SignallerLock DEF Types, Lists, Phases, Phase
<1>4. CASE SignalOneFire(t)
  <2>1. PICK u \in Threads : u = Head(waiters_[e]) /\ 1 \in DOMAIN waiters_[e] /\ u = waiters_[e][1]
    BY <1>2, <1>3, <1>4, PopList DEF SignalOneFire
  <2>2. /\ At(t, "SignalOne") /\ Fire(u, e) /\ signaled_' = signaled_
        /\ IF sw[u].fired_ THEN thread' = thread ELSE thread' = [thread EXCEPT ![t] = NoOperation]
    BY <1>2, <1>4, <2>1 DEF SignalOneFire
  <2>3. ~At(t, "SignalAll")
    BY <2>2 DEF At
  <2>4. Queued(u, e)
    BY <1>3, <2>1, <2>3 DEF Lists, Passed
  <2>5. /\ \A v \in Threads : v # t => thread'[v] = thread[v]
        /\ thread'[t].pc \in {"idle", "SignalOne", "SignalAll"}
        /\ thread'[t].event = IF e \notin ManualReset /\ ~sw[u].fired_ THEN NoEvent ELSE e
    BY <1>2, <1>3, <2>2, <2>3 DEF NoOperation, At, Types
  <2> QED
    BY <1>1, <1>2, <2>2, <2>4, <2>5, FireContract
<1>5. CASE SignalAllFire(t)
  <2>1. At(t, "SignalAll") /\ thread[t].pos <= Len(waiters_[e])
    BY <1>2, <1>5 DEF SignalAllFire
  <2>2. PICK p \in Nat : p = thread[t].pos /\ p >= 1
    BY <1>1 DEF Operation, Phases, Phase
  <2>3. PICK u \in Threads : u = waiters_[e][p] /\ p \in DOMAIN waiters_[e]
    BY <1>3, <2>1, <2>2
  <2>4. /\ Fire(u, e) /\ signaled_' = signaled_
        /\ thread' = [thread EXCEPT ![t].pos = @ + 1]
    BY <1>2, <1>5, <2>2, <2>3 DEF SignalAllFire
  <2>5. ~Passed(e, p)
    BY <1>3, <2>2 DEF Passed
  <2>6. Queued(u, e)
    BY <2>3, <2>5 DEF Lists
  <2>7. /\ \A v \in Threads : v # t => thread'[v] = thread[v]
        /\ thread'[t].pc = thread[t].pc /\ thread'[t].event = e
    BY <1>1, <1>2, <2>4 DEF Operation, Types
  <2>8. thread'[t].pc \in {"idle", "SignalOne", "SignalAll"}
    BY <2>1, <2>7 DEF At
  <2> QED
    BY <1>1, <1>2, <1>3, <2>1, <2>4, <2>6, <2>7, <2>8, FireContract
<1> QED
  BY <1>4, <1>5

\* WaitableEvent does, step by step, what waitable_event.h promises: every
\* signal is given to one waiter, to all of them, or kept; no wait that gives up
\* takes one with it.
THEOREM ContractImplemented == Spec => ImplementsContract
<1>1. ASSUME Inv, [Next]_vars PROVE [Contract!Next]_Contract!vars
  <2>1. CASE Next
    <3>1. PICK t \in Threads : NewCall(t) \/ Step(t)
      BY <2>1 DEF Next
    <3>2. CASE NewCall(t)
      BY <1>1, <3>2, FlagContract, BeginContract, TimedWaitContract DEF NewCall
    <3>3. CASE Step(t)
      BY <1>1, <3>3, KeepContract, SignalContract, WaiterContract, LeaveContract, EnqueueManyContract
         DEF Step
    <3> QED
      BY <3>1, <3>2, <3>3
  <2>2. CASE UNCHANGED vars
    <3>1. signaled' = signaled
      BY <2>2 DEF vars, signaled
    <3> QED
      BY <2>2, <3>1, SameForContract, StutterForContract DEF vars
  <2> QED
    BY <1>1, <2>1, <2>2
<1> QED
  BY <1>1, InitContract, Invariance, PTL DEF Spec, ImplementsContract, Contract!Spec
=============================================================================
