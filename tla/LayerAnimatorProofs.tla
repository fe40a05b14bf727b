---- MODULE LayerAnimatorProofs ----
(***************************************************************************)
(* For all sequences, strategies and calls: the animator, its queue and    *)
(* the heap agree in the middle of every loop, and between calls nothing   *)
(* that could run waits.  The invariant reads the stack of calls as a list *)
(* of debts: each frame says what frames below it have to do still (start  *)
(* what can start, update the timer, delete what the queue gave up), and   *)
(* what is wrong with the animator has a frame on the stack that will mend *)
(* it.  Each sequence that exists is in the queue or has one frame as its  *)
(* owner.                                                                  *)
(***************************************************************************)
EXTENDS LayerAnimator, FiniteSetTheorems, SequenceTheorems, TLAPS

Runs == [sequence : Addresses, start_time : Int]

\* Frames that have a sequence, those that own it, those that take sequences from
\* the queue or add to it and leave it to a frame below to start what can start
\* then, or to update the timer, and those that compare others with a sequence.
Sequences ==
  {"StartSequence", "Schedule", "Finish", "Delete", "RemoveDelete", "set", "animate",
   "enqueue", "replace", "RemoveRunning", "CopyQueue", "AddStart", "Ended", "Aborted"}
Owners == {"Schedule", "Delete", "set", "animate", "enqueue", "replace", "AddStart"}
Removers == {"set", "animate", "replace", "RemoveRunning", "CopyQueue", "AddStart", "ZeroOne",
             "RemoveDelete"}
Changers == Removers \cup {"Schedule", "Zero", "enqueue"}
Comparers == {"RemoveRunning", "CopyQueue"}
Starters == {"Zero", "ProcessQueue"}
\* Frames that nothing is called from: they are on top of the stack or nowhere.
Leaves == {"StartSequence", "Finish"}

Names ==
  Sequences \cup {"ProcessQueue", "Update", "Step", "Stop", "StopProperty", "Zero", "ZeroOne"}

Subjects == Addresses \cup {Null} \cup UNION {k.props : k \in Kinds}

FrameFields ==
  [function : Names, s : Subjects,
   copy : Seq(Runs), time : Int]

Functions(frames) == {frames[i].function : i \in 1 .. Len(frames)}
Owns(f) == IF f.function \in Owners THEN {f.s} ELSE {}
Owned(frames) == UNION {Owns(frames[i]) : i \in 1 .. Len(frames)}

\* A frame on top of frames with these functions, which own these sequences.
Fits(f, functions, owned) ==
  /\ f \in FrameFields
  /\ f.function \in Sequences => f.s \in Addresses
  /\ Owns(f) \cap owned = {}
  /\ f.function \in Removers => Starters \cap functions # {}
  /\ f.function \in Changers => "Update" \in functions
  /\ f.function \in Comparers => f.s \in owned
  /\ Leaves \cap functions = {}

OnTop(f, rest, frames) == frames = <<f>> \o rest
Below(frames, i) == SubSeq(frames, i + 1, Len(frames))
Nested(frames) ==
  \A i \in 1 .. Len(frames) :
    Fits(frames[i], Functions(Below(frames, i)), Owned(Below(frames, i)))

Types ==
  /\ heap \in [Addresses -> Kinds \cup {Null}]
  /\ animation_queue_ \in Seq(Addresses) /\ running_animations_ \in Seq(Runs)
  /\ last_step_time_ \in Int /\ now \in 0 .. MaxTime /\ calls \in 0 .. MaxCalls
  /\ is_started_ \in BOOLEAN /\ died \in BOOLEAN
  /\ stack \in Seq(FrameFields)

Disjoint(run, h) ==
  \A i, j \in 1 .. Len(run) : i # j =>
    h[run[i].sequence].props \cap h[run[j].sequence].props = {}

\* The queue: each of its sequences exists and is in it once, and the running
\* ones are among them and share no property.
Queued ==
  /\ IsInjective(animation_queue_)
  /\ \A s \in Range(animation_queue_) : heap[s] # Null
  /\ Running \subseteq Range(animation_queue_)
  /\ Disjoint(running_animations_, heap)

\* The sequences that exist: in the queue, or with an owner, or about to be started.
Starting == IF stack # <<>> /\ Top.function = "StartSequence" THEN {Top.s} ELSE {}
Existing ==
  /\ \A s \in Owned(stack) : heap[s] # Null /\ s \notin Range(animation_queue_)
  /\ \A s \in Addresses :
       heap[s] # Null => s \in Range(animation_queue_) \cup Owned(stack) \cup Starting

\* What is about to be finished is in the queue.  What is about to be started
\* exists, and where it is not in the queue it can start.
Leaving ==
  stack # <<>> =>
    /\ Top.function = "Finish" => Top.s \in Range(animation_queue_)
    /\ Top.function = "StartSequence" =>
         /\ heap[Top.s] # Null /\ Top.s \notin Owned(stack)
         /\ Top.s \notin Range(animation_queue_) =>
              ~Conflict(heap[Top.s].props) /\ "Update" \in Functions(stack)

\* Each sequence of the queue shares a property with one that goes first.
Stuck ==
  \A i \in 1 .. Len(animation_queue_) :
    \/ \E s \in Running : heap[s].props \cap heap[animation_queue_[i]].props # {}
    \/ \E j \in 1 .. i - 1 :
         heap[animation_queue_[j]].props \cap heap[animation_queue_[i]].props # {}

\* Where a sequence could start, or the timer is to start or stop, there is a
\* frame that will do it.
Mended ==
  /\ Stuck \/ Starters \cap Functions(stack) # {}
  /\ is_started_ = is_animating \/ "Update" \in Functions(stack)

Inv == Types /\ Queued /\ Nested(stack) /\ Existing /\ Leaving /\ Mended
-----------------------------------------------------------------------------
(* Lists *)

\* Of some places in a list one comes first.
LEMMA MinFacts ==
  ASSUME NEW n \in Nat, NEW S \in SUBSET (1 .. n), S # {}
  PROVE  Min(S) \in S /\ Min(S) \in 1 .. n
<1> DEFINE Lower(m) == {x \in S : x < m}
<1>1. IsWellFoundedOn(StrictSubsetOrdering(S), SUBSET S)
  <2>1. IsFiniteSet(1 .. n)
    BY FS_Interval
  <2>2. IsFiniteSet(S)
    BY <2>1, FS_Subset
  <2> QED
    BY <2>2, FS_StrictSubsetOrderingWellFounded, FS_FiniteSubsetsOfFinite
<1>2. PICK m \in S : \A x \in S : m <= x
  <2>1. PICK m \in S : \A y \in S : ~(<<Lower(y), Lower(m)>> \in StrictSubsetOrdering(S))
    <3> DEFINE T == {Lower(x) : x \in S}
    <3>1. T \subseteq SUBSET S /\ T # {}
      OBVIOUS
    <3>2. \E X \in T : \A Y \in T : ~(<<Y, X>> \in StrictSubsetOrdering(S))
      <4> HIDE DEF T
      <4> QED
        BY <1>1, <3>1, WFMin
    <3> QED
      BY <3>2
  <2> SUFFICES ASSUME NEW x \in S, x < m PROVE FALSE
    OBVIOUS
  <2>2. x \in Nat /\ m \in Nat /\ \A y \in S : y \in Nat
    OBVIOUS
  <2>3. Lower(x) \subseteq Lower(m) /\ x \in Lower(m) /\ x \notin Lower(x)
    <3>1. \A y \in S : y < x => y < m
      BY <2>2
    <3>2. ~(x < x)
      BY <2>2
    <3> QED
      BY <3>1, <3>2
  <2>4. Lower(x) \in SUBSET S /\ Lower(m) \in SUBSET S
    OBVIOUS
  <2> HIDE DEF Lower
  <2> QED
    BY <2>1, <2>3, <2>4 DEF StrictSubsetOrdering
<1>3. Min(S) \in S
  BY <1>2 DEF Min
<1> QED
  BY <1>3

\* A list without the entry at one place.
LEMMA RemoveAtFacts ==
  ASSUME NEW S, NEW list \in Seq(S), NEW m \in 1 .. Len(list)
  PROVE  /\ RemoveAt(list, m) \in Seq(S) /\ Len(RemoveAt(list, m)) = Len(list) - 1
         /\ \A i \in 1 .. Len(list) - 1 :
              RemoveAt(list, m)[i] = IF i < m THEN list[i] ELSE list[i + 1]
<1> DEFINE n == Len(list)
           a == SubSeq(list, 1, m - 1)
           b == SubSeq(list, m + 1, n)
           r == a \o b
<1>1. RemoveAt(list, m) = r
  BY DEF RemoveAt
<1>2. n \in Nat /\ m \in 1 .. n /\ DOMAIN list = 1 .. n /\ \A i \in 1 .. n : list[i] \in S
  OBVIOUS
<1>3. /\ a \in Seq(S) /\ Len(a) = m - 1 /\ \A i \in 1 .. m - 1 : a[i] = list[i]
  <2>1. \A i \in 1 .. m - 1 : list[i] \in S
    BY <1>2
  <2> QED
    BY <1>2, <2>1, SubSeqProperties
<1>4. /\ b \in Seq(S) /\ Len(b) = n - m /\ \A i \in 1 .. n - m : b[i] = list[m + i]
  <2>1. \A i \in m + 1 .. n : list[i] \in S
    BY <1>2
  <2>2. /\ b \in Seq(S) /\ Len(b) = IF m + 1 <= n THEN n - (m + 1) + 1 ELSE 0
        /\ \A i \in 1 .. n - (m + 1) + 1 : b[i] = list[(m + 1) + i - 1]
    <3> HIDE DEF n
    <3>1. m + 1 \in Int /\ n \in Int
      BY <1>2
    <3> QED
      BY <2>1, <3>1, SubSeqProperties DEF n
  <2> HIDE DEF n, b
  <2> QED
    BY <1>2, <2>2
<1> HIDE DEF a, b, n
<1>5. /\ r \in Seq(S) /\ Len(r) = n - 1
      /\ \A i \in 1 .. n - 1 : r[i] = IF i <= m - 1 THEN a[i] ELSE b[i - (m - 1)]
  <2>1. /\ r \in Seq(S) /\ Len(r) = Len(a) + Len(b)
        /\ \A i \in 1 .. Len(a) + Len(b) : r[i] = IF i <= Len(a) THEN a[i] ELSE b[i - Len(a)]
    BY <1>3, <1>4, ConcatProperties
  <2>2. Len(a) + Len(b) = n - 1 /\ Len(a) = m - 1
    BY <1>2, <1>3, <1>4
  <2> HIDE DEF r
  <2> QED
    BY <2>1, <2>2
<1> HIDE DEF r
<1>6. \A i \in 1 .. n - 1 : r[i] = IF i < m THEN list[i] ELSE list[i + 1]
  <2> TAKE i \in 1 .. n - 1
  <2>1. CASE i < m
    BY <1>2, <1>3, <1>5, <2>1
  <2>2. CASE ~(i < m)
    <3>1. i - (m - 1) \in 1 .. n - m /\ m + (i - (m - 1)) = i + 1 /\ ~(i <= m - 1)
      BY <1>2, <2>2
    <3>2. r[i] = b[i - (m - 1)]
      BY <1>5, <3>1
    <3>3. b[i - (m - 1)] = list[m + (i - (m - 1))]
      BY <1>4, <3>1
    <3> QED
      BY <2>2, <3>1, <3>2, <3>3
  <2> QED
    BY <2>1, <2>2
<1> QED
  BY <1>1, <1>5, <1>6 DEF n

\* A list in which every entry has one place.
LEMMA RemoveAtRange ==
  ASSUME NEW S, NEW list \in Seq(S), NEW m \in 1 .. Len(list), IsInjective(list)
  PROVE  /\ IsInjective(RemoveAt(list, m))
         /\ Range(RemoveAt(list, m)) = Range(list) \ {list[m]}
<1> DEFINE n == Len(list)
           r == RemoveAt(list, m)
<1>1. n \in Nat /\ m \in 1 .. n /\ DOMAIN list = 1 .. n
  OBVIOUS
<1>2. /\ DOMAIN r = 1 .. n - 1
      /\ \A i \in 1 .. n - 1 : r[i] = IF i < m THEN list[i] ELSE list[i + 1]
  BY RemoveAtFacts
<1>3. \A i, j \in 1 .. n : list[i] = list[j] => i = j
  BY <1>1 DEF IsInjective
<1> HIDE DEF n, r
<1>4. \A i \in 1 .. n - 1 : (IF i < m THEN i ELSE i + 1) \in (1 .. n) \ {m}
  BY <1>1
<1>5. ASSUME NEW i \in 1 .. n - 1, NEW j \in 1 .. n - 1, r[i] = r[j] PROVE i = j
  <2> DEFINE at(k) == IF k < m THEN k ELSE k + 1
  <2>1. r[i] = list[at(i)] /\ r[j] = list[at(j)]
    BY <1>2
  <2>2. at(i) = at(j)
    <3>1. at(i) \in 1 .. n /\ at(j) \in 1 .. n
      BY <1>4
    <3> QED
      BY <1>3, <1>5, <2>1, <3>1
  <2> QED
    BY <1>1, <2>2
<1>6. IsInjective(r)
  BY <1>2, <1>5 DEF IsInjective
<1>7. ASSUME NEW x \in Range(r) PROVE x \in Range(list) \ {list[m]}
  <2>1. PICK i \in 1 .. n - 1 : x = r[i]
    BY <1>2, <1>7 DEF Range
  <2>2. PICK k \in (1 .. n) \ {m} : x = list[k]
    BY <1>2, <1>4, <2>1
  <2> QED
    BY <1>1, <1>3, <2>2 DEF Range
<1>8. ASSUME NEW x \in Range(list), x # list[m] PROVE x \in Range(r)
  <2>1. PICK k \in 1 .. n : x = list[k]
    BY <1>1, <1>8 DEF Range
  <2>2. CASE k < m
    <3>1. k \in 1 .. n - 1 /\ r[k] = list[k]
      BY <1>1, <1>2, <2>2
    <3> QED
      BY <1>2, <2>1, <3>1 DEF Range
  <2>3. CASE k > m
    <3>1. k - 1 \in 1 .. n - 1 /\ ~(k - 1 < m) /\ (k - 1) + 1 = k
      BY <1>1, <2>3
    <3>2. r[k - 1] = list[k]
      BY <1>2, <3>1
    <3> QED
      BY <1>2, <2>1, <3>1, <3>2 DEF Range
  <2> QED
    BY <1>1, <1>8, <2>1, <2>2, <2>3
<1>9. Range(r) = Range(list) \ {list[m]}
  BY <1>7, <1>8
<1> QED
  BY <1>6, <1>9 DEF r

\* What is in a list.
LEMMA RangeFacts ==
  ASSUME NEW S, NEW list \in Seq(S)
  PROVE  /\ Range(list) \subseteq S
         /\ \A i \in 1 .. Len(list) : list[i] \in Range(list)
         /\ \A x \in Range(list) : \E i \in 1 .. Len(list) : list[i] = x
BY DEF Range

\* Entries in front of a list.
LEMMA ConsFacts ==
  ASSUME NEW S, NEW e \in S, NEW list \in Seq(S)
  PROVE  /\ <<e>> \o list \in Seq(S) /\ Len(<<e>> \o list) = Len(list) + 1
         /\ (<<e>> \o list)[1] = e
         /\ \A i \in 1 .. Len(list) : (<<e>> \o list)[i + 1] = list[i]
         /\ <<e>> \o list # <<>> /\ Head(<<e>> \o list) = e /\ Tail(<<e>> \o list) = list
OBVIOUS
-----------------------------------------------------------------------------
(* The stack *)

\* A frame on top of others: what it adds to their functions and sequences.
LEMMA Parts ==
  ASSUME NEW f \in FrameFields, NEW rest \in Seq(FrameFields),
         NEW frames, frames = <<f>> \o rest
  PROVE  /\ frames \in Seq(FrameFields) /\ frames # <<>>
         /\ Head(frames) = f /\ Tail(frames) = rest
         /\ Functions(frames) = {f.function} \cup Functions(rest)
         /\ Owned(frames) = Owns(f) \cup Owned(rest)
         /\ Nested(frames) <=> Fits(f, Functions(rest), Owned(rest)) /\ Nested(rest)
<1> DEFINE n == Len(rest)
<1>1. /\ frames \in Seq(FrameFields) /\ frames # <<>> /\ Head(frames) = f /\ Tail(frames) = rest
      /\ n \in Nat /\ Len(frames) = n + 1 /\ frames[1] = f
      /\ \A i \in 1 .. n : frames[i + 1] = rest[i]
  BY ConsFacts
<1>2. \A i \in 1 .. n : i + 1 \in 1 .. n + 1
  BY <1>1
<1>3. \A i \in 1 .. n + 1 : i = 1 \/ (i - 1 \in 1 .. n /\ (i - 1) + 1 = i)
  BY <1>1
<1>4. 1 \in 1 .. n + 1
  BY <1>1
<1>5. Functions(frames) = {f.function} \cup Functions(rest)
  <2>1. ASSUME NEW x \in Functions(frames) PROVE x \in {f.function} \cup Functions(rest)
    <3>1. PICK i \in 1 .. n + 1 : x = frames[i].function
      BY <1>1, <2>1 DEF Functions
    <3>2. CASE i = 1
      BY <1>1, <3>1, <3>2
    <3>3. CASE i - 1 \in 1 .. n /\ (i - 1) + 1 = i
      <4>1. frames[i] = rest[i - 1]
        BY <1>1, <3>3
      <4> QED
        BY <3>1, <3>3, <4>1 DEF Functions
    <3> QED
      BY <1>3, <3>2, <3>3
  <2>2. f.function \in Functions(frames)
    BY <1>1, <1>4 DEF Functions
  <2>3. ASSUME NEW x \in Functions(rest) PROVE x \in Functions(frames)
    <3>1. PICK i \in 1 .. n : x = rest[i].function
      BY <2>3 DEF Functions
    <3> QED
      BY <1>1, <1>2, <3>1 DEF Functions
  <2> QED
    BY <2>1, <2>2, <2>3
<1>6. Owned(frames) = Owns(f) \cup Owned(rest)
  <2>1. ASSUME NEW x \in Owned(frames) PROVE x \in Owns(f) \cup Owned(rest)
    <3>1. PICK i \in 1 .. n + 1 : x \in Owns(frames[i])
      BY <1>1, <2>1 DEF Owned
    <3>2. CASE i = 1
      BY <1>1, <3>1, <3>2
    <3>3. CASE i - 1 \in 1 .. n /\ (i - 1) + 1 = i
      <4>1. frames[i] = rest[i - 1]
        BY <1>1, <3>3
      <4> QED
        BY <3>1, <3>3, <4>1 DEF Owned
    <3> QED
      BY <1>3, <3>2, <3>3
  <2>2. ASSUME NEW x \in Owns(f) PROVE x \in Owned(frames)
    BY <1>1, <1>4, <2>2 DEF Owned
  <2>3. ASSUME NEW x \in Owned(rest) PROVE x \in Owned(frames)
    <3>1. PICK i \in 1 .. n : x \in Owns(rest[i])
      BY <2>3 DEF Owned
    <3> QED
      BY <1>1, <1>2, <3>1 DEF Owned
  <2> QED
    BY <2>1, <2>2, <2>3
<1>7. Below(frames, 1) = rest
  <2>1. Below(frames, 1) = Tail(frames)
    BY <1>1, TailIsSubSeq DEF Below
  <2> QED
    BY <1>1, <2>1
<1>8. ASSUME NEW i \in 1 .. n PROVE Below(frames, i + 1) = Below(rest, i)
  <2> DEFINE x == Below(frames, i + 1)
             y == Below(rest, i)
             m == n - i
  <2>1. \A k \in 1 .. n : rest[k] \in FrameFields
    OBVIOUS
  <2>2. /\ x \in Seq(FrameFields) /\ Len(x) = m
        /\ \A k \in 1 .. m : x[k] = frames[(i + 1) + k]
    <3>1. \A k \in (i + 1) + 1 .. n + 1 : frames[k] \in FrameFields
      BY <1>1
    <3>2. /\ SubSeq(frames, (i + 1) + 1, n + 1) \in Seq(FrameFields)
          /\ Len(SubSeq(frames, (i + 1) + 1, n + 1)) =
               IF (i + 1) + 1 <= n + 1 THEN (n + 1) - ((i + 1) + 1) + 1 ELSE 0
          /\ \A k \in 1 .. (n + 1) - ((i + 1) + 1) + 1 :
               SubSeq(frames, (i + 1) + 1, n + 1)[k] = frames[((i + 1) + 1) + k - 1]
      <4>1. (i + 1) + 1 \in Int /\ n + 1 \in Int
        BY <1>1
      <4> HIDE DEF n
      <4> QED
        BY <1>1, <3>1, <4>1, SubSeqProperties
    <3>3. x = SubSeq(frames, (i + 1) + 1, n + 1)
      BY <1>1 DEF Below
    <3> HIDE DEF x, n
    <3>4. /\ (IF (i + 1) + 1 <= n + 1 THEN (n + 1) - ((i + 1) + 1) + 1 ELSE 0) = m
          /\ (n + 1) - ((i + 1) + 1) + 1 = m
          /\ \A k \in 1 .. m : ((i + 1) + 1) + k - 1 = (i + 1) + k
      BY <1>1
    <3> HIDE DEF m
    <3> QED
      BY <3>2, <3>3, <3>4
  <2>3. /\ y \in Seq(FrameFields) /\ Len(y) = m
        /\ \A k \in 1 .. m : y[k] = rest[i + k]
    <3>1. \A k \in i + 1 .. n : rest[k] \in FrameFields
      BY <2>1
    <3>2. /\ SubSeq(rest, i + 1, n) \in Seq(FrameFields)
          /\ Len(SubSeq(rest, i + 1, n)) = IF i + 1 <= n THEN n - (i + 1) + 1 ELSE 0
          /\ \A k \in 1 .. n - (i + 1) + 1 : SubSeq(rest, i + 1, n)[k] = rest[(i + 1) + k - 1]
      <4>1. i + 1 \in Int /\ n \in Int
        BY <1>1
      <4> QED
        BY <3>1, <4>1, SubSeqProperties
    <3>3. y = SubSeq(rest, i + 1, n)
      BY DEF Below
    <3> HIDE DEF y, n
    <3>4. /\ (IF i + 1 <= n THEN n - (i + 1) + 1 ELSE 0) = m
          /\ n - (i + 1) + 1 = m
          /\ \A k \in 1 .. m : (i + 1) + k - 1 = i + k
      BY <1>1
    <3> HIDE DEF m
    <3> QED
      BY <3>2, <3>3, <3>4
  <2>4. \A k \in 1 .. m : x[k] = y[k]
    <3> TAKE k \in 1 .. m
    <3>1. i + k \in 1 .. n /\ (i + k) + 1 = (i + 1) + k
      BY <1>1
    <3>2. frames[(i + k) + 1] = rest[i + k]
      BY <1>1, <3>1
    <3> QED
      BY <2>2, <2>3, <3>1, <3>2
  <2> HIDE DEF x, y, m
  <2>5. x = y
    BY <2>2, <2>3, <2>4, SeqEqual
  <2> QED
    BY <2>5 DEF x, y
<1>9. Nested(frames) <=> Fits(f, Functions(rest), Owned(rest)) /\ Nested(rest)
  <2> DEFINE Right(list, i) == Fits(list[i], Functions(Below(list, i)), Owned(Below(list, i)))
  <2>1. Right(frames, 1) <=> Fits(f, Functions(rest), Owned(rest))
    BY <1>1, <1>7
  <2>2. \A i \in 1 .. n : Right(frames, i + 1) <=> Right(rest, i)
    BY <1>1, <1>8
  <2>3. Nested(frames) <=> \A i \in 1 .. n + 1 : Right(frames, i)
    BY <1>1 DEF Nested
  <2>4. Nested(rest) <=> \A i \in 1 .. n : Right(rest, i)
    BY DEF Nested
  <2> HIDE DEF Right, n
  <2>5. (\A i \in 1 .. n + 1 : Right(frames, i)) <=>
          Right(frames, 1) /\ \A i \in 1 .. n : Right(frames, i + 1)
    BY <1>1, <1>2, <1>3, <1>4
  <2> QED
    BY <2>1, <2>2, <2>3, <2>4, <2>5
<1> QED
  BY <1>1, <1>5, <1>6, <1>9
\* The first of two entries.
LEMMA Pair == ASSUME NEW S, NEW a \in S, NEW b \in S PROVE <<a, b>> = <<a>> \o <<b>>
<1> DEFINE x == <<a>>
           y == <<b>>
<1>1. /\ x \in Seq(S) /\ y \in Seq(S) /\ Len(x) = 1 /\ Len(y) = 1 /\ x[1] = a /\ y[1] = b
  OBVIOUS
<1> HIDE DEF x, y
<1>2. x \o y \in Seq(S) /\ Len(x \o y) = 2 /\ (x \o y)[1] = a /\ (x \o y)[2] = b
  <2>1. /\ x \o y \in Seq(S) /\ Len(x \o y) = Len(x) + Len(y)
        /\ \A i \in 1 .. Len(x) + Len(y) :
             (x \o y)[i] = IF i <= Len(x) THEN x[i] ELSE y[i - Len(x)]
    BY <1>1, ConcatProperties
  <2>2. Len(x) + Len(y) = 2 /\ 1 \in 1 .. 2 /\ 2 \in 1 .. 2 /\ 1 <= 1 /\ ~(2 <= 1) /\ 2 - 1 = 1
    BY <1>1
  <2> QED
    BY <1>1, <2>1, <2>2
<1>3. <<a, b>> \in Seq(S) /\ Len(<<a, b>>) = 2 /\ <<a, b>>[1] = a /\ <<a, b>>[2] = b
  OBVIOUS
<1>4. x \o y = <<a, b>>
  <2> DEFINE z == <<a, b>>
  <2>1. z \in Seq(S) /\ Len(z) = 2 /\ z[1] = a /\ z[2] = b
    BY <1>3
  <2> HIDE DEF z
  <2>2. \A i \in 1 .. 2 : i = 1 \/ i = 2
    OBVIOUS
  <2>3. x \o y = z
    BY <1>2, <2>1, <2>2, SeqEqual
  <2> QED
    BY <2>3 DEF z
<1> QED
  BY <1>4 DEF x, y

\* Two frames on a stack, one at a time.
LEMMA Chain2 ==
  ASSUME NEW rest \in Seq(FrameFields), NEW a \in FrameFields, NEW b \in FrameFields,
         NEW frames, frames = <<a, b>> \o rest
  PROVE  \E u \in Seq(FrameFields) : OnTop(b, rest, u) /\ OnTop(a, u, frames)
<1> DEFINE x == <<a>>
           y == <<b>>
<1>1. x \in Seq(FrameFields) /\ y \in Seq(FrameFields)
  OBVIOUS
<1>2. <<a, b>> = x \o y
  BY Pair
<1> HIDE DEF x, y
<1>3. ASSUME NEW S, x \in Seq(S), y \in Seq(S), rest \in Seq(S)
      PROVE  (x \o y) \o rest = x \o (y \o rest) /\ y \o rest \in Seq(S)
  BY <1>3, ConcatAssociative, ConcatProperties, SMTT(60)
<1>4. (x \o y) \o rest = x \o (y \o rest) /\ y \o rest \in Seq(FrameFields)
  BY <1>1, <1>3
<1> QED
  BY <1>2, <1>4 DEF x, y, OnTop

\* Three frames.
LEMMA Chain3 ==
  ASSUME NEW rest \in Seq(FrameFields), NEW a \in FrameFields, NEW b \in FrameFields,
         NEW c \in FrameFields, NEW frames, frames = <<a, b, c>> \o rest
  PROVE  \E u, v \in Seq(FrameFields) :
           OnTop(c, rest, v) /\ OnTop(b, v, u) /\ OnTop(a, u, frames)
<1> DEFINE x == <<a>>
           y == <<b, c>>
<1>1. x \in Seq(FrameFields) /\ y \in Seq(FrameFields)
  OBVIOUS
<1>2. <<a, b, c>> = x \o y
  OBVIOUS
<1> HIDE DEF x, y
<1>3. ASSUME NEW S, x \in Seq(S), y \in Seq(S), rest \in Seq(S)
      PROVE  (x \o y) \o rest = x \o (y \o rest) /\ y \o rest \in Seq(S)
  BY <1>3, ConcatAssociative, ConcatProperties, SMTT(60)
<1>4. (x \o y) \o rest = x \o (y \o rest) /\ y \o rest \in Seq(FrameFields)
  BY <1>1, <1>3
<1> PICK u \in Seq(FrameFields) : u = y \o rest
  BY <1>4
<1>5. \E v \in Seq(FrameFields) : OnTop(c, rest, v) /\ OnTop(b, v, u)
  <2>1. u = <<b, c>> \o rest
    BY DEF y
  <2> QED
    BY <2>1, Chain2
<1>6. OnTop(a, u, frames)
  BY <1>2, <1>4 DEF x, OnTop
<1> QED
  BY <1>5, <1>6

\* Four frames.
LEMMA Chain4 ==
  ASSUME NEW rest \in Seq(FrameFields), NEW a \in FrameFields, NEW b \in FrameFields,
         NEW c \in FrameFields, NEW d \in FrameFields, NEW frames, frames = <<a, b, c, d>> \o rest
  PROVE  \E u, v, w \in Seq(FrameFields) :
           OnTop(d, rest, w) /\ OnTop(c, w, v) /\ OnTop(b, v, u) /\ OnTop(a, u, frames)
<1> DEFINE x == <<a, b>>
           y == <<c, d>>
<1>1. x \in Seq(FrameFields) /\ y \in Seq(FrameFields)
  OBVIOUS
<1>2. <<a, b, c, d>> = x \o y
  OBVIOUS
<1> HIDE DEF x, y
<1>3. ASSUME NEW S, x \in Seq(S), y \in Seq(S), rest \in Seq(S)
      PROVE  (x \o y) \o rest = x \o (y \o rest) /\ y \o rest \in Seq(S)
  BY <1>3, ConcatAssociative, ConcatProperties, SMTT(60)
<1>4. (x \o y) \o rest = x \o (y \o rest) /\ y \o rest \in Seq(FrameFields)
  BY <1>1, <1>3
<1> PICK v \in Seq(FrameFields) : v = y \o rest
  BY <1>4
<1>5. \E w \in Seq(FrameFields) : OnTop(d, rest, w) /\ OnTop(c, w, v)
  <2>1. v = <<c, d>> \o rest
    BY DEF y
  <2> QED
    BY <2>1, Chain2
<1>6. \E u \in Seq(FrameFields) : OnTop(b, v, u) /\ OnTop(a, u, frames)
  <2>1. frames = <<a, b>> \o v
    BY <1>2, <1>4 DEF x
  <2> QED
    BY <2>1, Chain2
<1> QED
  BY <1>5, <1>6

\* A frame goes on top of the others when it fits.
LEMMA Push ==
  ASSUME NEW rest \in Seq(FrameFields), Nested(rest), NEW a \in FrameFields,
         Fits(a, Functions(rest), Owned(rest)), NEW frames, OnTop(a, rest, frames)
  PROVE  /\ frames \in Seq(FrameFields) /\ Nested(frames) /\ frames # <<>> /\ Head(frames) = a
         /\ Functions(frames) = {a.function} \cup Functions(rest)
         /\ Owned(frames) = Owns(a) \cup Owned(rest)
BY Parts DEF OnTop

\* The frame in progress, and what is below it.
LEMMA TopFacts ==
  ASSUME Types, Nested(stack), stack # <<>>
  PROVE  /\ Tail(stack) \in Seq(FrameFields) /\ Nested(Tail(stack))
         /\ Top \in FrameFields /\ Fits(Top, Functions(Tail(stack)), Owned(Tail(stack)))
         /\ Functions(stack) = {Top.function} \cup Functions(Tail(stack))
         /\ Owned(stack) = Owns(Top) \cup Owned(Tail(stack))
<1>1. /\ Tail(stack) \in Seq(FrameFields) /\ Top \in FrameFields
      /\ stack = <<Top>> \o Tail(stack)
  BY DEF Types, Top
<1> QED
  BY <1>1, Parts

\* Frames of calls by the animator itself.
LEMMA FrameFacts ==
  ASSUME NEW function \in Names, NEW s \in Subjects,
         NEW copy \in Seq(Runs), NEW time \in Int
  PROVE  /\ Frame(function, s, copy, time) \in FrameFields
         /\ Frame(function, s, copy, time).function = function
         /\ Frame(function, s, copy, time).s = s
         /\ Frame(function, s, copy, time).copy = copy
BY DEF Frame, FrameFields

\* The frame of a function that has no sequence.
LEMMA CallFacts ==
  ASSUME NEW function \in Names
  PROVE  Call(function) \in FrameFields /\ Call(function).function = function
<1>1. <<>> \in Seq(Runs) /\ Null \in Subjects
  BY DEF Subjects
<1> DEFINE none == <<>>
<1>2. Call(function) = Frame(function, Null, none, 0) /\ none \in Seq(Runs)
  BY <1>1 DEF Call
<1>3. 0 \in Int
  OBVIOUS
<1> HIDE DEF none
<1>4. /\ Frame(function, Null, none, 0) \in FrameFields
      /\ Frame(function, Null, none, 0).function = function
  BY <1>1, <1>2, <1>3 DEF Frame, FrameFields
<1> QED
  BY <1>2, <1>4

\* The frame of a function on a sequence.
LEMMA OnFacts ==
  ASSUME NEW function \in Names, NEW s \in Addresses
  PROVE  /\ On(function, s) \in FrameFields /\ On(function, s).function = function
         /\ On(function, s).s = s
<1>1. <<>> \in Seq(Runs) /\ s \in Subjects
  BY DEF Subjects
<1> DEFINE none == <<>>
<1>2. On(function, s) = Frame(function, s, none, 0) /\ none \in Seq(Runs)
  BY <1>1 DEF On
<1>3. 0 \in Int
  OBVIOUS
<1> HIDE DEF none
<1>4. /\ Frame(function, s, none, 0) \in FrameFields
      /\ Frame(function, s, none, 0).function = function
      /\ Frame(function, s, none, 0).s = s
  BY <1>1, <1>2, <1>3 DEF Frame, FrameFields
<1> QED
  BY <1>2, <1>4

\* A frame whose copy gets shorter.
LEMMA NextOneFacts ==
  ASSUME Top \in FrameFields, Top.copy # <<>>
  PROVE  /\ NextOne \in FrameFields /\ NextOne.function = Top.function /\ NextOne.s = Top.s
         /\ Head(Top.copy).sequence \in Addresses
<1>1. Top.copy \in Seq(Runs)
  BY DEF FrameFields
<1>2. Tail(Top.copy) \in Seq(Runs) /\ Head(Top.copy) \in Runs
  BY <1>1
<1> QED
  BY <1>2 DEF NextOne, FrameFields, Runs
-----------------------------------------------------------------------------
(* Steps that leave the sequences where they are *)

\* Where no frame is about to finish or to start a sequence.
LEMMA NotLeaving ==
  ASSUME stack' \in Seq(FrameFields), Leaves \cap Functions(stack') = {}
  PROVE  Leaving' /\ Starting' = {}
<1>1. stack' # <<>> => Head(stack').function \notin Leaves
  <2>1. stack' # <<>> => 1 \in 1 .. Len(stack') /\ Head(stack') = stack'[1]
    OBVIOUS
  <2> QED
    BY <2>1 DEF Functions
<1> QED
  BY <1>1 DEF Leaving, Starting, Top, Leaves

\* Nothing but the stack, the clocks and the history changes.
LEMMA Quiet ==
  ASSUME Inv, UNCHANGED <<heap, animation_queue_, running_animations_, is_started_>>,
         last_step_time_' \in Int, now' \in 0 .. MaxTime, calls' \in 0 .. MaxCalls,
         died' \in BOOLEAN,
         stack' \in Seq(FrameFields), Nested(stack'), Owned(stack') = Owned(stack),
         Starting \subseteq Range(animation_queue_), Leaving',
         Stuck \/ Starters \cap Functions(stack') # {},
         is_started_ = is_animating \/ "Update" \in Functions(stack')
  PROVE  Inv'
<1>1. Types'
  BY DEF Inv, Types
<1>2. Queued'
  BY DEF Inv, Queued, Running, Disjoint
<1>3. Nested(stack)'
  OBVIOUS
<1>4. Existing'
  BY DEF Inv, Existing
<1>5. Stuck' = Stuck /\ is_animating' = is_animating
  BY DEF Stuck, Running, is_animating
<1>6. Mended'
  BY <1>5 DEF Mended
<1> QED
  BY <1>1, <1>2, <1>3, <1>4, <1>6 DEF Inv

\* The stack of a step, with what is below the frame in progress.
LEMMA Stack ==
  ASSUME Inv, stack # <<>>
  PROVE  /\ Tail(stack) \in Seq(FrameFields) /\ Nested(Tail(stack))
         /\ Top \in FrameFields /\ Fits(Top, Functions(Tail(stack)), Owned(Tail(stack)))
         /\ Functions(stack) = {Top.function} \cup Functions(Tail(stack))
         /\ Owned(stack) = Owns(Top) \cup Owned(Tail(stack))
         /\ Leaves \cap Functions(Tail(stack)) = {}
         /\ last_step_time_ \in Int /\ now \in 0 .. MaxTime /\ calls \in 0 .. MaxCalls
         /\ died \in BOOLEAN
<1>1. Types /\ Nested(stack)
  BY DEF Inv
<1> QED
  BY <1>1, TopFacts DEF Fits, Types

\* A frame that is done: nothing was owed to it or by it.
LEMMA Done ==
  ASSUME Inv, stack # <<>>, Go(<<>>), Owns(Top) = {}, Top.function \notin Leaves,
         UNCHANGED <<heap, animation_queue_, running_animations_, last_step_time_,
                     is_started_, now, calls>>,
         died' \in BOOLEAN,
         Top.function \in Starters => Stuck,
         Top.function # "Update"
  PROVE  Inv'
<1>1. stack' = Tail(stack)
  <2>1. Tail(stack) \in Seq(FrameFields)
    BY Stack
  <2> QED
    BY <2>1, ConcatEmptySeq DEF Go
<1>2. Leaving'
  BY <1>1, Stack, NotLeaving
<1>3. Starting = {}
  BY DEF Starting, Leaves
<1>4. /\ Stuck \/ Starters \cap Functions(stack') # {}
      /\ is_started_ = is_animating \/ "Update" \in Functions(stack')
  BY <1>1, Stack DEF Inv, Mended
<1>5. Owned(stack') = Owned(stack)
  BY <1>1, Stack
<1>6. /\ stack' \in Seq(FrameFields) /\ Nested(stack')
      /\ last_step_time_' \in Int /\ now' \in 0 .. MaxTime /\ calls' \in 0 .. MaxCalls
  BY <1>1, Stack
<1> QED
  BY <1>2, <1>3, <1>4, <1>5, <1>6, Quiet

\* NotifyEnded and NotifyAborted.
LEMMA NotifiedInv ==
  ASSUME Inv, Notified
  PROVE  Inv'
<1>1. stack # <<>> /\ Top.function \in {"Ended", "Aborted"} /\ Go(<<>>)
      /\ UNCHANGED <<heap, animation_queue_, running_animations_, last_step_time_,
                     is_started_, now, calls, died>>
  BY DEF Notified, At, Idle, animator
<1>2. Owns(Top) = {} /\ Top.function \notin Leaves /\ Top.function \notin Starters
      /\ Top.function # "Update"
  BY <1>1 DEF Owns, Owners, Leaves, Starters
<1>3. died' \in BOOLEAN
  BY <1>1, Stack
<1> QED
  BY <1>1, <1>2, <1>3, Done
\* What frames need of those below them.
LEMMA FitsPlain ==
  ASSUME NEW f \in FrameFields, NEW F, NEW O, Leaves \cap F = {},
         f.function \in {"ProcessQueue", "Update", "Step", "Stop", "StopProperty"}
  PROVE  Fits(f, F, O) /\ Owns(f) = {}
<1>1. f.function \notin Sequences \cup Owners \cup Removers \cup Changers \cup Comparers
  BY DEF Sequences, Owners, Removers, Changers, Comparers
<1> QED
  BY <1>1 DEF Fits, Owns

\* A sequence's observer is told, or it is about to be started or finished.
LEMMA FitsNamed ==
  ASSUME NEW f \in FrameFields, NEW F, NEW O, Leaves \cap F = {}, f.s \in Addresses,
         f.function \in {"Ended", "Aborted", "StartSequence", "Finish"}
  PROVE  Fits(f, F, O) /\ Owns(f) = {}
<1>1. f.function \notin Owners \cup Removers \cup Changers \cup Comparers
  BY DEF Owners, Removers, Changers, Comparers
<1> QED
  BY <1>1 DEF Fits, Owns

\* A sequence is about to be deleted.
LEMMA FitsOwner ==
  ASSUME NEW f \in FrameFields, NEW F, NEW O, Leaves \cap F = {}, f.s \in Addresses,
         f.s \notin O, f.function = "Delete"
  PROVE  Fits(f, F, O) /\ Owns(f) = {f.s}
<1>1. f.function \in Owners /\ f.function \notin Removers \cup Changers \cup Comparers
  BY DEF Owners, Removers, Changers, Comparers
<1> QED
  BY <1>1 DEF Fits, Owns

\* A sequence nobody owns is about to be scheduled or started by a strategy.
LEMMA FitsNew ==
  ASSUME NEW f \in FrameFields, NEW F, NEW O, Leaves \cap F = {}, f.s \in Addresses,
         f.s \notin O, "Update" \in F, f.function \in Removers => Starters \cap F # {},
         f.function \in {"Schedule", "enqueue", "replace", "set", "animate", "AddStart"}
  PROVE  Fits(f, F, O) /\ Owns(f) = {f.s}
<1>1. f.function \in Owners /\ f.function \notin Comparers
  BY DEF Owners, Comparers
<1> QED
  BY <1>1 DEF Fits, Owns

\* Frames that take sequences from the queue and own none.
LEMMA FitsRemover ==
  ASSUME NEW f \in FrameFields, NEW F, NEW O, Leaves \cap F = {},
         f.function \in {"ZeroOne", "RemoveDelete", "RemoveRunning", "CopyQueue"},
         f.function # "ZeroOne" => f.s \in Addresses, f.function \in Comparers => f.s \in O,
         "Update" \in F, Starters \cap F # {}
  PROVE  Fits(f, F, O) /\ Owns(f) = {}
<1>1. f.function \notin Owners /\ (f.function = "ZeroOne" => f.function \notin Sequences)
  BY DEF Owners, Sequences
<1> QED
  BY <1>1 DEF Fits, Owns

\* The loop over the running animations with a step of zero.
LEMMA FitsZero ==
  ASSUME NEW f \in FrameFields, NEW F, NEW O, Leaves \cap F = {},
         f.function = "Zero", "Update" \in F
  PROVE  Fits(f, F, O) /\ Owns(f) = {}
<1>1. f.function \notin Sequences \cup Owners \cup Removers \cup Comparers
  BY DEF Sequences, Owners, Removers, Comparers
<1> QED
  BY <1>1 DEF Fits, Owns

\* The first that can start, if there is one.
LEMMA StartableFacts ==
  ASSUME Types
  PROVE  /\ Startable = 0 <=> Stuck
         /\ Startable # 0 => Startable \in 1 .. Len(animation_queue_)
<1> DEFINE q == animation_queue_
           before(i) == Range(SubSeq(q, 1, i - 1))
           free == {i \in 1 .. Len(q) :
                      ~ \E s \in Running \cup before(i) : heap[s].props \cap heap[q[i]].props # {}}
<1>1. q \in Seq(Addresses) /\ Len(q) \in Nat /\ \A i \in 1 .. Len(q) : q[i] \in Addresses
  BY DEF Types
<1>2. ASSUME NEW i \in 1 .. Len(q) PROVE before(i) = {q[j] : j \in 1 .. i - 1}
  <2>1. i - 1 \in Nat /\ \A j \in 1 .. i - 1 : j \in 1 .. Len(q)
    BY <1>1
  <2>2. /\ Len(SubSeq(q, 1, i - 1)) = i - 1 /\ DOMAIN SubSeq(q, 1, i - 1) = 1 .. i - 1
        /\ \A j \in 1 .. i - 1 : SubSeq(q, 1, i - 1)[j] = q[j]
    BY <1>1, <2>1
  <2> QED
    BY <2>2 DEF Range
<1>3. free = {} <=> Stuck
  <2>1. ASSUME NEW i \in 1 .. Len(q)
        PROVE  i \notin free <=>
                 \/ \E s \in Running : heap[s].props \cap heap[q[i]].props # {}
                 \/ \E j \in 1 .. i - 1 : heap[q[j]].props \cap heap[q[i]].props # {}
    BY <1>2
  <2>2. free = {} <=> \A i \in 1 .. Len(q) : i \notin free
    OBVIOUS
  <2> HIDE DEF free
  <2> QED
    BY <2>1, <2>2 DEF Stuck
<1>4. Startable = IF free = {} THEN 0 ELSE Min(free)
  BY DEF Startable
<1>5. free \in SUBSET (1 .. Len(q))
  OBVIOUS
<1> HIDE DEF free
<1>6. free # {} => Min(free) \in 1 .. Len(q) /\ Min(free) # 0
  BY <1>1, <1>5, MinFacts
<1> QED
  BY <1>3, <1>4, <1>6

\* The functions have names.
LEMMA NamesFacts ==
  /\ "StartSequence" \in Names /\ "Schedule" \in Names /\ "Finish" \in Names
  /\ "Delete" \in Names /\ "RemoveDelete" \in Names /\ "set" \in Names
  /\ "animate" \in Names /\ "enqueue" \in Names /\ "replace" \in Names
  /\ "RemoveRunning" \in Names /\ "CopyQueue" \in Names /\ "AddStart" \in Names
  /\ "Ended" \in Names /\ "Aborted" \in Names /\ "ProcessQueue" \in Names
  /\ "Update" \in Names /\ "Step" \in Names /\ "Stop" \in Names
  /\ "StopProperty" \in Names /\ "Zero" \in Names /\ "ZeroOne" \in Names
BY DEF Names, Sequences

\* Frames that are made of their parts.
LEMMA MadeOn ==
  ASSUME NEW function \in Names, NEW s \in Addresses
  PROVE  \E f \in FrameFields : f = On(function, s) /\ f.function = function /\ f.s = s
BY OnFacts

\* A function's frame, by its name alone.
LEMMA MadeCall ==
  ASSUME NEW function \in Names
  PROVE  \E f \in FrameFields : f = Call(function) /\ f.function = function
BY CallFacts

\* The stack after a step that leaves one, two, three or four frames in place of
\* the one in progress.
LEMMA Go1 ==
  ASSUME NEW a, Go(<<a>>)
  PROVE  OnTop(a, Tail(stack), stack')
BY DEF Go, OnTop

\* Two frames.
LEMMA Go2 ==
  ASSUME Inv, stack # <<>>, NEW a \in FrameFields, NEW b \in FrameFields, Go(<<a, b>>)
  PROVE  \E u \in Seq(FrameFields) : OnTop(b, Tail(stack), u) /\ OnTop(a, u, stack')
<1>1. stack' = <<a, b>> \o Tail(stack)
  BY DEF Go
<1>2. Tail(stack) \in Seq(FrameFields)
  BY Stack
<1> QED
  BY <1>1, <1>2, Chain2

\* Three frames.
LEMMA Go3 ==
  ASSUME Inv, stack # <<>>, NEW a \in FrameFields, NEW b \in FrameFields,
         NEW c \in FrameFields, Go(<<a, b, c>>)
  PROVE  \E u, v \in Seq(FrameFields) :
           OnTop(c, Tail(stack), v) /\ OnTop(b, v, u) /\ OnTop(a, u, stack')
<1>1. stack' = <<a, b, c>> \o Tail(stack)
  BY DEF Go
<1>2. Tail(stack) \in Seq(FrameFields)
  BY Stack
<1> QED
  BY <1>1, <1>2, Chain3

\* Four frames.
LEMMA Go4 ==
  ASSUME Inv, stack # <<>>, NEW a \in FrameFields, NEW b \in FrameFields,
         NEW c \in FrameFields, NEW d \in FrameFields, Go(<<a, b, c, d>>)
  PROVE  \E u, v, w \in Seq(FrameFields) :
           /\ OnTop(d, Tail(stack), w) /\ OnTop(c, w, v)
           /\ OnTop(b, v, u) /\ OnTop(a, u, stack')
<1>1. stack' = <<a, b, c, d>> \o Tail(stack)
  BY DEF Go
<1>2. Tail(stack) \in Seq(FrameFields)
  BY Stack
<1> QED
  BY <1>1, <1>2, Chain4

\* A frame that takes a turn of its loop.
LEMMA Turn ==
  ASSUME Inv, stack # <<>>, Top.function \notin Leaves,
         NEW b \in FrameFields, b.function = Top.function, b.s = Top.s, Go(<<b>>),
         UNCHANGED <<heap, animation_queue_, running_animations_, last_step_time_,
                     is_started_, now, calls>>,
         died' \in BOOLEAN
  PROVE  Inv'
<1> DEFINE rest == Tail(stack)
<1>1. /\ rest \in Seq(FrameFields) /\ Nested(rest) /\ OnTop(b, rest, stack')
      /\ Leaves \cap Functions(rest) = {}
  BY Stack, Go1
<1>2. Fits(b, Functions(rest), Owned(rest)) /\ Owns(b) = Owns(Top)
  BY Stack DEF Fits, Owns
<1>3. /\ stack' \in Seq(FrameFields) /\ Nested(stack')
      /\ Functions(stack') = {b.function} \cup Functions(rest)
      /\ Owned(stack') = Owns(b) \cup Owned(rest)
  BY <1>1, <1>2, Push
<1>4. Owned(stack') = Owned(stack) /\ Functions(stack') = Functions(stack)
  BY <1>2, <1>3, Stack
<1>5. Leaving' /\ Starting = {}
  <2>1. Leaves \cap Functions(stack') = {}
    BY <1>1, <1>3
  <2> QED
    BY <1>3, <2>1, NotLeaving DEF Starting, Leaves
<1>6. /\ Stuck \/ Starters \cap Functions(stack') # {}
      /\ is_started_ = is_animating \/ "Update" \in Functions(stack')
  BY <1>4 DEF Inv, Mended
<1>7. last_step_time_' \in Int /\ now' \in 0 .. MaxTime /\ calls' \in 0 .. MaxCalls
  BY Stack
<1> QED
  BY <1>3, <1>4, <1>5, <1>6, <1>7, Quiet

\* A frame that is to go on calls for the start or the end of one of the queue.
LEMMA TurnCalls ==
  ASSUME Inv, stack # <<>>, Top.function \notin Leaves,
         NEW b \in FrameFields, b.function = Top.function, b.s = Top.s,
         NEW s \in Range(animation_queue_), NEW leaf \in Leaves, Go(<<On(leaf, s), b>>),
         UNCHANGED <<heap, animation_queue_, running_animations_, last_step_time_,
                     is_started_, now, calls>>,
         died' \in BOOLEAN
  PROVE  Inv'
<1> DEFINE rest == Tail(stack)
<1>1. rest \in Seq(FrameFields) /\ Nested(rest) /\ Leaves \cap Functions(rest) = {}
  BY Stack
<1>2. s \in Addresses /\ heap[s] # Null /\ s \notin Owned(stack)
  BY RangeFacts DEF Inv, Types, Queued, Existing
<1> PICK a \in FrameFields : a = On(leaf, s) /\ a.function = leaf /\ a.s = s
  <2>1. leaf \in Names
    <3>1. leaf = "StartSequence" \/ leaf = "Finish"
      BY DEF Leaves
    <3> QED
      BY <3>1, NamesFacts
  <2> QED
    BY <1>2, <2>1, MadeOn
<1> PICK u \in Seq(FrameFields) : OnTop(b, rest, u) /\ OnTop(a, u, stack')
  <2>1. Go(<<a, b>>)
    OBVIOUS
  <2> QED
    BY <2>1, Go2
<1>3. Fits(b, Functions(rest), Owned(rest)) /\ Owns(b) = Owns(Top)
  BY Stack DEF Fits, Owns
<1>4. /\ Nested(u) /\ Functions(u) = {b.function} \cup Functions(rest)
      /\ Owned(u) = Owns(b) \cup Owned(rest)
  BY <1>1, <1>3, Push
<1>5. Fits(a, Functions(u), Owned(u)) /\ Owns(a) = {}
  <2>1. Leaves \cap Functions(u) = {} /\ a.function \in {"StartSequence", "Finish"}
    BY <1>1, <1>4 DEF Leaves
  <2>2. a.s \in Addresses
    BY <1>2
  <2> QED
    BY <2>1, <2>2, FitsNamed
<1>6. /\ stack' \in Seq(FrameFields) /\ Nested(stack') /\ stack' # <<>> /\ Head(stack') = a
      /\ Functions(stack') = {a.function} \cup Functions(u)
      /\ Owned(stack') = Owns(a) \cup Owned(u)
  BY <1>4, <1>5, Push
<1>7. Owned(stack') = Owned(stack) /\ Functions(stack) \subseteq Functions(stack')
  BY <1>3, <1>4, <1>5, <1>6, Stack
<1>8. Leaving' /\ Starting = {}
  BY <1>2, <1>6, <1>7 DEF Leaving, Top, Starting, Leaves
<1>9. /\ Stuck \/ Starters \cap Functions(stack') # {}
      /\ is_started_ = is_animating \/ "Update" \in Functions(stack')
  BY <1>7 DEF Inv, Mended
<1>10. last_step_time_' \in Int /\ now' \in 0 .. MaxTime /\ calls' \in 0 .. MaxCalls
  BY Stack
<1> QED
  BY <1>6, <1>7, <1>8, <1>9, <1>10, Quiet

\* ProcessQueue starts the first sequence that can start, or is done.
LEMMA ProcessQueueInv ==
  ASSUME Inv, ProcessQueue
  PROVE  Inv'
<1>1. /\ stack # <<>> /\ Top.function = "ProcessQueue"
      /\ UNCHANGED <<heap, animation_queue_, running_animations_, last_step_time_,
                     is_started_, now, calls, died>>
  BY DEF ProcessQueue, At, Idle, animator
<1>2. Owns(Top) = {} /\ Top.function \notin Leaves /\ Top \in FrameFields
  BY <1>1, Stack DEF Owns, Owners, Leaves
<1>3. died' \in BOOLEAN
  BY <1>1, Stack
<1>4. CASE Startable = 0
  <2>1. Go(<<>>) /\ Stuck
    BY <1>4, StartableFacts DEF ProcessQueue, Inv
  <2> QED
    BY <1>1, <1>2, <1>3, <2>1, Done
<1>5. CASE Startable # 0
  <2>1. PICK s \in Range(animation_queue_) : s = animation_queue_[Startable]
    BY <1>5, StartableFacts, RangeFacts DEF Inv, Types
  <2>2. Go(<<On("StartSequence", s), Top>>)
    BY <1>5, <2>1 DEF ProcessQueue
  <2>3. "StartSequence" \in Leaves
    BY DEF Leaves
  <2> QED
    BY <1>1, <1>2, <1>3, <2>2, <2>3, TurnCalls
<1> QED
  BY <1>4, <1>5

\* Step: a turn of its loop is done, goes on, or finishes a sequence of the queue.
LEMMA StepOneInv ==
  ASSUME Inv, StepOne
  PROVE  Inv'
<1>1. /\ stack # <<>> /\ Top.function = "Step"
      /\ UNCHANGED <<heap, animation_queue_, running_animations_, last_step_time_,
                     is_started_, now, calls, died>>
  BY DEF StepOne, At, Idle, animator
<1>2. Owns(Top) = {} /\ Top.function \notin Leaves /\ Top.function \notin Starters
  BY <1>1 DEF Owns, Owners, Leaves, Starters
<1>3. died' \in BOOLEAN /\ Top \in FrameFields
  BY <1>1, Stack
<1>4. CASE Top.copy = <<>>
  <2>1. Go(<<>>)
    BY <1>4 DEF StepOne
  <2> QED
    BY <1>1, <1>2, <1>3, <2>1, Done
<1>5. CASE Top.copy # <<>>
  <2>1. NextOne \in FrameFields /\ NextOne.function = Top.function /\ NextOne.s = Top.s
    BY <1>3, <1>5, NextOneFacts
  <2>2. CASE Go(<<NextOne>>)
    BY <1>1, <1>2, <1>3, <2>1, <2>2, Turn
  <2>3. CASE HasAnimation(Head(Top.copy).sequence)
               /\ Go(<<On("Finish", Head(Top.copy).sequence), NextOne>>)
    <3>1. PICK s \in Range(animation_queue_) : s = Head(Top.copy).sequence
      BY <2>3 DEF HasAnimation
    <3>2. Go(<<On("Finish", s), NextOne>>) /\ "Finish" \in Leaves
      BY <2>3, <3>1 DEF Leaves
    <3> QED
      BY <1>1, <1>2, <1>3, <2>1, <3>2, TurnCalls
  <2> QED
    BY <1>5, <2>2, <2>3 DEF StepOne
<1> QED
  BY <1>4, <1>5

\* The running sequences are in the queue.
LEMMA RunningFacts ==
  ASSUME Inv
  PROVE  \A i \in 1 .. Len(running_animations_) :
           /\ running_animations_[i] \in Runs
           /\ running_animations_[i].sequence \in Running
           /\ running_animations_[i].sequence \in Range(animation_queue_)
<1>1. running_animations_ \in Seq(Runs)
  BY DEF Inv, Types
<1>2. \A i \in 1 .. Len(running_animations_) :
        running_animations_[i] \in Range(running_animations_)
  BY <1>1, RangeFacts
<1>3. Running \subseteq Range(animation_queue_)
  BY DEF Inv, Queued
<1> QED
  BY <1>1, <1>2, <1>3 DEF Running

\* StopAnimating: it finishes the first that runs, or is done.
LEMMA StopInv ==
  ASSUME Inv, Stop
  PROVE  Inv'
<1>1. /\ stack # <<>> /\ Top.function = "Stop" /\ ~died
      /\ UNCHANGED <<heap, animation_queue_, running_animations_, last_step_time_,
                     is_started_, now, calls>>
  BY DEF Stop, At, animator
<1>2. Owns(Top) = {} /\ Top.function \notin Leaves /\ Top.function \notin Starters
  BY <1>1 DEF Owns, Owners, Leaves, Starters
<1>3. died' \in BOOLEAN /\ Top \in FrameFields
  BY <1>1, Stack DEF Stop
<1>4. CASE Go(<<>>)
  BY <1>1, <1>2, <1>3, <1>4, Done
<1>5. CASE running_animations_ # <<>>
             /\ Go(<<On("Finish", running_animations_[1].sequence), Top>>)
  <2>1. 1 \in 1 .. Len(running_animations_)
    BY <1>5 DEF Inv, Types
  <2>2. PICK s \in Range(animation_queue_) : s = running_animations_[1].sequence
    BY <2>1, RunningFacts
  <2>3. Go(<<On("Finish", s), Top>>) /\ "Finish" \in Leaves
    BY <1>5, <2>2 DEF Leaves
  <2> QED
    BY <1>1, <1>2, <1>3, <2>3, TurnCalls
<1> QED
  BY <1>4, <1>5 DEF Stop

\* StopAnimatingProperty: it finishes the first that animates the property.
LEMMA StopPropertyInv ==
  ASSUME Inv, StopProperty
  PROVE  Inv'
<1> DEFINE with == {i \in 1 .. Len(running_animations_) :
                      Top.s \in heap[running_animations_[i].sequence].props}
<1>1. /\ stack # <<>> /\ Top.function = "StopProperty"
      /\ UNCHANGED <<heap, animation_queue_, running_animations_, last_step_time_,
                     is_started_, now, calls, died>>
      /\ Go(IF with = {} THEN <<>>
            ELSE <<On("Finish", running_animations_[Min(with)].sequence), Top>>)
  BY DEF StopProperty, At, Idle, animator
<1>2. Owns(Top) = {} /\ Top.function \notin Leaves /\ Top.function \notin Starters
  BY <1>1 DEF Owns, Owners, Leaves, Starters
<1>3. died' \in BOOLEAN /\ Top \in FrameFields
  BY <1>1, Stack
<1>4. with \in SUBSET (1 .. Len(running_animations_))
  OBVIOUS
<1> HIDE DEF with
<1>5. CASE with = {}
  <2>1. Go(<<>>)
    BY <1>1, <1>5
  <2> QED
    BY <1>1, <1>2, <1>3, <2>1, Done
<1>6. CASE with # {}
  <2>1. Min(with) \in 1 .. Len(running_animations_)
    BY <1>4, <1>6, MinFacts DEF Inv, Types
  <2>2. PICK s \in Range(animation_queue_) : s = running_animations_[Min(with)].sequence
    BY <2>1, RunningFacts
  <2>3. Go(<<On("Finish", s), Top>>) /\ "Finish" \in Leaves
    BY <1>1, <1>6, <2>2 DEF Leaves
  <2> QED
    BY <1>1, <1>2, <1>3, <2>3, TurnCalls
<1> QED
  BY <1>5, <1>6

\* A frame of a call with more than a sequence.
LEMMA MadeFrame ==
  ASSUME NEW function \in Names, NEW s \in Subjects,
         NEW copy \in Seq(Runs), NEW time \in Int
  PROVE  \E f \in FrameFields :
           f = Frame(function, s, copy, time) /\ f.function = function /\ f.s = s
<1>1. /\ Frame(function, s, copy, time) \in FrameFields
      /\ Frame(function, s, copy, time).function = function
      /\ Frame(function, s, copy, time).s = s
  BY FrameFacts
<1> QED
  BY <1>1, Zenon

\* No frames.
LEMMA NoFrames ==
  <<>> \in Seq(FrameFields) /\ Nested(<<>>) /\ Functions(<<>>) = {} /\ Owned(<<>>) = {}
<1>1. Len(<<>>) = 0 /\ 1 .. 0 = {} /\ <<>> \in Seq(FrameFields)
  OBVIOUS
<1> QED
  BY <1>1 DEF Nested, Functions, Owned

\* A step without frames that start or finish sequences.
LEMMA QuietStep ==
  ASSUME Inv, UNCHANGED <<heap, animation_queue_, running_animations_, is_started_>>,
         last_step_time_' \in Int, now' \in 0 .. MaxTime, calls' \in 0 .. MaxCalls,
         died' \in BOOLEAN,
         stack' \in Seq(FrameFields), Nested(stack'), Owned(stack') = Owned(stack),
         Starting = {}, Leaves \cap Functions(stack') = {},
         Stuck \/ Starters \cap Functions(stack') # {},
         is_started_ = is_animating \/ "Update" \in Functions(stack')
  PROVE  Inv'
<1>1. Leaving'
  BY NotLeaving
<1> QED
  BY <1>1, Quiet

\* Time goes on while nothing is called.
LEMMA TickInv ==
  ASSUME Inv, Tick
  PROVE  Inv'
<1>1. /\ UNCHANGED <<heap, animation_queue_, running_animations_, last_step_time_,
                     is_started_, calls, died, stack>>
      /\ stack = <<>> /\ now' = now + 1 /\ now < MaxTime
  BY DEF Tick, animator
<1>2. now' \in 0 .. MaxTime
  BY <1>1, ConstantsAssumption DEF Inv, Types
<1>3. Starting = {} /\ Leaves \cap Functions(stack') = {}
  BY <1>1, NoFrames DEF Starting
<1>4. /\ last_step_time_' \in Int /\ calls' \in 0 .. MaxCalls /\ died' \in BOOLEAN
      /\ stack' \in Seq(FrameFields) /\ Nested(stack') /\ Owned(stack') = Owned(stack)
      /\ Functions(stack') = Functions(stack)
  BY <1>1 DEF Inv, Types
<1>5. /\ Stuck \/ Starters \cap Functions(stack') # {}
      /\ is_started_ = is_animating \/ "Update" \in Functions(stack')
  BY <1>4 DEF Inv, Mended
<1> QED
  BY <1>1, <1>2, <1>3, <1>4, <1>5, QuietStep

\* AnimationContainer::Run calls Step.
LEMMA RunInv ==
  ASSUME Inv, Run
  PROVE  Inv'
<1>1. /\ UNCHANGED <<heap, animation_queue_, running_animations_, is_started_, now,
                     calls, died>>
      /\ stack = <<>> /\ last_step_time_' = now
      /\ stack' = <<Frame("Step", Null, running_animations_, now)>>
  BY DEF Run
<1>2. /\ last_step_time_' \in Int /\ now' \in 0 .. MaxTime /\ calls' \in 0 .. MaxCalls
      /\ died' \in BOOLEAN /\ running_animations_ \in Seq(Runs) /\ now \in Int
  BY <1>1 DEF Inv, Types
<1> PICK f \in FrameFields :
      f = Frame("Step", Null, running_animations_, now) /\ f.function = "Step"
  <2>1. Null \in Subjects
    BY DEF Subjects
  <2> QED
    BY <1>2, <2>1, MadeFrame, NamesFacts
<1> PICK rest \in Seq(FrameFields) : rest = <<>>
  BY NoFrames, Zenon
<1>3. OnTop(f, rest, stack')
  BY <1>1 DEF OnTop
<1>4. Nested(rest) /\ Functions(rest) = {} /\ Owned(rest) = {}
  BY NoFrames
<1>5. Fits(f, Functions(rest), Owned(rest)) /\ Owns(f) = {}
  BY <1>4, FitsPlain
<1>6. /\ stack' \in Seq(FrameFields) /\ Nested(stack')
      /\ Functions(stack') = {f.function} \cup Functions(rest)
      /\ Owned(stack') = Owns(f) \cup Owned(rest)
  BY <1>3, <1>4, <1>5, Push
<1>7. /\ Starting = {} /\ Leaves \cap Functions(stack') = {}
      /\ Owned(stack') = Owned(stack) /\ Functions(stack) \subseteq Functions(stack')
  BY <1>1, <1>4, <1>5, <1>6 DEF Starting, Leaves
<1>8. /\ Stuck \/ Starters \cap Functions(stack') # {}
      /\ is_started_ = is_animating \/ "Update" \in Functions(stack')
  BY <1>7 DEF Inv, Mended
<1> QED
  BY <1>1, <1>2, <1>6, <1>7, <1>8, QuietStep

\* Where clients call: no function has to be entered yet.
LEMMA MayFacts ==
  ASSUME Inv, NEW callbacks \in SUBSET {"Ended", "Aborted"}, May(callbacks)
  PROVE  /\ stack \in Seq(FrameFields) /\ Nested(stack) /\ Leaves \cap Functions(stack) = {}
         /\ Starting = {}
         /\ last_step_time_' \in Int /\ now' \in 0 .. MaxTime /\ calls' \in 0 .. MaxCalls
         /\ died' \in BOOLEAN
         /\ UNCHANGED <<animation_queue_, running_animations_, last_step_time_, is_started_,
                        now, died>>
<1>1. /\ UNCHANGED <<animation_queue_, running_animations_, last_step_time_, is_started_,
                     now, died>>
      /\ calls < MaxCalls /\ calls' = calls + 1
      /\ stack # <<>> => Top.function \in {"Ended", "Aborted"}
  BY DEF May, animator
<1>2. calls' \in 0 .. MaxCalls
  BY <1>1, ConstantsAssumption DEF Inv, Types
<1>3. /\ last_step_time_' \in Int /\ now' \in 0 .. MaxTime /\ died' \in BOOLEAN
      /\ stack \in Seq(FrameFields) /\ Nested(stack)
  BY <1>1 DEF Inv, Types
<1>4. Leaves \cap Functions(stack) = {} /\ Starting = {}
  <2>1. CASE stack = <<>>
    BY <2>1, NoFrames DEF Starting
  <2>2. CASE stack # <<>>
    BY <1>1, <2>2, Stack DEF Starting, Leaves
  <2> QED
    BY <2>1, <2>2
<1> QED
  BY <1>1, <1>2, <1>3, <1>4

\* A client's call that changes the stack only.
LEMMA CallStop ==
  ASSUME Inv, May({"Ended", "Aborted"}), UNCHANGED heap, NEW a \in FrameFields,
         a.function \in {"Stop", "StopProperty"}, OnTop(a, stack, stack')
  PROVE  Inv'
<1>1. /\ stack \in Seq(FrameFields) /\ Nested(stack) /\ Leaves \cap Functions(stack) = {}
      /\ Starting = {}
      /\ last_step_time_' \in Int /\ now' \in 0 .. MaxTime /\ calls' \in 0 .. MaxCalls
      /\ died' \in BOOLEAN
      /\ UNCHANGED <<animation_queue_, running_animations_, last_step_time_, is_started_,
                     now, died>>
  BY MayFacts
<1>2. Fits(a, Functions(stack), Owned(stack)) /\ Owns(a) = {}
  BY <1>1, FitsPlain
<1>3. /\ stack' \in Seq(FrameFields) /\ Nested(stack')
      /\ Functions(stack') = {a.function} \cup Functions(stack)
      /\ Owned(stack') = Owns(a) \cup Owned(stack)
  BY <1>1, <1>2, Push
<1>4. Owned(stack') = Owned(stack) /\ Leaves \cap Functions(stack') = {}
  BY <1>1, <1>2, <1>3 DEF Leaves
<1>5. /\ Stuck \/ Starters \cap Functions(stack') # {}
      /\ is_started_ = is_animating \/ "Update" \in Functions(stack')
  BY <1>3 DEF Inv, Mended
<1> QED
  BY <1>1, <1>3, <1>4, <1>5, QuietStep

\* StopAnimating called by a client or by an observer.
LEMMA StopAnimatingInv ==
  ASSUME Inv, StopAnimating
  PROVE  Inv'
<1>1. /\ May({"Ended", "Aborted"}) /\ UNCHANGED heap /\ stack' = <<Call("Stop")>> \o stack
  BY DEF StopAnimating
<1> PICK a \in FrameFields : a = Call("Stop") /\ a.function = "Stop"
  BY MadeCall, NamesFacts
<1>2. OnTop(a, stack, stack')
  BY <1>1 DEF OnTop
<1> QED
  BY <1>1, <1>2, CallStop

\* StopAnimatingProperty called by a client or by an observer.
LEMMA StopAnimatingPropertyInv ==
  ASSUME Inv, NEW p \in UNION {k.props : k \in Kinds}, StopAnimatingProperty(p)
  PROVE  Inv'
<1> PICK none \in Seq(Runs) : none = <<>>
  <2>1. <<>> \in Seq(Runs)
    OBVIOUS
  <2> QED
    BY <2>1, Zenon
<1> PICK zero \in Int : zero = 0
  OBVIOUS
<1>1. /\ May({"Ended", "Aborted"}) /\ UNCHANGED heap
      /\ stack' = <<Frame("StopProperty", p, none, zero)>> \o stack
  BY DEF StopAnimatingProperty
<1> PICK a \in FrameFields : a = Frame("StopProperty", p, none, zero) /\ a.function = "StopProperty"
  <2>1. p \in Subjects
    BY DEF Subjects
  <2>2. ASSUME NEW copy \in Seq(Runs), NEW time \in Int
        PROVE  \E a \in FrameFields :
                 a = Frame("StopProperty", p, copy, time) /\ a.function = "StopProperty"
    BY <2>1, MadeFrame, NamesFacts
  <2> QED
    BY <2>2, Zenon
<1>2. OnTop(a, stack, stack')
  BY <1>1 DEF OnTop
<1> QED
  BY <1>1, <1>2, CallStop

\* Stacks on which a function can be called, and on which something will start
\* what can start.
Callable(frames) ==
  frames \in Seq(FrameFields) /\ Nested(frames) /\ Leaves \cap Functions(frames) = {}
WillStart(frames) == Starters \cap Functions(frames) # {}
\* frames are rest with a frame of this function, which owns these sequences.
Put(function, own, rest, frames) ==
  /\ Functions(frames) = {function} \cup Functions(rest)
  /\ Owned(frames) = own \cup Owned(rest)
  /\ frames \in Seq(FrameFields) /\ Nested(frames) /\ frames # <<>>

\* What another frame on the stack leaves promised.
LEMMA PutFacts ==
  ASSUME NEW function, NEW own, NEW rest, NEW frames, Put(function, own, rest, frames)
  PROVE  /\ WillStart(rest) => WillStart(frames)
         /\ function \in Starters => WillStart(frames)
         /\ "Update" \in Functions(rest) => "Update" \in Functions(frames)
         /\ Callable(rest) /\ function \notin Leaves => Callable(frames)
BY DEF Put, WillStart, Callable

\* The functions that call others.
LEMMA NotLeaves ==
  /\ "Schedule" \notin Leaves /\ "Delete" \notin Leaves /\ "RemoveDelete" \notin Leaves
  /\ "set" \notin Leaves /\ "animate" \notin Leaves /\ "enqueue" \notin Leaves
  /\ "replace" \notin Leaves /\ "RemoveRunning" \notin Leaves /\ "CopyQueue" \notin Leaves
  /\ "AddStart" \notin Leaves /\ "Ended" \notin Leaves /\ "Aborted" \notin Leaves
  /\ "ProcessQueue" \notin Leaves /\ "Update" \notin Leaves /\ "Step" \notin Leaves
  /\ "Zero" \notin Leaves /\ "ZeroOne" \notin Leaves
BY DEF Leaves

\* What can be called on others.
LEMMA PutAny ==
  ASSUME NEW rest, Callable(rest), NEW a \in FrameFields, NEW frames, OnTop(a, rest, frames),
         Fits(a, Functions(rest), Owned(rest))
  PROVE  Put(a.function, Owns(a), rest, frames) /\ Head(frames) = a
<1>1. rest \in Seq(FrameFields) /\ Nested(rest)
  BY DEF Callable
<1> QED
  BY <1>1, Push DEF Put

\* A call that has no sequence.
LEMMA PutPlain ==
  ASSUME NEW rest, Callable(rest), NEW a \in FrameFields, NEW frames, OnTop(a, rest, frames),
         a.function \in {"ProcessQueue", "Update", "Step", "Stop", "StopProperty"}
  PROVE  Put(a.function, {}, rest, frames) /\ Callable(frames)
<1>1. Leaves \cap Functions(rest) = {}
  BY DEF Callable
<1>2. Fits(a, Functions(rest), Owned(rest)) /\ Owns(a) = {}
  BY <1>1, FitsPlain
<1>3. Put(a.function, {}, rest, frames)
  BY <1>2, PutAny
<1>4. a.function \notin Leaves
  BY DEF Leaves
<1> QED
  BY <1>3, <1>4, PutFacts

\* An observer told of a sequence.
LEMMA PutNamed ==
  ASSUME NEW rest, Callable(rest), NEW a \in FrameFields, NEW frames, OnTop(a, rest, frames),
         a.function \in {"Ended", "Aborted"}, a.s \in Addresses
  PROVE  Put(a.function, {}, rest, frames) /\ Callable(frames)
<1>1. Leaves \cap Functions(rest) = {}
  BY DEF Callable
<1>2. Fits(a, Functions(rest), Owned(rest)) /\ Owns(a) = {}
  BY <1>1, FitsNamed
<1>3. Put(a.function, {}, rest, frames)
  BY <1>2, PutAny
<1>4. a.function \notin Leaves
  BY DEF Leaves
<1> QED
  BY <1>3, <1>4, PutFacts

\* A sequence about to be started or finished.
LEMMA PutLeaf ==
  ASSUME NEW rest, Callable(rest), NEW a \in FrameFields, NEW frames, OnTop(a, rest, frames),
         a.function \in Leaves, a.s \in Addresses
  PROVE  Put(a.function, {}, rest, frames) /\ Head(frames) = a
<1>1. Leaves \cap Functions(rest) = {} /\ a.function \in {"StartSequence", "Finish"}
  BY DEF Callable, Leaves
<1>2. Fits(a, Functions(rest), Owned(rest)) /\ Owns(a) = {}
  BY <1>1, FitsNamed
<1> QED
  BY <1>2, PutAny

\* A sequence about to be deleted.
LEMMA PutOwner ==
  ASSUME NEW rest, Callable(rest), NEW a \in FrameFields, NEW frames, OnTop(a, rest, frames),
         a.function = "Delete", a.s \in Addresses, a.s \notin Owned(rest)
  PROVE  Put("Delete", {a.s}, rest, frames) /\ Callable(frames)
<1>1. Leaves \cap Functions(rest) = {}
  BY DEF Callable
<1>2. Fits(a, Functions(rest), Owned(rest)) /\ Owns(a) = {a.s}
  BY <1>1, FitsOwner
<1>3. Put(a.function, {a.s}, rest, frames)
  BY <1>2, PutAny
<1> QED
  BY <1>3, PutFacts, NotLeaves

\* A sequence nobody owns, about to be scheduled or started by a strategy.
LEMMA PutNew ==
  ASSUME NEW rest, Callable(rest), NEW a \in FrameFields, NEW frames, OnTop(a, rest, frames),
         a.function \in {"Schedule", "enqueue", "replace", "set", "animate", "AddStart"},
         a.s \in Addresses, a.s \notin Owned(rest), "Update" \in Functions(rest),
         WillStart(rest)
  PROVE  Put(a.function, {a.s}, rest, frames) /\ Callable(frames)
<1>1. Leaves \cap Functions(rest) = {} /\ Starters \cap Functions(rest) # {}
  BY DEF Callable, WillStart
<1>2. Fits(a, Functions(rest), Owned(rest)) /\ Owns(a) = {a.s}
  BY <1>1, FitsNew
<1>3. Put(a.function, {a.s}, rest, frames)
  BY <1>2, PutAny
<1>4. a.function \notin Leaves
  BY DEF Leaves
<1> QED
  BY <1>3, <1>4, PutFacts

\* A sequence about to be scheduled, with nobody below to start it.
LEMMA PutSchedule ==
  ASSUME NEW rest, Callable(rest), NEW a \in FrameFields, NEW frames, OnTop(a, rest, frames),
         a.function = "Schedule", a.s \in Addresses, a.s \notin Owned(rest),
         "Update" \in Functions(rest)
  PROVE  Put("Schedule", {a.s}, rest, frames) /\ Callable(frames)
<1>1. Leaves \cap Functions(rest) = {} /\ a.function \notin Removers
  BY DEF Callable, Removers
<1>2. Fits(a, Functions(rest), Owned(rest)) /\ Owns(a) = {a.s}
  BY <1>1, FitsNew
<1>3. Put(a.function, {a.s}, rest, frames)
  BY <1>2, PutAny
<1> QED
  BY <1>3, PutFacts, NotLeaves

\* A frame that takes sequences from the queue.
LEMMA PutRemover ==
  ASSUME NEW rest, Callable(rest), NEW a \in FrameFields, NEW frames, OnTop(a, rest, frames),
         a.function \in {"ZeroOne", "RemoveDelete", "RemoveRunning", "CopyQueue"},
         a.function # "ZeroOne" => a.s \in Addresses,
         a.function \in {"RemoveRunning", "CopyQueue"} => a.s \in Owned(rest),
         "Update" \in Functions(rest), WillStart(rest)
  PROVE  Put(a.function, {}, rest, frames) /\ Callable(frames)
<1>1. Leaves \cap Functions(rest) = {} /\ Starters \cap Functions(rest) # {}
      /\ (a.function \in Comparers => a.s \in Owned(rest))
  BY DEF Callable, WillStart, Comparers
<1>2. Fits(a, Functions(rest), Owned(rest)) /\ Owns(a) = {}
  BY <1>1, FitsRemover
<1>3. Put(a.function, {}, rest, frames)
  BY <1>2, PutAny
<1>4. a.function \notin Leaves
  BY DEF Leaves
<1> QED
  BY <1>3, <1>4, PutFacts

\* The loop that starts sequences with a step of zero.
LEMMA PutZero ==
  ASSUME NEW rest, Callable(rest), NEW a \in FrameFields, NEW frames, OnTop(a, rest, frames),
         a.function = "Zero", "Update" \in Functions(rest)
  PROVE  Put("Zero", {}, rest, frames) /\ Callable(frames)
<1>1. Leaves \cap Functions(rest) = {}
  BY DEF Callable
<1>2. Fits(a, Functions(rest), Owned(rest)) /\ Owns(a) = {}
  BY <1>1, FitsZero
<1>3. Put(a.function, {}, rest, frames)
  BY <1>2, PutAny
<1> QED
  BY <1>3, PutFacts, NotLeaves

\* The frame in progress, or what it becomes, on what is below it.
LEMMA PutNext ==
  ASSUME Inv, stack # <<>>, NEW b \in FrameFields, b.function = Top.function, b.s = Top.s,
         NEW frames, OnTop(b, Tail(stack), frames)
  PROVE  /\ Callable(Tail(stack)) /\ Put(b.function, Owns(Top), Tail(stack), frames)
         /\ Functions(frames) = Functions(stack) /\ Owned(frames) = Owned(stack)
         /\ Top.function \notin Leaves => Callable(frames)
<1>1. Callable(Tail(stack))
  BY Stack DEF Callable
<1>2. Fits(b, Functions(Tail(stack)), Owned(Tail(stack))) /\ Owns(b) = Owns(Top)
  BY Stack DEF Fits, Owns
<1>3. Put(b.function, Owns(Top), Tail(stack), frames)
  BY <1>1, <1>2, PutAny
<1>4. Functions(frames) = Functions(stack) /\ Owned(frames) = Owned(stack)
  BY <1>3, Stack DEF Put
<1> QED
  BY <1>1, <1>3, <1>4, PutFacts

\* A step that changes nothing but the stack, and starts and finishes nothing.
LEMMA QuietCalls ==
  ASSUME Inv, stack # <<>>, Top.function \notin Leaves,
         UNCHANGED <<heap, animation_queue_, running_animations_, last_step_time_,
                     is_started_, now, calls, died>>,
         Callable(stack'), Owned(stack') = Owned(stack),
         Stuck \/ WillStart(stack'),
         is_started_ = is_animating \/ "Update" \in Functions(stack')
  PROVE  Inv'
<1>1. /\ last_step_time_' \in Int /\ now' \in 0 .. MaxTime /\ calls' \in 0 .. MaxCalls
      /\ died' \in BOOLEAN
  BY Stack
<1>2. Starting = {}
  BY DEF Starting, Leaves
<1>3. /\ stack' \in Seq(FrameFields) /\ Nested(stack') /\ Leaves \cap Functions(stack') = {}
      /\ Stuck \/ Starters \cap Functions(stack') # {}
  BY DEF Callable, WillStart
<1> QED
  BY <1>1, <1>2, <1>3, QuietStep

\* FinishAnyAnimationWithZeroDuration: a copy, the queue, the timer.
LEMMA ZeroInv ==
  ASSUME Inv, Zero
  PROVE  Inv'
<1> PICK rest : rest = Tail(stack)
  OBVIOUS
<1> PICK zero \in Int : zero = 0
  OBVIOUS
<1>1. /\ stack # <<>> /\ Top.function = "Zero"
      /\ UNCHANGED <<heap, animation_queue_, running_animations_, last_step_time_,
                     is_started_, now, calls, died>>
      /\ Go(<<Frame("ZeroOne", Null, running_animations_, zero), Call("ProcessQueue"),
              Call("Update")>>)
  BY DEF Zero, At, Idle, animator
<1>2. Callable(rest) /\ Owned(stack) = Owned(rest)
  <2>1. Owns(Top) = {}
    BY <1>1 DEF Owns, Owners
  <2> QED
    BY <1>1, <2>1, Stack DEF Callable
<1> PICK a \in FrameFields :
      a = Frame("ZeroOne", Null, running_animations_, zero) /\ a.function = "ZeroOne"
  <2>1. running_animations_ \in Seq(Runs) /\ Null \in Subjects
    BY DEF Inv, Types, Subjects
  <2>2. ASSUME NEW time \in Int
        PROVE  \E f \in FrameFields :
                 f = Frame("ZeroOne", Null, running_animations_, time) /\ f.function = "ZeroOne"
    BY <2>1, MadeFrame, NamesFacts
  <2> QED
    BY <2>2, Zenon
<1> PICK b \in FrameFields : b = Call("ProcessQueue") /\ b.function = "ProcessQueue"
  BY MadeCall, NamesFacts
<1> PICK c \in FrameFields : c = Call("Update") /\ c.function = "Update"
  BY MadeCall, NamesFacts
<1> PICK u, v \in Seq(FrameFields) : OnTop(c, rest, v) /\ OnTop(b, v, u) /\ OnTop(a, u, stack')
  <2>1. Go(<<a, b, c>>)
    BY <1>1
  <2> QED
    BY <1>1, <2>1, Go3
<1>3. Put("Update", {}, rest, v) /\ Callable(v)
  BY <1>2, PutPlain
<1>4. Put("ProcessQueue", {}, v, u) /\ Callable(u)
  BY <1>3, PutPlain
<1>5. "Update" \in Functions(u) /\ WillStart(u)
  BY <1>3, <1>4 DEF Put, WillStart, Starters
<1>6. Put("ZeroOne", {}, u, stack') /\ Callable(stack')
  BY <1>4, <1>5, PutRemover
<1>7. "Update" \in Functions(stack') /\ WillStart(stack')
  BY <1>5, <1>6, PutFacts
<1>8. Owned(stack') = Owned(stack)
  BY <1>2, <1>3, <1>4, <1>6 DEF Put
<1> QED
  BY <1>1, <1>6, <1>7, <1>8, QuietCalls, NotLeaves

\* What the frame in progress may count on.
LEMMA TopWill ==
  ASSUME Inv, stack # <<>>
  PROVE  /\ Top.function \in Removers => WillStart(Tail(stack)) /\ WillStart(stack)
         /\ Top.function \in Changers =>
              "Update" \in Functions(Tail(stack)) /\ "Update" \in Functions(stack)
         /\ Top.function \in Sequences => Top.s \in Addresses
         /\ Owns(Top) \cap Owned(Tail(stack)) = {}
         /\ Callable(Tail(stack))
         /\ Owned(stack) = Owns(Top) \cup Owned(Tail(stack))
BY Stack DEF Fits, WillStart, Callable

\* One turn of its loop.
LEMMA ZeroOneInv ==
  ASSUME Inv, ZeroOne
  PROVE  Inv'
<1> PICK rest : rest = Tail(stack)
  OBVIOUS
<1>1. /\ stack # <<>> /\ Top.function = "ZeroOne"
      /\ UNCHANGED <<heap, animation_queue_, running_animations_, last_step_time_,
                     is_started_, now, calls, died>>
  BY DEF ZeroOne, At, Idle, animator
<1>2. Owns(Top) = {} /\ Top.function \notin Leaves \cup Starters /\ Top.function # "Update"
  BY <1>1 DEF Owns, Owners, Leaves, Starters
<1>3. Top \in FrameFields /\ died' \in BOOLEAN
  BY <1>1, Stack
<1>4. CASE Top.copy = <<>>
  <2>1. Go(<<>>)
    BY <1>4 DEF ZeroOne
  <2> QED
    BY <1>1, <1>2, <1>3, <2>1, Done
<1>5. CASE Top.copy # <<>>
  <2>1. /\ NextOne \in FrameFields /\ NextOne.function = Top.function /\ NextOne.s = Top.s
        /\ Head(Top.copy).sequence \in Addresses
    BY <1>3, <1>5, NextOneFacts
  <2>2. CASE Go(<<NextOne>>)
    BY <1>1, <1>2, <1>3, <2>1, <2>2, Turn
  <2>3. CASE Go(<<On("Ended", Head(Top.copy).sequence),
                  On("RemoveDelete", Head(Top.copy).sequence), NextOne>>)
    <3> PICK s \in Addresses : s = Head(Top.copy).sequence
      BY <2>1
    <3> PICK a \in FrameFields : a = On("Ended", s) /\ a.function = "Ended" /\ a.s = s
      BY MadeOn, NamesFacts
    <3> PICK b \in FrameFields :
          b = On("RemoveDelete", s) /\ b.function = "RemoveDelete" /\ b.s = s
      BY MadeOn, NamesFacts
    <3> PICK c \in FrameFields : c = NextOne /\ c.function = Top.function /\ c.s = Top.s
      BY <2>1
    <3> PICK u, v \in Seq(FrameFields) :
          OnTop(c, rest, v) /\ OnTop(b, v, u) /\ OnTop(a, u, stack')
      <4>1. Go(<<a, b, c>>)
        BY <2>3
      <4> QED
        BY <1>1, <4>1, Go3
    <3>1. Callable(v) /\ Functions(v) = Functions(stack) /\ Owned(v) = Owned(stack)
      BY <1>1, <1>2, PutNext
    <3>2. "Update" \in Functions(v) /\ WillStart(v)
      <4>1. "ZeroOne" \in Removers /\ "ZeroOne" \in Changers
        BY DEF Removers, Changers
      <4> QED
        BY <1>1, <3>1, <4>1, TopWill DEF WillStart
    <3>3. Put("RemoveDelete", {}, v, u) /\ Callable(u)
      BY <3>1, <3>2, PutRemover
    <3>4. Put("Ended", {}, u, stack') /\ Callable(stack')
      BY <3>3, PutNamed
    <3>5. "Update" \in Functions(stack') /\ WillStart(stack')
      BY <3>2, <3>3, <3>4, PutFacts
    <3>6. Owned(stack') = Owned(stack)
      BY <3>1, <3>3, <3>4 DEF Put
    <3> QED
      BY <1>1, <1>2, <3>4, <3>5, <3>6, QuietCalls
  <2> QED
    BY <1>5, <2>2, <2>3 DEF ZeroOne
<1> QED
  BY <1>4, <1>5

\* The two frames of RemoveAllAnimationsWithACommonProperty.
LEMMA MadeRemoveAll ==
  ASSUME Inv, stack # <<>>, Top.s \in Addresses, NEW abort \in Int
  PROVE  \E a, b \in FrameFields :
           /\ RemoveAll(abort) = <<a, b>>
           /\ a.function = "RemoveRunning" /\ a.s = Top.s
           /\ b.function = "CopyQueue" /\ b.s = Top.s
<1> PICK none \in Seq(Runs) : none = <<>>
  <2>1. <<>> \in Seq(Runs)
    OBVIOUS
  <2> QED
    BY <2>1, Zenon
<1>1. running_animations_ \in Seq(Runs) /\ Top.s \in Subjects
  BY DEF Inv, Types, Subjects
<1> PICK a \in FrameFields : a = Frame("RemoveRunning", Top.s, running_animations_, abort)
                             /\ a.function = "RemoveRunning" /\ a.s = Top.s
  BY <1>1, MadeFrame, NamesFacts
<1> PICK b \in FrameFields : b = Frame("CopyQueue", Top.s, none, abort)
                             /\ b.function = "CopyQueue" /\ b.s = Top.s
  <2>1. ASSUME NEW copy \in Seq(Runs)
        PROVE  \E f \in FrameFields : f = Frame("CopyQueue", Top.s, copy, abort)
                                      /\ f.function = "CopyQueue" /\ f.s = Top.s
    BY <1>1, MadeFrame, NamesFacts
  <2> QED
    BY <2>1, Zenon
<1>2. RemoveAll(abort) = <<a, b>>
  BY DEF RemoveAll
<1> QED
  BY <1>2

\* A list on two entries.
LEMMA AfterTwo ==
  ASSUME NEW S, NEW p \in Seq(S), NEW q \in Seq(S), Len(p) = 2
  PROVE  /\ p \o q \in Seq(S) /\ Len(p \o q) = 2 + Len(q)
         /\ \A i \in 1 .. 2 + Len(q) : (p \o q)[i] = IF i <= 2 THEN p[i] ELSE q[i - 2]
<1>1. /\ p \o q \in Seq(S) /\ Len(p \o q) = Len(p) + Len(q)
      /\ \A i \in 1 .. Len(p) + Len(q) :
           (p \o q)[i] = IF i <= Len(p) THEN p[i] ELSE q[i - Len(p)]
  BY ConcatProperties
<1> QED
  BY <1>1

\* Two lists of frames, one after the other.
LEMMA Joined3 ==
  ASSUME NEW a \in FrameFields, NEW b \in FrameFields,
         NEW c \in FrameFields,
         NEW x, x = <<a, b>>, NEW y, y = <<c>>
  PROVE  x \o y = <<a, b, c>>
<1> DEFINE z == <<a, b, c>>
<1>1. x \in Seq(FrameFields) /\ Len(x) = 2 /\ x[1] = a /\ x[2] = b
  OBVIOUS
<1>2. y \in Seq(FrameFields) /\ Len(y) = 1 /\ y[1] = c
  OBVIOUS
<1>3. z \in Seq(FrameFields) /\ Len(z) = 3 /\ z[1] = a /\ z[2] = b /\ z[3] = c
  OBVIOUS
<1> HIDE DEF z
<1>4. ASSUME NEW S, x \in Seq(S), y \in Seq(S)
      PROVE  /\ x \o y \in Seq(S) /\ Len(x \o y) = 2 + Len(y)
             /\ \A i \in 1 .. 2 + Len(y) : (x \o y)[i] = IF i <= 2 THEN x[i] ELSE y[i - 2]
  <2>1. \A p \in Seq(S), q \in Seq(S) : Len(p) = 2 =>
          /\ p \o q \in Seq(S) /\ Len(p \o q) = 2 + Len(q)
          /\ \A i \in 1 .. 2 + Len(q) : (p \o q)[i] = IF i <= 2 THEN p[i] ELSE q[i - 2]
    BY AfterTwo
  <2> QED
    BY <1>1, <1>4, <2>1, Zenon
<1>5. 2 + Len(y) = 3
  BY <1>2
<1>6. /\ x \o y \in Seq(FrameFields) /\ Len(x \o y) = 3
      /\ \A i \in 1 .. 3 : (x \o y)[i] = IF i <= 2 THEN x[i] ELSE y[i - 2]
  BY <1>1, <1>2, <1>4, <1>5, Zenon
<1>7. ASSUME NEW i \in 1 .. 3 PROVE (x \o y)[i] = z[i]
  <2>1. i = 1 \/ i = 2 \/ i = 3
    OBVIOUS
  <2> QED
    BY <1>1, <1>2, <1>3, <1>6, <2>1
<1>8. x \o y = z
  BY <1>3, <1>6, <1>7, SeqEqual
<1> QED
  BY <1>8 DEF z

\* Two pairs of frames joined.
LEMMA Joined4 ==
  ASSUME NEW a \in FrameFields, NEW b \in FrameFields,
         NEW c \in FrameFields, NEW d \in FrameFields,
         NEW x, x = <<a, b>>, NEW y, y = <<c, d>>
  PROVE  x \o y = <<a, b, c, d>>
<1> DEFINE z == <<a, b, c, d>>
<1>1. x \in Seq(FrameFields) /\ Len(x) = 2 /\ x[1] = a /\ x[2] = b
  OBVIOUS
<1>2. y \in Seq(FrameFields) /\ Len(y) = 2 /\ y[1] = c /\ y[2] = d
  OBVIOUS
<1>3. z \in Seq(FrameFields) /\ Len(z) = 4 /\ z[1] = a /\ z[2] = b /\ z[3] = c /\ z[4] = d
  OBVIOUS
<1> HIDE DEF z
<1>4. ASSUME NEW S, x \in Seq(S), y \in Seq(S)
      PROVE  /\ x \o y \in Seq(S) /\ Len(x \o y) = 2 + Len(y)
             /\ \A i \in 1 .. 2 + Len(y) : (x \o y)[i] = IF i <= 2 THEN x[i] ELSE y[i - 2]
  <2>1. \A p \in Seq(S), q \in Seq(S) : Len(p) = 2 =>
          /\ p \o q \in Seq(S) /\ Len(p \o q) = 2 + Len(q)
          /\ \A i \in 1 .. 2 + Len(q) : (p \o q)[i] = IF i <= 2 THEN p[i] ELSE q[i - 2]
    BY AfterTwo
  <2> QED
    BY <1>1, <1>4, <2>1, Zenon
<1>5. 2 + Len(y) = 4
  BY <1>2
<1>6. /\ x \o y \in Seq(FrameFields) /\ Len(x \o y) = 4
      /\ \A i \in 1 .. 4 : (x \o y)[i] = IF i <= 2 THEN x[i] ELSE y[i - 2]
  BY <1>1, <1>2, <1>4, <1>5, Zenon
<1>7. ASSUME NEW i \in 1 .. 4 PROVE (x \o y)[i] = z[i]
  <2>1. i = 1 \/ i = 2 \/ i = 3 \/ i = 4
    OBVIOUS
  <2> QED
    BY <1>1, <1>2, <1>3, <1>6, <2>1
<1>8. x \o y = z
  BY <1>3, <1>6, <1>7, SeqEqual
<1> QED
  BY <1>8 DEF z

\* ImmediatelySetNewTarget: what shares a property is removed, then the new one ends.
LEMMA SetInv ==
  ASSUME Inv, ImmediatelySetNewTarget
  PROVE  Inv'
<1> PICK rest : rest = Tail(stack)
  OBVIOUS
<1> PICK zero \in Int : zero = 0
  OBVIOUS
<1>1. /\ stack # <<>> /\ Top.function = "set"
      /\ UNCHANGED <<heap, animation_queue_, running_animations_, last_step_time_,
                     is_started_, now, calls, died>>
      /\ Go(RemoveAll(zero) \o <<On("Ended", Top.s), On("Delete", Top.s)>>)
  BY DEF ImmediatelySetNewTarget, At, Idle, animator
<1>2. "set" \in Removers /\ "set" \in Changers /\ "set" \in Sequences /\ "set" \in Owners
  BY DEF Removers, Changers, Sequences, Owners
<1>3. /\ WillStart(rest) /\ "Update" \in Functions(rest) /\ Top.s \in Addresses
      /\ Callable(rest) /\ Top.s \notin Owned(rest) /\ Owned(stack) = {Top.s} \cup Owned(rest)
  <2>1. Owns(Top) = {Top.s}
    BY <1>1, <1>2 DEF Owns
  <2> QED
    BY <1>1, <1>2, <2>1, TopWill
<1> PICK a \in FrameFields, b \in FrameFields :
      /\ RemoveAll(zero) = <<a, b>>
      /\ a.function = "RemoveRunning" /\ a.s = Top.s
      /\ b.function = "CopyQueue" /\ b.s = Top.s
  <2>1. ASSUME NEW abort \in Int
        PROVE  \E x, y \in FrameFields :
                 /\ RemoveAll(abort) = <<x, y>>
                 /\ x.function = "RemoveRunning" /\ x.s = Top.s
                 /\ y.function = "CopyQueue" /\ y.s = Top.s
    BY <1>1, <1>3, MadeRemoveAll
  <2> QED
    BY <2>1, Zenon
<1> PICK c \in FrameFields : c = On("Ended", Top.s) /\ c.function = "Ended" /\ c.s = Top.s
  BY <1>3, MadeOn, NamesFacts
<1> PICK d \in FrameFields : d = On("Delete", Top.s) /\ d.function = "Delete" /\ d.s = Top.s
  BY <1>3, MadeOn, NamesFacts
<1> PICK u, v, w \in Seq(FrameFields) :
      OnTop(d, rest, w) /\ OnTop(c, w, v) /\ OnTop(b, v, u) /\ OnTop(a, u, stack')
  <2> PICK y : y = <<On("Ended", Top.s), On("Delete", Top.s)>>
    OBVIOUS
  <2>1. Go(RemoveAll(zero) \o y) /\ y = <<c, d>>
    BY <1>1
  <2>2. RemoveAll(zero) \o y = <<a, b, c, d>>
    <3>1. ASSUME NEW x, x = <<a, b>>, NEW z, z = <<c, d>> PROVE x \o z = <<a, b, c, d>>
      BY <3>1, Joined4
    <3> QED
      BY <2>1, <3>1, Zenon
  <2>3. Go(<<a, b, c, d>>)
    BY <2>1, <2>2, Zenon
  <2> QED
    BY <1>1, <2>3, Go4
<1>4. Put("Delete", {Top.s}, rest, w) /\ Callable(w)
  BY <1>3, PutOwner
<1>5. Put("Ended", {}, w, v) /\ Callable(v)
  BY <1>3, <1>4, PutNamed
<1>6. "Update" \in Functions(v) /\ WillStart(v) /\ Top.s \in Owned(v)
  <2>1. "Update" \in Functions(v) /\ WillStart(v)
    BY <1>3, <1>4, <1>5, PutFacts
  <2> QED
    BY <1>4, <1>5, <2>1 DEF Put
<1>7. Put("CopyQueue", {}, v, u) /\ Callable(u)
  BY <1>3, <1>5, <1>6, PutRemover
<1>8. "Update" \in Functions(u) /\ WillStart(u) /\ Top.s \in Owned(u)
  <2>1. "Update" \in Functions(u) /\ WillStart(u)
    BY <1>6, <1>7, PutFacts
  <2> QED
    BY <1>6, <1>7, <2>1 DEF Put
<1>9. Put("RemoveRunning", {}, u, stack') /\ Callable(stack')
  BY <1>3, <1>7, <1>8, PutRemover
<1>10. "Update" \in Functions(stack') /\ WillStart(stack')
  BY <1>8, <1>9, PutFacts
<1>11. Owned(stack') = Owned(stack)
  BY <1>3, <1>4, <1>5, <1>7, <1>9 DEF Put
<1> QED
  BY <1>1, <1>9, <1>10, <1>11, QuietCalls, NotLeaves

\* ImmediatelyAnimateToNewTarget: what shares a property is removed, then the new
\* one starts.
LEMMA AnimateInv ==
  ASSUME Inv, ImmediatelyAnimateToNewTarget
  PROVE  Inv'
<1> PICK rest : rest = Tail(stack)
  OBVIOUS
<1> PICK one \in Int : one = 1
  OBVIOUS
<1>1. /\ stack # <<>> /\ Top.function = "animate"
      /\ UNCHANGED <<heap, animation_queue_, running_animations_, last_step_time_,
                     is_started_, now, calls, died>>
      /\ Go(RemoveAll(one) \o <<On("AddStart", Top.s)>>)
  BY DEF ImmediatelyAnimateToNewTarget, At, Idle, animator
<1>2. "animate" \in Removers /\ "animate" \in Changers /\ "animate" \in Sequences
      /\ "animate" \in Owners
  BY DEF Removers, Changers, Sequences, Owners
<1>3. /\ WillStart(rest) /\ "Update" \in Functions(rest) /\ Top.s \in Addresses
      /\ Callable(rest) /\ Top.s \notin Owned(rest) /\ Owned(stack) = {Top.s} \cup Owned(rest)
  <2>1. Owns(Top) = {Top.s}
    BY <1>1, <1>2 DEF Owns
  <2> QED
    BY <1>1, <1>2, <2>1, TopWill
<1> PICK a \in FrameFields, b \in FrameFields :
      /\ RemoveAll(one) = <<a, b>>
      /\ a.function = "RemoveRunning" /\ a.s = Top.s
      /\ b.function = "CopyQueue" /\ b.s = Top.s
  <2>1. ASSUME NEW abort \in Int
        PROVE  \E x, y \in FrameFields :
                 /\ RemoveAll(abort) = <<x, y>>
                 /\ x.function = "RemoveRunning" /\ x.s = Top.s
                 /\ y.function = "CopyQueue" /\ y.s = Top.s
    BY <1>1, <1>3, MadeRemoveAll
  <2> QED
    BY <2>1, Zenon
<1> PICK c \in FrameFields : c = On("AddStart", Top.s) /\ c.function = "AddStart" /\ c.s = Top.s
  BY <1>3, MadeOn, NamesFacts
<1> PICK u, v \in Seq(FrameFields) : OnTop(c, rest, v) /\ OnTop(b, v, u) /\ OnTop(a, u, stack')
  <2> PICK y : y = <<On("AddStart", Top.s)>>
    OBVIOUS
  <2>1. Go(RemoveAll(one) \o y) /\ y = <<c>>
    BY <1>1
  <2>2. RemoveAll(one) \o y = <<a, b, c>>
    <3>1. ASSUME NEW x, x = <<a, b>>, NEW z, z = <<c>> PROVE x \o z = <<a, b, c>>
      BY <3>1, Joined3
    <3> QED
      BY <2>1, <3>1, Zenon
  <2>3. Go(<<a, b, c>>)
    BY <2>1, <2>2, Zenon
  <2> QED
    BY <1>1, <2>3, Go3
<1>4. Put("AddStart", {Top.s}, rest, v) /\ Callable(v)
  BY <1>3, PutNew
<1>5. "Update" \in Functions(v) /\ WillStart(v) /\ Top.s \in Owned(v)
  <2>1. "Update" \in Functions(v) /\ WillStart(v)
    BY <1>3, <1>4, PutFacts
  <2> QED
    BY <1>4, <2>1 DEF Put
<1>6. Put("CopyQueue", {}, v, u) /\ Callable(u)
  BY <1>3, <1>4, <1>5, PutRemover
<1>7. "Update" \in Functions(u) /\ WillStart(u) /\ Top.s \in Owned(u)
  <2>1. "Update" \in Functions(u) /\ WillStart(u)
    BY <1>5, <1>6, PutFacts
  <2> QED
    BY <1>5, <1>6, <2>1 DEF Put
<1>8. Put("RemoveRunning", {}, u, stack') /\ Callable(stack')
  BY <1>3, <1>6, <1>7, PutRemover
<1>9. "Update" \in Functions(stack') /\ WillStart(stack')
  BY <1>7, <1>8, PutFacts
<1>10. Owned(stack') = Owned(stack)
  BY <1>3, <1>4, <1>6, <1>8 DEF Put
<1> QED
  BY <1>1, <1>8, <1>9, <1>10, QuietCalls, NotLeaves

\* The copy of the queue.
LEMMA CopyQueueInv ==
  ASSUME Inv, CopyQueue
  PROVE  Inv'
<1> PICK rest : rest = Tail(stack)
  OBVIOUS
<1> DEFINE copied == [i \in DOMAIN animation_queue_ |->
                        [sequence |-> animation_queue_[i], start_time |-> 0]]
<1>1. /\ stack # <<>> /\ Top.function = "CopyQueue"
      /\ UNCHANGED <<heap, animation_queue_, running_animations_, last_step_time_,
                     is_started_, now, calls, died>>
      /\ Go(<<Frame("RemoveRunning", Top.s, copied, Top.time)>>)
  BY DEF CopyQueue, At, Idle, animator
<1>2. copied \in Seq(Runs)
  <2>1. /\ animation_queue_ \in Seq(Addresses)
        /\ DOMAIN animation_queue_ = 1 .. Len(animation_queue_)
        /\ Len(animation_queue_) \in Nat
    BY DEF Inv, Types
  <2>2. \A i \in 1 .. Len(animation_queue_) :
          [sequence |-> animation_queue_[i], start_time |-> 0] \in Runs
    BY <2>1 DEF Runs
  <2> QED
    BY <2>1, <2>2
<1> HIDE DEF copied
<1>3. "CopyQueue" \in Removers /\ "CopyQueue" \in Changers /\ "CopyQueue" \in Sequences
      /\ "CopyQueue" \notin Owners /\ "CopyQueue" \in Comparers
  BY DEF Removers, Changers, Sequences, Owners, Comparers
<1>4. /\ WillStart(rest) /\ "Update" \in Functions(rest) /\ Top.s \in Addresses
      /\ Callable(rest) /\ Owned(stack) = Owned(rest)
  <2>1. Owns(Top) = {}
    BY <1>1, <1>3 DEF Owns
  <2> QED
    BY <1>1, <1>3, <2>1, TopWill
<1>5. Top.s \in Owned(rest) /\ Top.time \in Int
  BY <1>1, <1>3, Stack DEF Fits, FrameFields
<1> PICK a \in FrameFields : a = Frame("RemoveRunning", Top.s, copied, Top.time)
                             /\ a.function = "RemoveRunning" /\ a.s = Top.s
  <2>1. Top.s \in Subjects
    BY <1>4 DEF Subjects
  <2> QED
    BY <1>2, <1>5, <2>1, MadeFrame, NamesFacts
<1>6. OnTop(a, rest, stack')
  BY <1>1, Go1
<1>7. Put("RemoveRunning", {}, rest, stack') /\ Callable(stack')
  BY <1>4, <1>5, <1>6, PutRemover
<1>8. "Update" \in Functions(stack') /\ WillStart(stack')
  BY <1>4, <1>7, PutFacts
<1>9. Owned(stack') = Owned(stack)
  BY <1>4, <1>7 DEF Put
<1> QED
  BY <1>1, <1>7, <1>8, <1>9, QuietCalls, NotLeaves

\* A sequence that exists animates something.
LEMMA Existent ==
  ASSUME Types, NEW s \in Addresses, heap[s] # Null
  PROVE  heap[s] \in Kinds /\ heap[s].props # {}
<1>1. heap[s] \in Kinds
  BY DEF Types
<1> QED
  BY <1>1, ConstantsAssumption

\* What frames own are sequences.
LEMMA OwnedAddresses ==
  ASSUME NEW frames \in Seq(FrameFields), Nested(frames)
  PROVE  Owned(frames) \subseteq Addresses
<1>1. ASSUME NEW i \in 1 .. Len(frames) PROVE Owns(frames[i]) \subseteq Addresses
  <2>1. frames[i].function \in Sequences => frames[i].s \in Addresses
    BY DEF Nested, Fits
  <2>2. Owners \subseteq Sequences
    BY DEF Owners, Sequences
  <2> QED
    BY <2>1, <2>2 DEF Owns
<1> QED
  BY <1>1 DEF Owned

\* No sequence runs twice.
LEMMA Distinct ==
  ASSUME Inv
  PROVE  \A i, j \in 1 .. Len(running_animations_) :
           running_animations_[i].sequence = running_animations_[j].sequence => i = j
<1> SUFFICES ASSUME NEW i \in 1 .. Len(running_animations_),
                    NEW j \in 1 .. Len(running_animations_), i # j,
                    running_animations_[i].sequence = running_animations_[j].sequence
             PROVE  FALSE
  OBVIOUS
<1> PICK s : s = running_animations_[i].sequence
  OBVIOUS
<1>1. heap[s].props \cap heap[s].props = {}
  BY DEF Inv, Queued, Disjoint
<1>2. s \in Addresses /\ heap[s] # Null
  <2>1. s \in Range(animation_queue_)
    BY RunningFacts
  <2> QED
    BY <2>1, RangeFacts DEF Inv, Types, Queued
<1>3. heap[s].props # {}
  BY <1>2, Existent DEF Inv
<1> QED
  BY <1>1, <1>3

\* A list of running animations without one of them.
LEMMA ErasedRun ==
  ASSUME NEW run \in Seq(Runs), NEW h, Disjoint(run, h), NEW m \in 1 .. Len(run),
         \A i, j \in 1 .. Len(run) : run[i].sequence = run[j].sequence => i = j
  PROVE  /\ RemoveAt(run, m) \in Seq(Runs) /\ Disjoint(RemoveAt(run, m), h)
         /\ {r.sequence : r \in Range(RemoveAt(run, m))} =
              {r.sequence : r \in Range(run)} \ {run[m].sequence}
<1> DEFINE n == Len(run)
           new == RemoveAt(run, m)
           at(i) == IF i < m THEN i ELSE i + 1
<1>1. n \in Nat /\ m \in 1 .. n
  OBVIOUS
<1>2. /\ new \in Seq(Runs) /\ Len(new) = n - 1
      /\ \A i \in 1 .. n - 1 : new[i] = run[at(i)]
  <2>1. /\ new \in Seq(Runs) /\ Len(new) = n - 1
        /\ \A i \in 1 .. n - 1 : new[i] = IF i < m THEN run[i] ELSE run[i + 1]
    BY RemoveAtFacts
  <2> QED
    BY <2>1
<1>3. /\ \A i \in 1 .. n - 1 : at(i) \in 1 .. n /\ at(i) # m
      /\ \A i, j \in 1 .. n - 1 : i # j => at(i) # at(j)
      /\ \A k \in 1 .. n : k # m => \E i \in 1 .. n - 1 : at(i) = k
  <2>1. \A i \in 1 .. n - 1 : at(i) \in 1 .. n /\ at(i) # m
    BY <1>1
  <2>2. \A i, j \in 1 .. n - 1 : i # j => at(i) # at(j)
    BY <1>1
  <2>3. ASSUME NEW k \in 1 .. n, k # m PROVE \E i \in 1 .. n - 1 : at(i) = k
    <3>1. CASE k < m
      <4>1. k \in 1 .. n - 1 /\ at(k) = k
        BY <1>1, <3>1
      <4> QED
        BY <4>1
    <3>2. CASE k > m
      <4>1. k - 1 \in 1 .. n - 1 /\ at(k - 1) = k
        BY <1>1, <3>2
      <4> QED
        BY <4>1
    <3> QED
      BY <1>1, <2>3, <3>1, <3>2
  <2> QED
    BY <2>1, <2>2, <2>3
<1> HIDE DEF new, at, n
<1>4. Disjoint(new, h)
  <2> SUFFICES ASSUME NEW i \in 1 .. n - 1, NEW j \in 1 .. n - 1, i # j
               PROVE  h[new[i].sequence].props \cap h[new[j].sequence].props = {}
    BY <1>2 DEF Disjoint
  <2>1. at(i) \in 1 .. n /\ at(j) \in 1 .. n /\ at(i) # at(j)
    BY <1>3
  <2>2. h[run[at(i)].sequence].props \cap h[run[at(j)].sequence].props = {}
    BY <2>1 DEF Disjoint, n
  <2> QED
    BY <1>2, <2>2
<1>5. ASSUME NEW s
      PROVE  s \in {r.sequence : r \in Range(new)} <=> \E i \in 1 .. n - 1 : new[i].sequence = s
  BY <1>2, RangeFacts
<1>6. ASSUME NEW s
      PROVE  s \in {r.sequence : r \in Range(run)} <=> \E i \in 1 .. n : run[i].sequence = s
  BY RangeFacts DEF n
<1>7. ASSUME NEW s
      PROVE  (\E i \in 1 .. n - 1 : new[i].sequence = s) <=>
               s # run[m].sequence /\ \E i \in 1 .. n : run[i].sequence = s
  <2>1. ASSUME NEW i \in 1 .. n - 1, new[i].sequence = s
        PROVE  s # run[m].sequence /\ \E k \in 1 .. n : run[k].sequence = s
    <3>1. at(i) \in 1 .. n /\ at(i) # m /\ run[at(i)].sequence = s
      BY <1>2, <1>3, <2>1
    <3> QED
      BY <1>1, <3>1 DEF n
  <2>2. ASSUME NEW k \in 1 .. n, run[k].sequence = s, s # run[m].sequence
        PROVE  \E i \in 1 .. n - 1 : new[i].sequence = s
    <3>1. PICK i \in 1 .. n - 1 : at(i) = k
      BY <1>3, <2>2
    <3> QED
      BY <1>2, <2>2, <3>1
  <2> QED
    BY <2>1, <2>2
<1>8. {r.sequence : r \in Range(new)} = {r.sequence : r \in Range(run)} \ {run[m].sequence}
  <2>1. ASSUME NEW s
        PROVE  s \in {r.sequence : r \in Range(new)} <=>
                 s \in {r.sequence : r \in Range(run)} /\ s # run[m].sequence
    BY <1>5, <1>6, <1>7
  <2> QED
    BY <2>1
<1> QED
  BY <1>2, <1>4, <1>8 DEF new

\* RemoveAnimation of a sequence that the animator has.
LEMMA RemoveFacts ==
  ASSUME Inv, NEW s \in Range(animation_queue_), RemoveAnimation(s)
  PROVE  /\ animation_queue_' \in Seq(Addresses) /\ IsInjective(animation_queue_')
         /\ Range(animation_queue_') = Range(animation_queue_) \ {s}
         /\ running_animations_' \in Seq(Runs) /\ Disjoint(running_animations_', heap)
         /\ Running' = Running \ {s}
         /\ UNCHANGED <<last_step_time_, is_started_>>
<1>1. animation_queue_ \in Seq(Addresses) /\ running_animations_ \in Seq(Runs)
      /\ Len(animation_queue_) \in Nat /\ Len(running_animations_) \in Nat
      /\ DOMAIN animation_queue_ = 1 .. Len(animation_queue_)
      /\ DOMAIN running_animations_ = 1 .. Len(running_animations_)
      /\ IsInjective(animation_queue_) /\ Disjoint(running_animations_, heap)
  BY DEF Inv, Types, Queued
<1>2. /\ running_animations_' = Erased(running_animations_, Plays(s))
      /\ animation_queue_' = Erased(animation_queue_, Waits(s))
      /\ UNCHANGED <<last_step_time_, is_started_>>
  BY DEF RemoveAnimation
<1>3. PICK m \in 1 .. Len(animation_queue_) :
        animation_queue_[m] = s /\ animation_queue_' = RemoveAt(animation_queue_, m)
  <2>1. Waits(s) # {} /\ Waits(s) \in SUBSET (1 .. Len(animation_queue_))
    BY <1>1, RangeFacts DEF Waits
  <2>2. Min(Waits(s)) \in Waits(s) /\ Min(Waits(s)) \in 1 .. Len(animation_queue_)
    BY <1>1, <2>1, MinFacts
  <2>3. animation_queue_[Min(Waits(s))] = s
    BY <2>2 DEF Waits
  <2> QED
    BY <1>2, <2>1, <2>2, <2>3 DEF Erased
<1>4. /\ animation_queue_' \in Seq(Addresses) /\ IsInjective(animation_queue_')
      /\ Range(animation_queue_') = Range(animation_queue_) \ {s}
  BY <1>1, <1>3, RemoveAtFacts, RemoveAtRange
<1>5. /\ running_animations_' \in Seq(Runs) /\ Disjoint(running_animations_', heap)
      /\ Running' = Running \ {s}
  <2>1. CASE Plays(s) = {}
    <3>1. running_animations_' = running_animations_
      BY <1>2, <2>1 DEF Erased
    <3>2. s \notin Running
      BY <1>1, <2>1, RangeFacts DEF Plays, Running
    <3> QED
      BY <1>1, <3>1, <3>2 DEF Running
  <2>2. CASE Plays(s) # {}
    <3>1. Plays(s) \in SUBSET (1 .. Len(running_animations_))
      BY <1>1 DEF Plays
    <3>2. Min(Plays(s)) \in Plays(s) /\ Min(Plays(s)) \in 1 .. Len(running_animations_)
      BY <1>1, <2>2, <3>1, MinFacts
    <3>3. PICK k \in 1 .. Len(running_animations_) :
            /\ running_animations_[k].sequence = s
            /\ running_animations_' = RemoveAt(running_animations_, k)
      BY <1>2, <2>2, <3>2 DEF Erased, Plays
    <3>4. /\ RemoveAt(running_animations_, k) \in Seq(Runs)
          /\ Disjoint(RemoveAt(running_animations_, k), heap)
          /\ {r.sequence : r \in Range(RemoveAt(running_animations_, k))} =
               {r.sequence : r \in Range(running_animations_)} \ {running_animations_[k].sequence}
      BY <1>1, Distinct, ErasedRun
    <3> QED
      BY <3>3, <3>4 DEF Running
  <2> QED
    BY <2>1, <2>2
<1> QED
  BY <1>2, <1>4, <1>5

\* Sequences that the animator does not have may be made and deleted.
LEMMA OtherHeap ==
  ASSUME Inv, UNCHANGED <<animation_queue_, running_animations_>>,
         \A s \in Range(animation_queue_) : heap'[s] = heap[s]
  PROVE  Queued' /\ (Stuck => Stuck') /\ Running' = Running /\ is_animating' = is_animating
<1>1. Running' = Running /\ is_animating' = is_animating
  BY DEF Running, is_animating
<1>2. \A i \in 1 .. Len(running_animations_) :
        heap'[running_animations_[i].sequence] = heap[running_animations_[i].sequence]
  BY RunningFacts
<1>3. Disjoint(running_animations_', heap')
  BY <1>2 DEF Disjoint, Inv, Queued
<1>4. Queued'
  BY <1>1, <1>3 DEF Inv, Queued
<1>5. ASSUME Stuck PROVE Stuck'
  <2> SUFFICES ASSUME NEW i \in 1 .. Len(animation_queue_)
               PROVE  \/ \E s \in Running :
                           heap'[s].props \cap heap'[animation_queue_[i]].props # {}
                      \/ \E j \in 1 .. i - 1 :
                           heap'[animation_queue_[j]].props
                             \cap heap'[animation_queue_[i]].props # {}
    BY <1>1 DEF Stuck
  <2>1. \A j \in 1 .. Len(animation_queue_) : heap'[animation_queue_[j]] = heap[animation_queue_[j]]
    BY RangeFacts DEF Inv, Types
  <2>2. \A s \in Running : heap'[s] = heap[s]
    BY DEF Inv, Queued
  <2>3. \A j \in 1 .. i - 1 : j \in 1 .. Len(animation_queue_)
    BY DEF Inv, Types
  <2> QED
    BY <1>5, <2>1, <2>2, <2>3 DEF Stuck
<1> QED
  BY <1>1, <1>4, <1>5

\* UpdateAnimationState starts or stops the timer.
LEMMA UpdateInv ==
  ASSUME Inv, UpdateAnimationState
  PROVE  Inv'
<1>1. /\ stack # <<>> /\ Top.function = "Update" /\ Go(<<>>) /\ is_started_' = is_animating
      /\ UNCHANGED <<heap, animation_queue_, running_animations_, last_step_time_, now,
                     calls, died>>
  BY DEF UpdateAnimationState, At
<1>2. Owns(Top) = {} /\ Top.function \notin Leaves \cup Starters
  BY <1>1 DEF Owns, Owners, Leaves, Starters
<1>3. stack' = Tail(stack)
  <2>1. Tail(stack) \in Seq(FrameFields)
    BY <1>1, Stack
  <2> QED
    BY <1>1, <2>1, ConcatEmptySeq DEF Go
<1>4. /\ stack' \in Seq(FrameFields) /\ Nested(stack') /\ Owned(stack') = Owned(stack)
      /\ Starters \cap Functions(stack') = Starters \cap Functions(stack)
      /\ Leaves \cap Functions(stack') = {}
  BY <1>1, <1>2, <1>3, Stack
<1>5. Leaving' /\ Starting' = {}
  BY <1>4, NotLeaving
<1>6. Types'
  BY <1>1, <1>4 DEF Inv, Types, is_animating
<1>7. Queued' /\ (Stuck => Stuck') /\ is_animating' = is_animating
  BY <1>1, OtherHeap
<1>8. Existing'
  <2>1. Starting = {}
    BY <1>1 DEF Starting
  <2> QED
    BY <1>1, <1>4, <2>1 DEF Inv, Existing
<1>9. Mended'
  BY <1>1, <1>4, <1>7 DEF Inv, Mended
<1> QED
  BY <1>4, <1>5, <1>6, <1>7, <1>8, <1>9 DEF Inv

\* A sequence that nobody has is deleted.
LEMMA DeleteRemovedInv ==
  ASSUME Inv, DeleteRemoved
  PROVE  Inv'
<1>1. /\ stack # <<>> /\ Top.function = "Delete" /\ Go(<<>>)
      /\ heap' = [s \in Addresses |-> IF s \in {Top.s} THEN Null ELSE heap[s]]
      /\ UNCHANGED <<animation_queue_, running_animations_, last_step_time_, is_started_,
                     now, calls, died>>
  BY DEF DeleteRemoved, At, animator, Delete
<1>2. Owns(Top) = {Top.s} /\ Top.function \notin Leaves \cup Starters /\ Top.function # "Update"
  BY <1>1 DEF Owns, Owners, Leaves, Starters
<1>3. stack' = Tail(stack)
  <2>1. Tail(stack) \in Seq(FrameFields)
    BY <1>1, Stack
  <2> QED
    BY <1>1, <2>1, ConcatEmptySeq DEF Go
<1>4. /\ stack' \in Seq(FrameFields) /\ Nested(stack')
      /\ Owned(stack) = {Top.s} \cup Owned(stack') /\ Top.s \notin Owned(stack')
      /\ Starters \cap Functions(stack') = Starters \cap Functions(stack)
      /\ "Update" \in Functions(stack) => "Update" \in Functions(stack')
      /\ Leaves \cap Functions(stack') = {}
  BY <1>1, <1>2, <1>3, Stack DEF Fits
<1>5. Leaving' /\ Starting' = {} /\ Starting = {}
  BY <1>1, <1>4, NotLeaving DEF Starting
<1>6. /\ Top.s \notin Range(animation_queue_)
      /\ \A s \in Addresses : s # Top.s => heap'[s] = heap[s]
      /\ Top.s \in Addresses => heap'[Top.s] = Null
  BY <1>1, <1>4 DEF Inv, Existing
<1>7. Types'
  BY <1>1, <1>4 DEF Inv, Types
<1>8. Queued' /\ (Stuck => Stuck') /\ is_animating' = is_animating
  <2>1. Range(animation_queue_) \subseteq Addresses
    BY RangeFacts DEF Inv, Types
  <2> QED
    BY <1>1, <1>6, <2>1, OtherHeap
<1>9. Existing'
  <2>1. \A s \in Owned(stack) : heap[s] # Null /\ s \notin Range(animation_queue_)
    BY DEF Inv, Existing
  <2>2. \A s \in Owned(stack') : s \in Addresses
    BY <1>4, <1>7, OwnedAddresses DEF Types
  <2>3. \A s \in Addresses : heap[s] # Null => s \in Range(animation_queue_) \cup Owned(stack)
    BY <1>5 DEF Inv, Existing
  <2> QED
    BY <1>1, <1>4, <1>5, <1>6, <2>1, <2>2, <2>3 DEF Existing
<1>10. Mended'
  BY <1>1, <1>4, <1>8 DEF Inv, Mended
<1> QED
  BY <1>4, <1>5, <1>7, <1>8, <1>9, <1>10 DEF Inv

\* A sequence leaves the queue; the queue and the timer are left to frames below.
LEMMA Removed ==
  ASSUME Inv, NEW s \in Range(animation_queue_), RemoveAnimation(s),
         UNCHANGED <<now, calls, died>>, heap' \in [Addresses -> Kinds \cup {Null}],
         \A x \in Addresses : x # s => heap'[x] = heap[x],
         Callable(stack'), WillStart(stack'), "Update" \in Functions(stack')
  PROVE  /\ Types' /\ Queued' /\ Nested(stack)' /\ Leaving' /\ Mended' /\ Starting' = {}
         /\ Range(animation_queue_') = Range(animation_queue_) \ {s}
<1>1. /\ animation_queue_' \in Seq(Addresses) /\ IsInjective(animation_queue_')
      /\ Range(animation_queue_') = Range(animation_queue_) \ {s}
      /\ running_animations_' \in Seq(Runs) /\ Disjoint(running_animations_', heap)
      /\ Running' = Running \ {s}
      /\ UNCHANGED <<last_step_time_, is_started_>>
  BY RemoveFacts
<1>2. /\ stack' \in Seq(FrameFields) /\ Nested(stack') /\ Leaves \cap Functions(stack') = {}
      /\ Starters \cap Functions(stack') # {}
  BY DEF Callable, WillStart
<1>3. Types'
  BY <1>1, <1>2 DEF Inv, Types
<1>4. Range(animation_queue_) \subseteq Addresses
  BY RangeFacts DEF Inv, Types
<1>5. Running' \subseteq Range(animation_queue_')
  BY <1>1 DEF Inv, Queued
<1>6. Disjoint(running_animations_', heap')
  <2> PICK run \in Seq(Runs) : run = running_animations_'
    BY <1>1
  <2>1. \A i \in 1 .. Len(run) : heap'[run[i].sequence] = heap[run[i].sequence]
    <3> TAKE i \in 1 .. Len(run)
    <3>1. run[i] \in Range(run)
      BY RangeFacts
    <3>2. run[i].sequence \in Running'
      BY <3>1 DEF Running
    <3> QED
      BY <1>1, <1>4, <1>5, <3>2
  <2>2. Disjoint(run, heap)
    BY <1>1
  <2>3. Disjoint(run, heap')
    BY <2>1, <2>2 DEF Disjoint
  <2> QED
    BY <2>3
<1>7. \A x \in Range(animation_queue_') : heap'[x] # Null
  BY <1>1, <1>4 DEF Inv, Queued
<1>8. Queued'
  BY <1>1, <1>5, <1>6, <1>7 DEF Queued
<1>9. Leaving' /\ Starting' = {}
  BY <1>2, NotLeaving
<1>10. Mended'
  BY <1>2 DEF Mended
<1> QED
  BY <1>1, <1>2, <1>3, <1>8, <1>9, <1>10

\* It has a new owner.
LEMMA RemovedOwned ==
  ASSUME Inv, NEW s \in Range(animation_queue_), RemoveAnimation(s), Starting \subseteq {s},
         UNCHANGED <<heap, now, calls, died>>,
         Callable(stack'), WillStart(stack'), "Update" \in Functions(stack'),
         Owned(stack') = {s} \cup Owned(stack)
  PROVE  Inv'
<1>1. heap' \in [Addresses -> Kinds \cup {Null}]
  BY DEF Inv, Types
<1>2. /\ Types' /\ Queued' /\ Nested(stack)' /\ Leaving' /\ Mended' /\ Starting' = {}
      /\ Range(animation_queue_') = Range(animation_queue_) \ {s}
  BY <1>1, Removed
<1>3. heap[s] # Null
  BY DEF Inv, Queued
<1>4. Existing'
  BY <1>2, <1>3 DEF Inv, Existing
<1> QED
  BY <1>2, <1>4 DEF Inv

\* It is deleted.
LEMMA RemovedDeleted ==
  ASSUME Inv, NEW s \in Range(animation_queue_), RemoveAnimation(s), Starting = {},
         heap' = [x \in Addresses |-> IF x = s THEN Null ELSE heap[x]],
         UNCHANGED <<now, calls, died>>,
         Callable(stack'), WillStart(stack'), "Update" \in Functions(stack'),
         Owned(stack') = Owned(stack)
  PROVE  Inv'
<1>1. /\ heap' \in [Addresses -> Kinds \cup {Null}]
      /\ \A x \in Addresses : x # s => heap'[x] = heap[x]
      /\ \A x \in Addresses : heap'[x] # Null => x # s /\ heap[x] # Null
  BY DEF Inv, Types
<1>2. /\ Types' /\ Queued' /\ Nested(stack)' /\ Leaving' /\ Mended' /\ Starting' = {}
      /\ Range(animation_queue_') = Range(animation_queue_) \ {s}
  BY <1>1, Removed
<1>3. Owned(stack) \subseteq Addresses
  BY OwnedAddresses DEF Inv, Types
<1>4. Existing'
  <2>1. \A x \in Owned(stack) : heap[x] # Null /\ x \notin Range(animation_queue_)
    BY DEF Inv, Existing
  <2>2. \A x \in Owned(stack) : x # s
    BY <2>1
  <2>3. \A x \in Addresses : heap[x] # Null => x \in Range(animation_queue_) \cup Owned(stack)
    BY DEF Inv, Existing
  <2> QED
    BY <1>1, <1>2, <1>3, <2>1, <2>2, <2>3 DEF Existing
<1> QED
  BY <1>2, <1>4 DEF Inv

\* RemoveAnimation of a sequence that the animator does not have.
LEMMA RemoveNothing ==
  ASSUME Inv, NEW s, s \notin Range(animation_queue_), RemoveAnimation(s)
  PROVE  UNCHANGED <<animation_queue_, running_animations_, last_step_time_, is_started_>>
<1>1. Waits(s) = {}
  BY RangeFacts DEF Waits, Inv, Types
<1>2. Plays(s) = {}
  <2>1. DOMAIN running_animations_ = 1 .. Len(running_animations_)
    BY DEF Inv, Types
  <2> QED
    BY <2>1, RunningFacts DEF Plays
<1> QED
  BY <1>1, <1>2 DEF RemoveAnimation, Erased

\* FinishAnimation.
LEMMA FinishInv ==
  ASSUME Inv, FinishAnimation
  PROVE  Inv'
<1> PICK rest : rest = Tail(stack)
  OBVIOUS
<1> PICK s : s = Top.s
  OBVIOUS
<1>1. /\ stack # <<>> /\ Top.function = "Finish" /\ RemoveAnimation(s)
      /\ UNCHANGED <<heap, now, calls, died>>
      /\ Go(<<On("Ended", s), On("Delete", s), Call("ProcessQueue"), Call("Update")>>)
  BY DEF FinishAnimation, At
<1>2. Owns(Top) = {} /\ Starting = {}
  BY <1>1 DEF Owns, Owners, Starting
<1>3. /\ s \in Range(animation_queue_) /\ s \in Addresses /\ s \notin Owned(stack)
  <2>1. s \in Range(animation_queue_)
    BY <1>1 DEF Inv, Leaving
  <2> QED
    BY <2>1, RangeFacts DEF Inv, Types, Existing
<1>4. Callable(rest) /\ Owned(stack) = Owned(rest)
  BY <1>1, <1>2, TopWill
<1> PICK a \in FrameFields : a = On("Ended", s) /\ a.function = "Ended" /\ a.s = s
  BY <1>3, MadeOn, NamesFacts
<1> PICK b \in FrameFields : b = On("Delete", s) /\ b.function = "Delete" /\ b.s = s
  BY <1>3, MadeOn, NamesFacts
<1> PICK c \in FrameFields : c = Call("ProcessQueue") /\ c.function = "ProcessQueue"
  BY MadeCall, NamesFacts
<1> PICK d \in FrameFields : d = Call("Update") /\ d.function = "Update"
  BY MadeCall, NamesFacts
<1> PICK u, v, w \in Seq(FrameFields) :
      OnTop(d, rest, w) /\ OnTop(c, w, v) /\ OnTop(b, v, u) /\ OnTop(a, u, stack')
  <2>1. Go(<<a, b, c, d>>)
    BY <1>1
  <2> QED
    BY <1>1, <2>1, Go4
<1>5. Put("Update", {}, rest, w) /\ Callable(w)
  BY <1>4, PutPlain
<1>6. Put("ProcessQueue", {}, w, v) /\ Callable(v)
  BY <1>5, PutPlain
<1>7. "Update" \in Functions(v) /\ WillStart(v) /\ Owned(v) = Owned(stack)
  BY <1>4, <1>5, <1>6 DEF Put, WillStart, Starters
<1>8. Put("Delete", {s}, v, u) /\ Callable(u)
  BY <1>3, <1>6, <1>7, PutOwner
<1>9. Put("Ended", {}, u, stack') /\ Callable(stack')
  BY <1>3, <1>8, PutNamed
<1>10. "Update" \in Functions(stack') /\ WillStart(stack')
  BY <1>7, <1>8, <1>9, PutFacts
<1>11. Owned(stack') = {s} \cup Owned(stack)
  BY <1>7, <1>8, <1>9 DEF Put
<1> QED
  BY <1>1, <1>2, <1>3, <1>9, <1>10, <1>11, RemovedOwned

\* The sequence that FinishAnyAnimationWithZeroDuration removes, if it is there.
LEMMA RemoveDeleteInv ==
  ASSUME Inv, RemoveDelete
  PROVE  Inv'
<1> PICK s : s = Top.s
  OBVIOUS
<1>1. /\ stack # <<>> /\ Top.function = "RemoveDelete" /\ RemoveAnimation(s) /\ Go(<<>>)
      /\ heap' = [x \in Addresses |->
                    IF x \in {s} \cap Range(animation_queue_) THEN Null ELSE heap[x]]
      /\ UNCHANGED <<now, calls, died>>
  BY DEF RemoveDelete, At, Delete
<1>2. /\ Owns(Top) = {} /\ Top.function \notin Leaves \cup Starters /\ Top.function # "Update"
      /\ Top.function \in Removers /\ Top.function \in Changers /\ Starting = {}
  BY <1>1 DEF Owns, Owners, Leaves, Starters, Removers, Changers, Starting
<1>3. /\ WillStart(Tail(stack)) /\ "Update" \in Functions(Tail(stack))
      /\ Callable(Tail(stack)) /\ Owned(stack) = Owned(Tail(stack))
  BY <1>1, <1>2, TopWill
<1>4. stack' = Tail(stack)
  <2>1. Tail(stack) \in Seq(FrameFields)
    BY <1>1, Stack
  <2> QED
    BY <1>1, <2>1, ConcatEmptySeq DEF Go
<1>5. CASE s \in Range(animation_queue_)
  <2>1. heap' = [x \in Addresses |-> IF x = s THEN Null ELSE heap[x]]
    BY <1>1, <1>5
  <2> QED
    BY <1>1, <1>2, <1>3, <1>4, <1>5, <2>1, RemovedDeleted
<1>6. CASE s \notin Range(animation_queue_)
  <2>1. heap' = heap
    <3>1. heap' = [x \in Addresses |-> heap[x]]
      BY <1>1, <1>6
    <3> QED
      BY <3>1 DEF Inv, Types
  <2>2. UNCHANGED <<animation_queue_, running_animations_, last_step_time_, is_started_>>
    BY <1>1, <1>6, RemoveNothing
  <2>3. died' \in BOOLEAN
    BY <1>1, Stack
  <2> QED
    BY <1>1, <1>2, <2>1, <2>2, <2>3, Done
<1> QED
  BY <1>5, <1>6

\* RemoveAllAnimationsWithACommonProperty: one turn of a loop.
LEMMA RemoveRunningInv ==
  ASSUME Inv, RemoveRunning
  PROVE  Inv'
<1> PICK rest : rest = Tail(stack)
  OBVIOUS
<1>1. /\ stack # <<>> /\ Top.function = "RemoveRunning" /\ UNCHANGED <<heap, now, calls, died>>
  BY DEF RemoveRunning, At
<1>2. /\ Owns(Top) = {} /\ Top.function \notin Leaves \cup Starters /\ Top.function # "Update"
      /\ Top.function \in Removers /\ Top.function \in Changers /\ Starting = {}
  BY <1>1 DEF Owns, Owners, Leaves, Starters, Removers, Changers, Starting
<1>3. Top \in FrameFields /\ died' \in BOOLEAN
  BY <1>1, Stack
<1>4. CASE Top.copy = <<>>
  <2>1. /\ Go(<<>>)
        /\ UNCHANGED <<animation_queue_, running_animations_, last_step_time_, is_started_>>
    BY <1>4 DEF RemoveRunning, animator
  <2> QED
    BY <1>1, <1>2, <1>3, <2>1, Done
<1>5. CASE Top.copy # <<>>
  <2>1. /\ NextOne \in FrameFields /\ NextOne.function = Top.function /\ NextOne.s = Top.s
        /\ Head(Top.copy).sequence \in Addresses
    BY <1>3, <1>5, NextOneFacts
  <2>2. CASE ~RemoveOne(Head(Top.copy))
    <3>1. /\ Go(<<NextOne>>)
          /\ UNCHANGED <<animation_queue_, running_animations_, last_step_time_, is_started_>>
      BY <1>5, <2>2 DEF RemoveRunning, animator
    <3> QED
      BY <1>1, <1>2, <1>3, <2>1, <3>1, Turn
  <2>3. CASE RemoveOne(Head(Top.copy))
    <3> PICK s \in Addresses : s = Head(Top.copy).sequence
      BY <2>1
    <3> PICK ended \in {"Ended", "Aborted"} :
          ended = IF Top.time = 1 THEN "Aborted" ELSE "Ended"
      OBVIOUS
    <3>1. /\ RemoveAnimation(s) /\ s \in Range(animation_queue_)
          /\ Go(<<On(ended, s), On("Delete", s), NextOne>>)
      BY <1>5, <2>3 DEF RemoveRunning, RemoveOne, HasAnimation
    <3> PICK a \in FrameFields : a = On(ended, s) /\ a.function = ended /\ a.s = s
      BY MadeOn, NamesFacts
    <3> PICK b \in FrameFields : b = On("Delete", s) /\ b.function = "Delete" /\ b.s = s
      BY MadeOn, NamesFacts
    <3> PICK c \in FrameFields : c = NextOne /\ c.function = Top.function /\ c.s = Top.s
      BY <2>1
    <3> PICK u, v \in Seq(FrameFields) :
          OnTop(c, rest, v) /\ OnTop(b, v, u) /\ OnTop(a, u, stack')
      <4>1. Go(<<a, b, c>>)
        BY <3>1
      <4> QED
        BY <1>1, <4>1, Go3
    <3>2. Callable(v) /\ Functions(v) = Functions(stack) /\ Owned(v) = Owned(stack)
      BY <1>1, <1>2, PutNext
    <3>3. "Update" \in Functions(v) /\ WillStart(v)
      BY <1>1, <1>2, <3>2, TopWill DEF WillStart
    <3>4. s \notin Owned(v)
      BY <3>1, <3>2 DEF Inv, Existing
    <3>5. Put("Delete", {s}, v, u) /\ Callable(u)
      BY <3>2, <3>4, PutOwner
    <3>6. Put(ended, {}, u, stack') /\ Callable(stack')
      BY <3>5, PutNamed
    <3>7. "Update" \in Functions(stack') /\ WillStart(stack')
      BY <3>3, <3>5, <3>6, PutFacts
    <3>8. Owned(stack') = {s} \cup Owned(stack)
      BY <3>2, <3>5, <3>6 DEF Put
    <3> QED
      BY <1>1, <1>2, <3>1, <3>6, <3>7, <3>8, RemovedOwned
  <2> QED
    BY <2>2, <2>3
<1> QED
  BY <1>4, <1>5

\* A list with one more entry, at its end or at its beginning.
LEMMA AddFacts ==
  ASSUME NEW S, NEW list \in Seq(S), IsInjective(list), NEW e \in S, e \notin Range(list),
         NEW new, new = Append(list, e) \/ new = <<e>> \o list
  PROVE  new \in Seq(S) /\ IsInjective(new) /\ Range(new) = Range(list) \cup {e}
<1> DEFINE n == Len(list)
<1>1. n \in Nat /\ DOMAIN list = 1 .. n
  OBVIOUS
<1>2. \A i, j \in 1 .. n : list[i] = list[j] => i = j
  BY <1>1 DEF IsInjective
<1>3. \A i \in 1 .. n : list[i] # e
  BY <1>1, RangeFacts
<1>4. CASE new = Append(list, e)
  <2>1. /\ new \in Seq(S) /\ Len(new) = n + 1 /\ DOMAIN new = 1 .. n + 1
        /\ new[n + 1] = e /\ \A i \in 1 .. n : new[i] = list[i]
    BY <1>4
  <2> HIDE DEF n
  <2>2. \A i \in 1 .. n + 1 : i = n + 1 \/ i \in 1 .. n
    BY <1>1
  <2>3. IsInjective(new)
    BY <1>1, <1>2, <1>3, <2>1, <2>2 DEF IsInjective
  <2>4. Range(new) = Range(list) \cup {e}
    <3>1. ASSUME NEW x \in Range(new) PROVE x \in Range(list) \cup {e}
      <4>1. PICK i \in 1 .. n + 1 : new[i] = x
        BY <2>1, <3>1, RangeFacts
      <4>2. i \in 1 .. n => list[i] \in Range(list)
        BY <1>1, RangeFacts DEF n
      <4> QED
        BY <2>1, <2>2, <4>1, <4>2
    <3>2. ASSUME NEW x \in Range(list) PROVE x \in Range(new)
      <4>1. PICK i \in 1 .. n : list[i] = x
        BY <3>2, RangeFacts DEF n
      <4>2. i \in 1 .. n + 1 /\ new[i] = x
        BY <1>1, <2>1, <4>1
      <4> QED
        BY <2>1, <4>2, RangeFacts
    <3>3. e \in Range(new)
      <4>1. n + 1 \in 1 .. n + 1
        BY <1>1
      <4> QED
        BY <2>1, <4>1, RangeFacts
    <3> QED
      BY <3>1, <3>2, <3>3
  <2> QED
    BY <2>1, <2>3, <2>4
<1>5. CASE new = <<e>> \o list
  <2>1. /\ new \in Seq(S) /\ Len(new) = n + 1 /\ DOMAIN new = 1 .. n + 1
        /\ new[1] = e /\ \A i \in 1 .. n : new[i + 1] = list[i]
    <3>1. /\ new \in Seq(S) /\ Len(new) = n + 1
          /\ new[1] = e /\ \A i \in 1 .. n : new[i + 1] = list[i]
      BY <1>5, ConsFacts
    <3> QED
      BY <3>1
  <2> HIDE DEF n
  <2>2. /\ \A i \in 1 .. n + 1 : i = 1 \/ (i - 1 \in 1 .. n /\ (i - 1) + 1 = i)
        /\ \A i \in 1 .. n + 1 : i # 1 => new[i] = list[i - 1]
    <3>1. \A i \in 1 .. n + 1 : i = 1 \/ (i - 1 \in 1 .. n /\ (i - 1) + 1 = i)
      BY <1>1
    <3>2. ASSUME NEW i \in 1 .. n + 1, i # 1 PROVE new[i] = list[i - 1]
      <4>1. i - 1 \in 1 .. n /\ (i - 1) + 1 = i
        BY <3>1, <3>2
      <4>2. new[(i - 1) + 1] = list[i - 1]
        BY <2>1, <4>1
      <4> QED
        BY <4>1, <4>2
    <3> QED
      BY <3>1, <3>2
  <2>3. IsInjective(new)
    <3>1. ASSUME NEW i \in 1 .. n + 1, NEW j \in 1 .. n + 1, new[i] = new[j] PROVE i = j
      <4>1. CASE i = 1 /\ j = 1
        BY <4>1
      <4>2. CASE i = 1 /\ j # 1
        BY <1>3, <2>1, <2>2, <3>1, <4>2
      <4>3. CASE i # 1 /\ j = 1
        BY <1>3, <2>1, <2>2, <3>1, <4>3
      <4>4. CASE i # 1 /\ j # 1
        <5>1. list[i - 1] = list[j - 1] /\ i - 1 \in 1 .. n /\ j - 1 \in 1 .. n
          BY <2>2, <3>1, <4>4
        <5>2. i - 1 = j - 1
          BY <1>2, <5>1
        <5> QED
          BY <1>1, <5>2
      <4> QED
        BY <4>1, <4>2, <4>3, <4>4
    <3> QED
      BY <2>1, <3>1 DEF IsInjective
  <2>4. Range(new) = Range(list) \cup {e}
    <3>1. ASSUME NEW x \in Range(new) PROVE x \in Range(list) \cup {e}
      <4>1. PICK i \in 1 .. n + 1 : new[i] = x
        BY <2>1, <3>1, RangeFacts
      <4>2. i # 1 => list[i - 1] \in Range(list)
        BY <1>1, <2>2, RangeFacts DEF n
      <4> QED
        BY <2>1, <2>2, <4>1, <4>2
    <3>2. ASSUME NEW x \in Range(list) PROVE x \in Range(new)
      <4>1. PICK i \in 1 .. n : list[i] = x
        BY <3>2, RangeFacts DEF n
      <4>2. i + 1 \in 1 .. n + 1 /\ new[i + 1] = x
        BY <1>1, <2>1, <4>1
      <4> QED
        BY <2>1, <4>2, RangeFacts
    <3>3. e \in Range(new)
      <4>1. 1 \in 1 .. n + 1
        BY <1>1
      <4> QED
        BY <2>1, <4>1, RangeFacts
    <3> QED
      BY <3>1, <3>2, <3>3
  <2> QED
    BY <2>1, <2>3, <2>4
<1> QED
  BY <1>4, <1>5

\* What the frame in progress owns goes into the queue.
LEMMA Enter ==
  ASSUME Inv, stack # <<>>, NEW s, Owns(Top) = {s}, Top.function \notin Leaves,
         UNCHANGED <<heap, running_animations_, last_step_time_, is_started_, now, calls, died>>,
         animation_queue_' = Append(animation_queue_, s)
           \/ animation_queue_' = <<s>> \o animation_queue_,
         stack' \in Seq(FrameFields), Nested(stack'), Owned(stack') = Owned(Tail(stack)),
         s \in Range(animation_queue_') => Leaving',
         WillStart(stack'), "Update" \in Functions(stack')
  PROVE  Inv' /\ s \in Range(animation_queue_')
<1>1. /\ s \in Addresses /\ s \notin Range(animation_queue_) /\ heap[s] # Null
      /\ s \notin Owned(stack') /\ Owned(stack) = {s} \cup Owned(stack')
  <2>1. Owned(stack) = {s} \cup Owned(stack') /\ s \notin Owned(stack')
    BY TopWill
  <2>2. Owned(stack) \subseteq Addresses
    BY OwnedAddresses DEF Inv, Types
  <2> QED
    BY <2>1, <2>2 DEF Inv, Existing
<1>2. /\ animation_queue_' \in Seq(Addresses) /\ IsInjective(animation_queue_')
      /\ Range(animation_queue_') = Range(animation_queue_) \cup {s}
  <2>1. animation_queue_ \in Seq(Addresses) /\ IsInjective(animation_queue_)
    BY DEF Inv, Types, Queued
  <2> QED
    BY <1>1, <2>1, AddFacts
<1>3. Types'
  BY <1>2 DEF Inv, Types
<1>4. Queued'
  <2>1. Running' = Running
    BY DEF Running
  <2> QED
    BY <1>1, <1>2, <2>1 DEF Inv, Queued
<1>5. Existing'
  <2>1. Starting = {}
    BY DEF Starting, Leaves
  <2> QED
    BY <1>1, <1>2, <2>1 DEF Inv, Existing
<1>6. Mended'
  BY DEF Mended, WillStart
<1> QED
  BY <1>1, <1>2, <1>3, <1>4, <1>5, <1>6 DEF Inv

\* It goes to the end of the queue, and ProcessQueue is called.
LEMMA EnterAndProcess ==
  ASSUME Inv, stack # <<>>, NEW s, Top.s = s,
         Top.function \in {"Schedule", "enqueue", "replace"},
         UNCHANGED <<heap, running_animations_, last_step_time_, is_started_, now, calls, died>>,
         animation_queue_' = Append(animation_queue_, s), Go(<<Call("ProcessQueue")>>)
  PROVE  Inv'
<1> PICK rest : rest = Tail(stack)
  OBVIOUS
<1>1. Owns(Top) = {s} /\ Top.function \notin Leaves /\ Top.function \in Changers
  BY DEF Owns, Owners, Leaves, Changers, Removers
<1>2. Callable(rest) /\ "Update" \in Functions(rest)
  BY <1>1, TopWill
<1> PICK a \in FrameFields : a = Call("ProcessQueue") /\ a.function = "ProcessQueue"
  BY MadeCall, NamesFacts
<1>3. OnTop(a, rest, stack')
  BY Go1
<1>4. Put("ProcessQueue", {}, rest, stack') /\ Callable(stack')
  BY <1>2, <1>3, PutPlain
<1>5. /\ "Update" \in Functions(stack') /\ WillStart(stack') /\ Owned(stack') = Owned(rest)
      /\ stack' \in Seq(FrameFields) /\ Nested(stack') /\ Leaves \cap Functions(stack') = {}
  BY <1>2, <1>4 DEF Put, WillStart, Starters, Callable
<1>6. Leaving'
  BY <1>5, NotLeaving
<1> QED
  BY <1>1, <1>5, <1>6, Enter

\* Nothing runs where nothing is queued.
LEMMA NoConflict ==
  ASSUME Inv, ~is_animating, NEW props
  PROVE  ~Conflict(props) /\ Range(animation_queue_) = {}
<1>1. Range(animation_queue_) = {}
  BY DEF is_animating, Range
<1>2. Running = {}
  BY <1>1 DEF Inv, Queued
<1> QED
  BY <1>1, <1>2 DEF Conflict, Props

\* ScheduleTogether: the sequence waits in the queue, or starts.
LEMMA ScheduleInv ==
  ASSUME Inv, Schedule
  PROVE  Inv'
<1> PICK s : s = Top.s
  OBVIOUS
<1> PICK rest : rest = Tail(stack)
  OBVIOUS
<1>1. /\ stack # <<>> /\ Top.function = "Schedule"
      /\ UNCHANGED <<heap, running_animations_, last_step_time_, is_started_, now, calls, died>>
  BY DEF Schedule, At
<1>2. CASE is_animating
  <2>1. animation_queue_' = Append(animation_queue_, s) /\ Go(<<Call("ProcessQueue")>>)
    BY <1>2 DEF Schedule
  <2> QED
    BY <1>1, <2>1, EnterAndProcess
<1>3. CASE ~is_animating
  <2>1. UNCHANGED animation_queue_ /\ Go(<<On("StartSequence", s)>>)
    BY <1>3 DEF Schedule
  <2>2. /\ Owns(Top) = {s} /\ Top.function \in Changers /\ Top.function \in Sequences
        /\ Starting = {} /\ "StartSequence" \in Leaves /\ Top.function \notin Starters
    BY <1>1 DEF Owns, Owners, Starting, Changers, Sequences, Leaves, Starters
  <2>3. /\ Callable(rest) /\ "Update" \in Functions(rest) /\ s \in Addresses
        /\ s \notin Owned(rest) /\ Owned(stack) = {s} \cup Owned(rest)
    BY <1>1, <2>2, TopWill
  <2> PICK a \in FrameFields :
        a = On("StartSequence", s) /\ a.function = "StartSequence" /\ a.s = s
    BY <2>3, MadeOn, NamesFacts
  <2>4. OnTop(a, rest, stack')
    BY <2>1, Go1
  <2>5. Put("StartSequence", {}, rest, stack') /\ Head(stack') = a
    BY <2>2, <2>3, <2>4, PutLeaf
  <2>6. /\ stack' \in Seq(FrameFields) /\ Nested(stack') /\ stack' # <<>> /\ Top' = a
        /\ Owned(stack') = Owned(rest) /\ "Update" \in Functions(stack')
    BY <2>3, <2>5 DEF Put, Top
  <2>7. heap[s] # Null /\ s \notin Range(animation_queue_)
    BY <2>3 DEF Inv, Existing
  <2>8. Types'
    BY <1>1, <2>1, <2>6 DEF Inv, Types
  <2>9. Queued'
    BY <1>1, <2>1, OtherHeap
  <2>10. Starting' = {s}
    BY <2>6 DEF Starting
  <2>11. Existing'
    BY <1>1, <2>1, <2>2, <2>3, <2>6, <2>7, <2>10 DEF Inv, Existing
  <2>12. Leaving'
    <3>1. ~Conflict(heap[s].props) /\ ~Conflict(heap[s].props)'
      <4>1. ~Conflict(heap[s].props)
        BY <1>3, NoConflict
      <4>2. Running' = Running
        BY <1>1 DEF Running
      <4> QED
        BY <1>1, <4>1, <4>2 DEF Conflict, Props
    <3>2. (heap[s] # Null)' /\ s \notin Owned(stack') /\ ~Conflict(heap[s].props)'
      BY <1>1, <2>3, <2>6, <2>7, <3>1
    <3>3. a.function # "Finish"
      OBVIOUS
    <3> HIDE DEF Conflict
    <3> QED
      BY <2>6, <3>2, <3>3 DEF Leaving
  <2>13. Mended'
    <3>1. Stuck'
      BY <1>3, <2>1 DEF Stuck, is_animating
    <3> QED
      BY <2>6, <3>1 DEF Mended
  <2> QED
    BY <2>6, <2>8, <2>9, <2>11, <2>12, <2>13 DEF Inv
<1> QED
  BY <1>2, <1>3

\* EnqueueNewAnimation.
LEMMA EnqueueInv ==
  ASSUME Inv, EnqueueNewAnimation
  PROVE  Inv'
<1> PICK s : s = Top.s
  OBVIOUS
<1>1. /\ stack # <<>> /\ Top.function = "enqueue"
      /\ animation_queue_' = Append(animation_queue_, s) /\ Go(<<Call("ProcessQueue")>>)
      /\ UNCHANGED <<heap, running_animations_, last_step_time_, is_started_, now, calls, died>>
  BY DEF EnqueueNewAnimation, At
<1> QED
  BY <1>1, EnterAndProcess

\* The new sequence goes to the beginning of the queue, to be started.
LEMMA AddStartInv ==
  ASSUME Inv, AddStart
  PROVE  Inv'
<1> PICK s : s = Top.s
  OBVIOUS
<1> PICK rest : rest = Tail(stack)
  OBVIOUS
<1>1. /\ stack # <<>> /\ Top.function = "AddStart"
      /\ animation_queue_' = AddToQueueIfNotPresent(s) /\ Go(<<On("StartSequence", s)>>)
      /\ UNCHANGED <<heap, running_animations_, last_step_time_, is_started_, now, calls, died>>
  BY DEF AddStart, At
<1>2. /\ Owns(Top) = {s} /\ Top.function \in Changers /\ Top.function \in Removers
      /\ Top.function \in Sequences /\ Top.function \notin Leaves /\ "StartSequence" \in Leaves
  BY <1>1 DEF Owns, Owners, Starting, Changers, Removers, Sequences, Leaves
<1>3. /\ Callable(rest) /\ "Update" \in Functions(rest) /\ WillStart(rest) /\ s \in Addresses
      /\ s \notin Owned(rest) /\ Owned(stack) = {s} \cup Owned(rest)
  BY <1>1, <1>2, TopWill
<1>4. heap[s] # Null /\ s \notin Range(animation_queue_)
  BY <1>3 DEF Inv, Existing
<1>5. animation_queue_' = <<s>> \o animation_queue_
  BY <1>1, <1>4 DEF AddToQueueIfNotPresent, HasAnimation
<1> PICK a \in FrameFields :
      a = On("StartSequence", s) /\ a.function = "StartSequence" /\ a.s = s
  BY <1>3, MadeOn, NamesFacts
<1>6. OnTop(a, rest, stack')
  BY <1>1, Go1
<1>7. Put("StartSequence", {}, rest, stack') /\ Head(stack') = a
  BY <1>2, <1>3, <1>6, PutLeaf
<1>8. /\ stack' \in Seq(FrameFields) /\ Nested(stack') /\ Top' = a
      /\ Owned(stack') = Owned(rest) /\ "Update" \in Functions(stack') /\ WillStart(stack')
  BY <1>3, <1>7 DEF Put, Top, WillStart
<1>9. ASSUME s \in Range(animation_queue_') PROVE Leaving'
  BY <1>1, <1>3, <1>4, <1>8, <1>9 DEF Leaving
<1> QED
  BY <1>1, <1>2, <1>5, <1>8, <1>9, Enter

\* ReplaceQueuedAnimations deletes the first that does not run, or enqueues.
LEMMA ReplaceInv ==
  ASSUME Inv, ReplaceQueuedAnimations
  PROVE  Inv'
<1> DEFINE idle == {i \in DOMAIN animation_queue_ : animation_queue_[i] \notin Running}
<1> PICK s : s = Top.s
  OBVIOUS
<1>1. /\ stack # <<>> /\ Top.function = "replace"
      /\ animation_queue_' = IF idle = {} THEN Append(animation_queue_, s)
                              ELSE RemoveAt(animation_queue_, Min(idle))
      /\ heap' = [x \in Addresses |->
                    IF x \in (IF idle = {} THEN {} ELSE {animation_queue_[Min(idle)]})
                    THEN Null ELSE heap[x]]
      /\ Go(IF idle = {} THEN <<Call("ProcessQueue")>> ELSE <<Top>>)
      /\ UNCHANGED <<running_animations_, last_step_time_, is_started_, now, calls, died>>
  BY DEF ReplaceQueuedAnimations, At, Delete
<1>2. /\ animation_queue_ \in Seq(Addresses) /\ IsInjective(animation_queue_)
      /\ DOMAIN animation_queue_ = 1 .. Len(animation_queue_)
      /\ Len(animation_queue_) \in Nat /\ Range(animation_queue_) \subseteq Addresses
      /\ heap \in [Addresses -> Kinds \cup {Null}]
  BY RangeFacts DEF Inv, Types, Queued
<1>3. idle \in SUBSET (1 .. Len(animation_queue_))
  BY <1>2
<1>4. \A i \in idle : animation_queue_[i] \notin Running
  OBVIOUS
<1> HIDE DEF idle
<1>5. CASE idle = {}
  <2>1. animation_queue_' = Append(animation_queue_, s) /\ Go(<<Call("ProcessQueue")>>)
    BY <1>1, <1>5
  <2>2. heap' = heap
    <3>1. heap' = [x \in Addresses |-> heap[x]]
      BY <1>1, <1>5
    <3> QED
      BY <1>2, <3>1
  <2> QED
    BY <1>1, <2>1, <2>2, EnterAndProcess
<1>6. CASE idle # {}
  <2> PICK m \in 1 .. Len(animation_queue_) :
        m = Min(idle) /\ animation_queue_[m] \notin Running
    BY <1>2, <1>3, <1>4, <1>6, MinFacts
  <2> PICK q : q = animation_queue_[m]
    OBVIOUS
  <2>1. /\ animation_queue_' = RemoveAt(animation_queue_, m)
        /\ heap' = [x \in Addresses |-> IF x = q THEN Null ELSE heap[x]]
        /\ Go(<<Top>>)
    BY <1>1, <1>6
  <2>2. /\ animation_queue_' \in Seq(Addresses) /\ IsInjective(animation_queue_')
        /\ Range(animation_queue_') = Range(animation_queue_) \ {q}
        /\ q \in Range(animation_queue_)
    BY <1>2, <2>1, RangeFacts, RemoveAtFacts, RemoveAtRange
  <2>3. /\ Top.function \in Removers /\ Top.function \in Changers
        /\ Top.function \notin Leaves /\ Starting = {}
    BY <1>1 DEF Removers, Changers, Leaves, Starting
  <2>4. Top \in FrameFields /\ OnTop(Top, Tail(stack), stack')
    BY <1>1, <2>1, Stack, Go1
  <2>5. Callable(stack') /\ Functions(stack') = Functions(stack)
        /\ Owned(stack') = Owned(stack)
    BY <1>1, <2>3, <2>4, PutNext
  <2>6. "Update" \in Functions(stack') /\ WillStart(stack')
    BY <1>1, <2>3, <2>5, TopWill DEF WillStart
  <2>7. /\ heap' \in [Addresses -> Kinds \cup {Null}]
        /\ \A x \in Addresses : x # q => heap'[x] = heap[x]
        /\ \A x \in Addresses : heap'[x] # Null => x # q /\ heap[x] # Null
    BY <1>2, <2>1
  <2>8. /\ stack' \in Seq(FrameFields) /\ Nested(stack')
        /\ Leaves \cap Functions(stack') = {} /\ Starters \cap Functions(stack') # {}
    BY <2>5, <2>6 DEF Callable, WillStart
  <2>9. Types'
    BY <1>1, <2>2, <2>7, <2>8 DEF Inv, Types
  <2>10. Running' = Running /\ q \notin Running
    BY <1>1 DEF Running
  <2>11. \A i \in 1 .. Len(running_animations_) :
           heap'[running_animations_[i].sequence] = heap[running_animations_[i].sequence]
    BY <1>2, <2>7, <2>10, RunningFacts
  <2>12. Disjoint(running_animations_', heap')
    BY <1>1, <2>11 DEF Disjoint, Inv, Queued
  <2>13. Queued'
    BY <1>2, <2>2, <2>7, <2>10, <2>12 DEF Inv, Queued
  <2>14. Leaving' /\ Starting' = {}
    BY <2>8, NotLeaving
  <2>15. Existing'
    <3>1. Owned(stack) \subseteq Addresses
      BY OwnedAddresses DEF Inv, Types
    <3>2. \A x \in Owned(stack) : heap[x] # Null /\ x \notin Range(animation_queue_)
      BY DEF Inv, Existing
    <3>3. \A x \in Addresses : heap[x] # Null => x \in Range(animation_queue_) \cup Owned(stack)
      BY <2>3 DEF Inv, Existing
    <3>4. \A x \in Owned(stack) : x # q
      BY <2>2, <3>2
    <3> QED
      BY <2>2, <2>5, <2>7, <2>14, <3>1, <3>2, <3>3, <3>4 DEF Existing
  <2>16. Mended'
    BY <2>6, <2>8 DEF Mended
  <2> QED
    BY <2>8, <2>9, <2>13, <2>14, <2>15, <2>16 DEF Inv
<1> QED
  BY <1>5, <1>6

\* A list of running animations with one more at its end.
LEMMA AppendRun ==
  ASSUME NEW run \in Seq(Runs), NEW h, Disjoint(run, h), NEW r \in Runs,
         \A x \in Range(run) : h[x.sequence].props \cap h[r.sequence].props = {}
  PROVE  /\ Append(run, r) \in Seq(Runs) /\ Disjoint(Append(run, r), h)
         /\ {x.sequence : x \in Range(Append(run, r))} =
              {x.sequence : x \in Range(run)} \cup {r.sequence}
<1> DEFINE n == Len(run)
           new == Append(run, r)
<1>1. /\ n \in Nat /\ new \in Seq(Runs) /\ Len(new) = n + 1
      /\ new[n + 1] = r /\ \A i \in 1 .. n : new[i] = run[i]
  OBVIOUS
<1>2. \A i \in 1 .. n : run[i] \in Range(run)
  BY RangeFacts
<1>3. ASSUME NEW x PROVE x \in Range(new) <=> x \in Range(run) \/ x = r
  <2> HIDE DEF new, n
  <2>1. x \in Range(new) <=> \E i \in 1 .. n + 1 : new[i] = x
    BY <1>1, RangeFacts
  <2>2. x \in Range(run) <=> \E i \in 1 .. n : run[i] = x
    BY RangeFacts DEF n
  <2>3. \A i \in 1 .. n + 1 : i = n + 1 \/ i \in 1 .. n
    BY <1>1
  <2>4. n + 1 \in 1 .. n + 1 /\ \A i \in 1 .. n : i \in 1 .. n + 1
    BY <1>1
  <2> QED
    BY <1>1, <2>1, <2>2, <2>3, <2>4
<1> HIDE DEF new, n
<1>4. Disjoint(new, h)
  <2> SUFFICES ASSUME NEW i \in 1 .. n + 1, NEW j \in 1 .. n + 1, i # j
               PROVE  h[new[i].sequence].props \cap h[new[j].sequence].props = {}
    BY <1>1 DEF Disjoint
  <2>1. (i = n + 1 \/ i \in 1 .. n) /\ (j = n + 1 \/ j \in 1 .. n)
    BY <1>1
  <2>2. CASE i \in 1 .. n /\ j \in 1 .. n
    <3>1. h[run[i].sequence].props \cap h[run[j].sequence].props = {}
      BY <2>2 DEF Disjoint, n
    <3> QED
      BY <1>1, <2>2, <3>1
  <2>3. CASE i \in 1 .. n /\ j = n + 1
    BY <1>1, <1>2, <2>3
  <2>4. CASE i = n + 1 /\ j \in 1 .. n
    BY <1>1, <1>2, <2>4
  <2> QED
    BY <2>1, <2>2, <2>3, <2>4
<1>5. {x.sequence : x \in Range(new)} = {x.sequence : x \in Range(run)} \cup {r.sequence}
  BY <1>3
<1> QED
  BY <1>1, <1>4, <1>5 DEF new

\* A queue in which nothing can start stays so when one of it starts, or another
\* starts and goes first.
LEMMA StuckStays ==
  ASSUME Inv, Stuck, NEW s \in Addresses, heap[s] # Null, UNCHANGED heap,
         Running' = Running \cup {s},
         animation_queue_' = animation_queue_ \/ animation_queue_' = <<s>> \o animation_queue_
  PROVE  Stuck'
<1> DEFINE n == Len(animation_queue_)
<1>1. animation_queue_ \in Seq(Addresses) /\ n \in Nat
  BY DEF Inv, Types
<1>2. heap[s].props # {}
  BY Existent DEF Inv
<1>3. CASE animation_queue_' = animation_queue_
  BY <1>3 DEF Stuck
<1>4. CASE animation_queue_' = <<s>> \o animation_queue_
  <2> PICK q : q = animation_queue_'
    OBVIOUS
  <2>1. /\ Len(q) = n + 1 /\ q[1] = s
        /\ \A i \in 1 .. n : q[i + 1] = animation_queue_[i]
    BY <1>1, <1>4, ConsFacts
  <2> HIDE DEF n
  <2>2. ASSUME NEW i \in 1 .. n + 1
        PROVE  \/ \E x \in Running' : heap[x].props \cap heap[q[i]].props # {}
               \/ \E j \in 1 .. i - 1 : heap[q[j]].props \cap heap[q[i]].props # {}
    <3>1. CASE i = 1
      <4>1. s \in Running' /\ heap[s].props \cap heap[q[i]].props # {}
        BY <1>2, <2>1, <3>1
      <4> QED
        BY <4>1
    <3>2. CASE i # 1
      <4> PICK k \in 1 .. n : k = i - 1 /\ k + 1 = i
        BY <1>1, <3>2
      <4>1. q[i] = animation_queue_[k]
        BY <2>1
      <4>2. CASE \E x \in Running : heap[x].props \cap heap[animation_queue_[k]].props # {}
        BY <4>1, <4>2
      <4>3. CASE \E j \in 1 .. k - 1 :
                   heap[animation_queue_[j]].props \cap heap[animation_queue_[k]].props # {}
        <5>1. PICK j \in 1 .. k - 1 :
                heap[animation_queue_[j]].props \cap heap[animation_queue_[k]].props # {}
          BY <4>3
        <5>2. j \in 1 .. n /\ j + 1 \in 1 .. i - 1
          BY <1>1
        <5>3. q[j + 1] = animation_queue_[j]
          BY <2>1, <5>2
        <5> QED
          BY <4>1, <5>1, <5>2, <5>3
      <4> QED
        BY <4>2, <4>3 DEF Stuck, n
    <3> QED
      BY <3>1, <3>2
  <2> QED
    BY <2>1, <2>2 DEF Stuck
<1> QED
  BY <1>3, <1>4

\* StartSequenceImmediately: what shares no property with a running sequence runs.
LEMMA StartSequenceInv ==
  ASSUME Inv, StartSequenceImmediately
  PROVE  Inv'
<1> PICK rest : rest = Tail(stack)
  OBVIOUS
<1> PICK s : s = Top.s
  OBVIOUS
<1>1. stack # <<>> /\ Top.function = "StartSequence" /\ UNCHANGED <<heap, now, calls, died>>
  BY DEF StartSequenceImmediately, At
<1>2. /\ Owns(Top) = {} /\ Top.function \notin Starters /\ Top.function \in Sequences
      /\ Starting = {s}
  BY <1>1 DEF Owns, Owners, Starters, Sequences, Starting
<1>3. /\ Callable(rest) /\ s \in Addresses /\ Owned(stack) = Owned(rest)
      /\ Functions(stack) = {"StartSequence"} \cup Functions(rest)
  BY <1>1, <1>2, TopWill, Stack
<1>4. /\ heap[s] # Null /\ s \notin Owned(stack)
      /\ s \notin Range(animation_queue_) =>
           ~Conflict(heap[s].props) /\ "Update" \in Functions(stack)
  BY <1>1 DEF Inv, Leaving
<1>5. CASE Conflict(heap[s].props)
  <2>1. /\ Go(<<>>)
        /\ UNCHANGED <<animation_queue_, running_animations_, last_step_time_, is_started_>>
    BY <1>5 DEF StartSequenceImmediately, animator
  <2>2. stack' = rest
    <3>1. rest \in Seq(FrameFields)
      BY <1>3 DEF Callable
    <3> QED
      BY <2>1, <3>1, ConcatEmptySeq DEF Go
  <2>3. s \in Range(animation_queue_)
    BY <1>4, <1>5
  <2>4. /\ stack' \in Seq(FrameFields) /\ Nested(stack') /\ Leaves \cap Functions(stack') = {}
        /\ Owned(stack') = Owned(stack)
    BY <1>3, <2>2 DEF Callable
  <2>5. Leaving'
    BY <2>4, NotLeaving
  <2>6. /\ Stuck \/ Starters \cap Functions(stack') # {}
        /\ is_started_ = is_animating \/ "Update" \in Functions(stack')
    BY <1>1, <1>2, <1>3, <2>2 DEF Inv, Mended
  <2>7. /\ last_step_time_' \in Int /\ now' \in 0 .. MaxTime /\ calls' \in 0 .. MaxCalls
        /\ died' \in BOOLEAN
    BY <1>1, <2>1, Stack
  <2> QED
    BY <1>1, <1>2, <2>1, <2>3, <2>4, <2>5, <2>6, <2>7, Quiet
<1>6. CASE ~Conflict(heap[s].props)
  <2> PICK time : time = IF is_animating THEN last_step_time_ ELSE now
    OBVIOUS
  <2> PICK r : r = [sequence |-> s, start_time |-> time]
    OBVIOUS
  <2>1. /\ running_animations_' = Append(running_animations_, r)
        /\ animation_queue_' = AddToQueueIfNotPresent(s)
        /\ last_step_time_' = time /\ UNCHANGED is_started_
        /\ Go(<<Frame("Step", Null, running_animations_', time)>>)
    BY <1>6 DEF StartSequenceImmediately
  <2>2. time \in Int /\ r \in Runs /\ r.sequence = s
    <3>1. time \in Int
      BY DEF Inv, Types
    <3> QED
      BY <1>3, <3>1 DEF Runs
  <2>3. running_animations_ \in Seq(Runs) /\ Disjoint(running_animations_, heap)
    BY DEF Inv, Types, Queued
  <2>4. \A x \in Range(running_animations_) :
          heap[x.sequence].props \cap heap[r.sequence].props = {}
    <3> SUFFICES ASSUME NEW x \in Range(running_animations_)
                 PROVE  heap[x.sequence].props \cap heap[s].props = {}
      BY <2>2
    <3>1. x.sequence \in Running
      BY DEF Running
    <3>2. heap[x.sequence].props \subseteq Props(Running)
      BY <3>1 DEF Props
    <3> QED
      BY <1>6, <3>2 DEF Conflict
  <2>5. /\ running_animations_' \in Seq(Runs) /\ Disjoint(running_animations_', heap)
        /\ Running' = Running \cup {s}
    <3>1. /\ Append(running_animations_, r) \in Seq(Runs)
          /\ Disjoint(Append(running_animations_, r), heap)
          /\ {x.sequence : x \in Range(Append(running_animations_, r))} =
               {x.sequence : x \in Range(running_animations_)} \cup {r.sequence}
      <4>1. ASSUME NEW e \in Runs,
                   \A x \in Range(running_animations_) :
                     heap[x.sequence].props \cap heap[e.sequence].props = {}
            PROVE  /\ Append(running_animations_, e) \in Seq(Runs)
                   /\ Disjoint(Append(running_animations_, e), heap)
                   /\ {x.sequence : x \in Range(Append(running_animations_, e))} =
                        {x.sequence : x \in Range(running_animations_)} \cup {e.sequence}
        BY <2>3, <4>1, AppendRun
      <4> QED
        BY <2>2, <2>4, <4>1
    <3>2. Running' = {x.sequence : x \in Range(Append(running_animations_, r))}
      BY <2>1 DEF Running
    <3>3. Running = {x.sequence : x \in Range(running_animations_)}
      BY DEF Running
    <3> QED
      BY <2>1, <2>2, <3>1, <3>2, <3>3
  <2>6. \/ s \in Range(animation_queue_) /\ animation_queue_' = animation_queue_
        \/ s \notin Range(animation_queue_) /\ animation_queue_' = <<s>> \o animation_queue_
    BY <2>1 DEF AddToQueueIfNotPresent, HasAnimation
  <2>7. /\ animation_queue_' \in Seq(Addresses) /\ IsInjective(animation_queue_')
        /\ Range(animation_queue_') = Range(animation_queue_) \cup {s}
    <3>1. animation_queue_ \in Seq(Addresses) /\ IsInjective(animation_queue_)
      BY DEF Inv, Types, Queued
    <3>2. CASE s \in Range(animation_queue_) /\ animation_queue_' = animation_queue_
      BY <3>1, <3>2
    <3>3. CASE s \notin Range(animation_queue_)
                 /\ animation_queue_' = <<s>> \o animation_queue_
      <4>1. \/ animation_queue_' = Append(animation_queue_, s)
            \/ animation_queue_' = <<s>> \o animation_queue_
        BY <3>3
      <4>2. s \in Addresses /\ s \notin Range(animation_queue_)
        BY <1>3, <3>3
      <4> QED
        BY <3>1, <4>1, <4>2, AddFacts
    <3> QED
      BY <2>6, <3>2, <3>3
  <2> PICK a \in FrameFields :
        a = Frame("Step", Null, running_animations_', time) /\ a.function = "Step"
    <3>1. Null \in Subjects
      BY DEF Subjects
    <3> QED
      BY <2>2, <2>5, <3>1, MadeFrame, NamesFacts
  <2>8. OnTop(a, rest, stack')
    BY <2>1, Go1
  <2>9. Put("Step", {}, rest, stack') /\ Callable(stack')
    BY <1>3, <2>8, PutPlain
  <2>10. /\ stack' \in Seq(FrameFields) /\ Nested(stack') /\ Leaves \cap Functions(stack') = {}
         /\ Owned(stack') = Owned(stack)
         /\ Functions(stack') = {"Step"} \cup Functions(rest)
    BY <1>3, <2>9 DEF Put, Callable
  <2>11. Types'
    BY <1>1, <2>1, <2>2, <2>5, <2>7, <2>10 DEF Inv, Types
  <2>12. Queued'
    BY <1>1, <1>4, <2>5, <2>7 DEF Inv, Queued
  <2>13. Leaving' /\ Starting' = {}
    BY <2>10, NotLeaving
  <2>14. Existing'
    BY <1>1, <1>2, <1>4, <2>7, <2>10, <2>13 DEF Inv, Existing
  <2>15. Stuck' \/ Starters \cap Functions(stack') # {}
    <3>1. CASE Stuck
      BY <1>1, <1>3, <1>4, <2>5, <2>6, <3>1, StuckStays
    <3>2. CASE Starters \cap Functions(stack) # {}
      BY <1>1, <1>2, <1>3, <2>10, <3>2
    <3> QED
      BY <3>1, <3>2 DEF Inv, Mended
  <2>16. is_started_' = is_animating' \/ "Update" \in Functions(stack')
    <3>1. CASE s \in Range(animation_queue_)
      <4>1. animation_queue_' = animation_queue_
        BY <2>6, <3>1
      <4>2. is_animating' = is_animating
        BY <4>1 DEF is_animating
      <4>3. is_started_ = is_animating \/ "Update" \in Functions(stack)
        BY DEF Inv, Mended
      <4> QED
        BY <1>3, <2>1, <2>10, <4>2, <4>3
    <3>2. CASE s \notin Range(animation_queue_)
      BY <1>3, <1>4, <2>10, <3>2
    <3> QED
      BY <3>1, <3>2
  <2>17. Mended'
    BY <2>15, <2>16 DEF Mended
  <2> QED
    BY <2>10, <2>11, <2>12, <2>13, <2>14, <2>17 DEF Inv
<1> QED
  BY <1>5, <1>6

\* A client makes a sequence.
LEMMA NewFacts ==
  ASSUME Inv, NEW s \in Addresses, NEW k \in Kinds, New(s, k), May({"Ended"})
  PROVE  /\ s \notin Range(animation_queue_) /\ s \notin Owned(stack)
         /\ heap' \in [Addresses -> Kinds \cup {Null}] /\ heap'[s] = k /\ k # Null
         /\ \A x \in Addresses : x # s => heap'[x] = heap[x]
         /\ Queued' /\ (Stuck => Stuck') /\ Running' = Running /\ is_animating' = is_animating
         /\ s \notin Running /\ Running \subseteq Addresses
         /\ Owned(stack) \subseteq Addresses
<1>1. heap[s] = Null /\ heap' = [heap EXCEPT ![s] = k]
  BY DEF New
<1>2. s \notin Range(animation_queue_) /\ s \notin Owned(stack)
  BY <1>1 DEF Inv, Queued, Existing
<1>3. /\ heap' \in [Addresses -> Kinds \cup {Null}] /\ heap'[s] = k
      /\ \A x \in Addresses : x # s => heap'[x] = heap[x]
  BY <1>1 DEF Inv, Types
<1>4. k # Null
  BY ConstantsAssumption
<1>5. UNCHANGED <<animation_queue_, running_animations_>>
  BY DEF May, animator
<1>6. Range(animation_queue_) \subseteq Addresses
  BY RangeFacts DEF Inv, Types
<1>7. Queued' /\ (Stuck => Stuck') /\ Running' = Running /\ is_animating' = is_animating
  <2>1. \A x \in Range(animation_queue_) : heap'[x] = heap[x]
    BY <1>2, <1>3, <1>6
  <2> QED
    BY <1>5, <2>1, OtherHeap
<1>8. s \notin Running /\ Running \subseteq Addresses
  BY <1>2, <1>6 DEF Inv, Queued
<1>9. Owned(stack) \subseteq Addresses
  BY OwnedAddresses DEF Inv, Types
<1> QED
  BY <1>2, <1>3, <1>4, <1>7, <1>8, <1>9

\* It has an owner, or it is about to be started.
LEMMA MadeInv ==
  ASSUME Inv, NEW s \in Addresses, NEW k \in Kinds, New(s, k), May({"Ended"}),
         stack' \in Seq(FrameFields), Nested(stack'), Leaving', "Update" \in Functions(stack'),
         WillStart(stack) => WillStart(stack'),
         \/ Owned(stack') = {s} \cup Owned(stack)
         \/ Owned(stack') = Owned(stack) /\ Starting' = {s}
  PROVE  Inv'
<1>1. /\ s \notin Range(animation_queue_) /\ s \notin Owned(stack)
      /\ heap' \in [Addresses -> Kinds \cup {Null}] /\ heap'[s] = k /\ k # Null
      /\ \A x \in Addresses : x # s => heap'[x] = heap[x]
      /\ Queued' /\ (Stuck => Stuck') /\ Owned(stack) \subseteq Addresses
  BY NewFacts
<1>2. /\ Starting = {}
      /\ last_step_time_' \in Int /\ now' \in 0 .. MaxTime /\ calls' \in 0 .. MaxCalls
      /\ died' \in BOOLEAN
      /\ UNCHANGED <<animation_queue_, running_animations_, last_step_time_, is_started_,
                     now, died>>
  BY MayFacts
<1>3. Types'
  BY <1>1, <1>2 DEF Inv, Types
<1>4. Existing'
  <2>1. \A x \in Owned(stack) : heap[x] # Null /\ x \notin Range(animation_queue_)
    BY DEF Inv, Existing
  <2>2. \A x \in Addresses : heap[x] # Null => x \in Range(animation_queue_) \cup Owned(stack)
    BY <1>2 DEF Inv, Existing
  <2>3. \A x \in Owned(stack) : x \in Addresses /\ x # s
    BY <1>1
  <2> QED
    BY <1>1, <1>2, <2>1, <2>2, <2>3 DEF Existing
<1>5. Mended'
  BY <1>1 DEF Inv, Mended, WillStart
<1> QED
  BY <1>1, <1>3, <1>4, <1>5 DEF Inv

\* ScheduleAnimation.
LEMMA ScheduleAnimationInv ==
  ASSUME Inv, NEW s \in Addresses, NEW k \in Kinds, ScheduleAnimation(s, k)
  PROVE  Inv'
<1>1. /\ May({"Ended"}) /\ New(s, k)
      /\ stack' = <<On("Schedule", s), Call("Update")>> \o stack
  BY DEF ScheduleAnimation
<1>2. stack \in Seq(FrameFields) /\ Callable(stack)
  BY <1>1, MayFacts DEF Callable
<1>3. s \notin Owned(stack)
  BY <1>1, NewFacts
<1> PICK a \in FrameFields : a = On("Schedule", s) /\ a.function = "Schedule" /\ a.s = s
  BY MadeOn, NamesFacts
<1> PICK b \in FrameFields : b = Call("Update") /\ b.function = "Update"
  BY MadeCall, NamesFacts
<1> PICK u \in Seq(FrameFields) : OnTop(b, stack, u) /\ OnTop(a, u, stack')
  <2>1. stack' = <<a, b>> \o stack
    BY <1>1
  <2> QED
    BY <1>2, <2>1, Chain2
<1>4. Put("Update", {}, stack, u) /\ Callable(u)
  BY <1>2, PutPlain
<1>5. "Update" \in Functions(u) /\ Owned(u) = Owned(stack)
  BY <1>4 DEF Put
<1>6. Put("Schedule", {s}, u, stack') /\ Callable(stack')
  BY <1>3, <1>4, <1>5, PutSchedule
<1>7. /\ "Update" \in Functions(stack') /\ (WillStart(stack) => WillStart(stack'))
  BY <1>4, <1>5, <1>6, PutFacts
<1>8. /\ stack' \in Seq(FrameFields) /\ Nested(stack') /\ Leaves \cap Functions(stack') = {}
      /\ Owned(stack') = {s} \cup Owned(stack)
  BY <1>5, <1>6 DEF Put, Callable
<1>9. Leaving'
  BY <1>8, NotLeaving
<1> QED
  BY <1>1, <1>7, <1>8, <1>9, MadeInv

\* StartAnimation.
LEMMA StartAnimationInv ==
  ASSUME Inv, NEW s \in Addresses, NEW k \in Kinds, NEW strategy \in Strategies,
         StartAnimation(s, k, strategy)
  PROVE  Inv'
<1> PICK x : x = IF ~Conflict(k.props) THEN On("StartSequence", s) ELSE On(strategy, s)
  OBVIOUS
<1>1. /\ May({"Ended"}) /\ New(s, k) /\ stack' = <<x, Call("Zero"), Call("Update")>> \o stack
  <2>1. On(strategy, s) = Frame(strategy, s, <<>>, 0)
    BY DEF On
  <2> QED
    BY <2>1 DEF StartAnimation
<1>2. stack \in Seq(FrameFields) /\ Callable(stack)
  BY <1>1, MayFacts DEF Callable
<1>3. /\ s \notin Owned(stack) /\ heap'[s] = k /\ k # Null
      /\ \A y \in Addresses : y # s => heap'[y] = heap[y]
      /\ Running' = Running /\ s \notin Running /\ Running \subseteq Addresses
  BY <1>1, NewFacts
<1>4. strategy \in {"set", "animate", "enqueue", "replace"} /\ strategy \in Names
  <2>1. strategy \in {"set", "animate", "enqueue", "replace"}
    BY ConstantsAssumption
  <2> QED
    BY <2>1, NamesFacts
<1> PICK a \in FrameFields :
      /\ a = x /\ a.s = s
      /\ a.function = IF ~Conflict(k.props) THEN "StartSequence" ELSE strategy
  <2>1. CASE ~Conflict(k.props)
    <3>1. x = On("StartSequence", s)
      BY <2>1
    <3> QED
      BY <2>1, <3>1, MadeOn, NamesFacts
  <2>2. CASE Conflict(k.props)
    <3>1. x = On(strategy, s)
      BY <2>2
    <3> QED
      BY <1>4, <2>2, <3>1, MadeOn
  <2> QED
    BY <2>1, <2>2
<1> PICK b \in FrameFields : b = Call("Zero") /\ b.function = "Zero"
  BY MadeCall, NamesFacts
<1> PICK c \in FrameFields : c = Call("Update") /\ c.function = "Update"
  BY MadeCall, NamesFacts
<1> PICK u, v \in Seq(FrameFields) : OnTop(c, stack, v) /\ OnTop(b, v, u) /\ OnTop(a, u, stack')
  <2>1. stack' = <<a, b, c>> \o stack
    BY <1>1
  <2> QED
    BY <1>2, <2>1, Chain3
<1>5. Put("Update", {}, stack, v) /\ Callable(v)
  BY <1>2, PutPlain
<1>6. "Update" \in Functions(v) /\ Owned(v) = Owned(stack)
  BY <1>5 DEF Put
<1>7. Put("Zero", {}, v, u) /\ Callable(u)
  BY <1>5, <1>6, PutZero
<1>8. "Update" \in Functions(u) /\ Owned(u) = Owned(stack) /\ WillStart(u)
  BY <1>6, <1>7 DEF Put, WillStart, Starters
<1>9. CASE ~Conflict(k.props)
  <2>1. a.function = "StartSequence" /\ "StartSequence" \in Leaves
    BY <1>9 DEF Leaves
  <2>2. Put("StartSequence", {}, u, stack') /\ Head(stack') = a
    BY <1>7, <2>1, PutLeaf
  <2>3. "Update" \in Functions(stack') /\ WillStart(stack')
    BY <1>8, <2>2, PutFacts
  <2>4. /\ stack' \in Seq(FrameFields) /\ Nested(stack') /\ stack' # <<>> /\ Top' = a
        /\ Owned(stack') = Owned(stack)
    BY <1>8, <2>2 DEF Put, Top
  <2>5. Starting' = {s}
    BY <2>1, <2>4 DEF Starting
  <2>6. ~Conflict(heap[s].props)'
    <3>1. \A y \in Running : heap'[y] = heap[y]
      BY <1>3
    <3>2. Props(Running)' = Props(Running)
      BY <1>3, <3>1 DEF Props
    <3> QED
      BY <1>3, <1>9, <3>2 DEF Conflict
  <2>7. Leaving'
    <3>1. (heap[s] # Null)' /\ s \notin Owned(stack') /\ a.function # "Finish"
      BY <1>3, <2>1, <2>4
    <3> HIDE DEF Conflict
    <3> QED
      BY <2>1, <2>3, <2>4, <2>6, <3>1 DEF Leaving
  <2> QED
    BY <1>1, <2>3, <2>4, <2>5, <2>7, MadeInv
<1>10. CASE Conflict(k.props)
  <2>1. a.function \in {"set", "animate", "enqueue", "replace"}
    BY <1>4, <1>10
  <2>2. Put(a.function, {s}, u, stack') /\ Callable(stack')
    BY <1>3, <1>7, <1>8, <2>1, PutNew
  <2>3. "Update" \in Functions(stack') /\ WillStart(stack')
    BY <1>8, <2>2, PutFacts
  <2>4. /\ stack' \in Seq(FrameFields) /\ Nested(stack') /\ Leaves \cap Functions(stack') = {}
        /\ Owned(stack') = {s} \cup Owned(stack)
    BY <1>8, <2>2 DEF Put, Callable
  <2>5. Leaving'
    BY <2>4, NotLeaving
  <2> QED
    BY <1>1, <2>3, <2>4, <2>5, MadeInv
<1> QED
  BY <1>9, <1>10

\* The animator starts with nothing to animate.
LEMMA InitInv ==
  ASSUME Init
  PROVE  Inv
<1>1. /\ heap = [s \in Addresses |-> Null] /\ animation_queue_ = <<>>
      /\ running_animations_ = <<>> /\ last_step_time_ = 0 /\ is_started_ = FALSE
      /\ stack = <<>> /\ calls = 0 /\ died = FALSE /\ now = 1
  BY DEF Init
<1>2. now \in 0 .. MaxTime
  BY <1>1, ConstantsAssumption
<1>3. Range(animation_queue_) = {} /\ Running = {} /\ Starting = {} /\ ~is_animating
  BY <1>1 DEF Range, Running, Starting, is_animating
<1>4. Types
  <2>1. calls \in 0 .. MaxCalls /\ last_step_time_ \in Int
    BY <1>1, ConstantsAssumption
  <2>2. stack \in Seq(FrameFields)
    BY <1>1, NoFrames
  <2>3. heap \in [Addresses -> Kinds \cup {Null}]
    BY <1>1
  <2>4. animation_queue_ \in Seq(Addresses) /\ running_animations_ \in Seq(Runs)
    BY <1>1
  <2>5. is_started_ \in BOOLEAN /\ died \in BOOLEAN
    BY <1>1
  <2> QED
    BY <1>2, <2>1, <2>2, <2>3, <2>4, <2>5 DEF Types
<1>5. Queued
  <2>1. 1 .. Len(animation_queue_) = {} /\ 1 .. Len(running_animations_) = {}
        /\ DOMAIN animation_queue_ = {}
    BY <1>1
  <2>2. IsInjective(animation_queue_)
    BY <2>1 DEF IsInjective
  <2>3. Disjoint(running_animations_, heap)
    BY <2>1 DEF Disjoint
  <2> QED
    BY <1>3, <2>2, <2>3 DEF Queued
<1>6. Nested(stack) /\ Owned(stack) = {}
  BY <1>1, NoFrames
<1>7. Existing /\ Leaving
  BY <1>1, <1>6 DEF Existing, Leaving
<1>8. Mended
  <2>1. 1 .. Len(animation_queue_) = {}
    BY <1>1
  <2>2. is_animating = FALSE
    BY <1>1 DEF is_animating
  <2> QED
    BY <1>1, <2>1, <2>2 DEF Mended, Stuck
<1> QED
  BY <1>4, <1>5, <1>6, <1>7, <1>8 DEF Inv

\* A step of nobody.
LEMMA StutterInv ==
  ASSUME Inv, UNCHANGED vars
  PROVE  Inv'
<1>1. UNCHANGED <<heap, animation_queue_, running_animations_, last_step_time_, is_started_,
                  now, stack, calls, died>>
  BY DEF vars
<1>2. Running' = Running /\ is_animating' = is_animating /\ Starting' = Starting
  BY <1>1 DEF Running, is_animating, Starting, Top
<1>3. Types' /\ Nested(stack)'
  BY <1>1 DEF Inv, Types
<1>4. Queued'
  BY <1>1, <1>2 DEF Inv, Queued, Disjoint
<1>5. Existing'
  BY <1>1, <1>2 DEF Inv, Existing
<1>6. Leaving'
  BY <1>1, <1>2 DEF Inv, Leaving, Top, Conflict, Props
<1>7. Mended'
  BY <1>1, <1>2 DEF Inv, Mended, Stuck
<1> QED
  BY <1>3, <1>4, <1>5, <1>6, <1>7 DEF Inv

\* Every step keeps the invariant.
LEMMA NextInv ==
  ASSUME Inv, [Next]_vars
  PROVE  Inv'
<1>1. CASE Client
  <2>1. CASE \E s \in Addresses, k \in Kinds : ScheduleAnimation(s, k)
    BY <2>1, ScheduleAnimationInv
  <2>2. CASE \E s \in Addresses, k \in Kinds : \E p \in Strategies : StartAnimation(s, k, p)
    BY <2>2, StartAnimationInv
  <2>3. CASE StopAnimating
    BY <2>3, StopAnimatingInv
  <2>4. CASE \E p \in UNION {k.props : k \in Kinds} : StopAnimatingProperty(p)
    BY <2>4, StopAnimatingPropertyInv
  <2> QED
    BY <1>1, <2>1, <2>2, <2>3, <2>4 DEF Client
<1>2. CASE Code
  BY <1>2, ScheduleInv, StartSequenceInv, ProcessQueueInv, UpdateInv, FinishInv, NotifiedInv,
     DeleteRemovedInv, StepOneInv, ZeroInv, ZeroOneInv, RemoveDeleteInv, StopInv,
     StopPropertyInv, SetInv, AnimateInv, CopyQueueInv, RemoveRunningInv, AddStartInv,
     EnqueueInv, ReplaceInv DEF Code
<1>3. CASE Tick
  BY <1>3, TickInv
<1>4. CASE Run
  BY <1>4, RunInv
<1>5. CASE UNCHANGED vars
  BY <1>5, StutterInv
<1> QED
  BY <1>1, <1>2, <1>3, <1>4, <1>5 DEF Next

\* What the invariant says of the sequences, of the frame in progress, and
\* between calls.
LEMMA InvSound ==
  ASSUME Inv
  PROVE  AnimatorSound
<1>1. TypeOK
  <2>1. Running \subseteq Addresses
    BY RangeFacts DEF Inv, Types, Queued
  <2> QED
    BY <2>1 DEF Inv, Types, Queued, TypeOK
<1>2. NoUseAfterDelete
  <2>1. \A s \in Range(animation_queue_) \cup Running : heap[s] # Null
    BY DEF Inv, Queued
  <2>2. ASSUME stack # <<>>, Top.function \in Reads PROVE heap[Top.s] # Null
    <3>1. \A s \in Owned(stack) : heap[s] # Null
      BY DEF Inv, Existing
    <3>2. CASE Top.function \in Owners
      <4>1. Top.s \in Owned(stack)
        BY <2>2, <3>2, TopWill DEF Owns
      <4> QED
        BY <3>1, <4>1
    <3>3. CASE Top.function \in Comparers
      <4>1. Top.s \in Owned(stack)
        BY <2>2, <3>3, Stack DEF Fits
      <4> QED
        BY <3>1, <4>1
    <3>4. CASE Top.function = "StartSequence"
      BY <2>2, <3>4 DEF Inv, Leaving
    <3>5. CASE Top.function = "Finish"
      <4>1. Top.s \in Range(animation_queue_)
        BY <2>2, <3>5 DEF Inv, Leaving
      <4> QED
        BY <2>1, <4>1
    <3>6. \/ Top.function \in Owners \/ Top.function \in Comparers
          \/ Top.function = "StartSequence" \/ Top.function = "Finish"
      BY <2>2 DEF Reads, Owners, Comparers
    <3> QED
      BY <3>2, <3>3, <3>4, <3>5, <3>6
  <2> QED
    BY <2>1, <2>2 DEF NoUseAfterDelete
<1>3. OneAnimationPerProperty
  BY DEF Inv, Queued, Disjoint, OneAnimationPerProperty
<1>4. Settled
  <2> SUFFICES ASSUME stack = <<>>
               PROVE  /\ Startable = 0 /\ is_started_ = is_animating
                      /\ {s \in Addresses : heap[s] # Null} = Range(animation_queue_)
    BY DEF Settled
  <2>1. Functions(stack) = {} /\ Owned(stack) = {} /\ Starting = {}
    BY NoFrames DEF Starting
  <2>2. Stuck /\ is_started_ = is_animating
    BY <2>1 DEF Inv, Mended
  <2>3. Startable = 0
    BY <2>2, StartableFacts DEF Inv
  <2>4. {s \in Addresses : heap[s] # Null} = Range(animation_queue_)
    <3>1. Range(animation_queue_) \subseteq Addresses
      BY RangeFacts DEF Inv, Types
    <3> QED
      BY <2>1, <3>1 DEF Inv, Queued, Existing
  <2> QED
    BY <2>2, <2>3, <2>4
<1> QED
  BY <1>1, <1>2, <1>3, <1>4 DEF AnimatorSound

\* The animator, its queue, its running animations and the sequences on the heap
\* agree (layer_animator.cc), in the middle of its loops and between calls,
\* whatever observers start, schedule and stop.
THEOREM AnimatorIsSound == Spec => []AnimatorSound
<1>1. Init => Inv
  BY InitInv
<1>2. Inv /\ [Next]_vars => Inv'
  BY NextInv
<1>3. Inv => AnimatorSound
  BY InvSound
<1> QED
  BY <1>1, <1>2, <1>3, PTL DEF Spec
====
