-------------------- MODULE ObserverListThreadSafeProofs --------------------
(***************************************************************************)
(* For all threads, observers and addresses: the contexts are sound, and a *)
(* notification tells exactly the observers it should.  Neither is         *)
(* inductive.  That a context is deleted by exactly one of those that      *)
(* could delete it depends on what an empty one looks like at each moment: *)
(* out of the map it has cleared slots only, in the map it has a slot, and *)
(* unless it is being walked it has no cleared slot and no observer twice. *)
(* That a walk misses nobody depends on where, beyond each iterator, those *)
(* stand whom it still owes a call.                                        *)
(***************************************************************************)
EXTENDS ObserverListThreadSafe, FiniteSetTheorems, SequenceTheorems, TLAPS

Contexts == [observers_ : Seq(Observers \cup {Null}), notify_depth_ : Nat]

FrameFields ==
  [context : Addresses, index_ : Nat \ {0}, max_ : Nat \cup {Null},
   owed : SUBSET Observers, told : Observers \cup {Null}]

\* What the variables are, TypeOK apart.
Types ==
  /\ observer_lists_ \in [Threads -> Addresses \cup {Null}]
  /\ heap \in [Addresses -> Contexts \cup {Null}]
  /\ queue \in [Threads -> Seq(Addresses)]
  /\ frames \in [Threads -> Seq(FrameFields)]
  /\ registered \in [Threads -> SUBSET Observers]
  /\ type_ \in {"NOTIFY_ALL", "NOTIFY_EXISTING_ONLY"}
  /\ calls \in 0 .. MaxCalls /\ notes \in 0 .. MaxNotes
  /\ \A t \in Threads : Len(frames[t]) <= MaxDepth

\* The threads that hold a context.
Walked(t, a) == \E i \in 1 .. Len(frames[t]) : frames[t][i].context = a
Holds(t, a) == observer_lists_[t] = a \/ Walked(t, a)

\* A context counts the notifications that walk it.
Depths ==
  \A a \in Addresses : heap[a] # Null =>
    IsFiniteSet(Walks(a)) /\ heap[a].notify_depth_ = Cardinality(Walks(a))

\* A context exists as long as it is held, by one thread.
Held ==
  /\ \A a \in Addresses : heap[a] # Null <=> \E t \in Threads : Holds(t, a)
  /\ \A a \in Addresses, t, u \in Threads : Holds(t, a) /\ Holds(u, a) => t = u

\* A context has slots, no observer twice, cleared slots only while it is walked,
\* and nothing but cleared slots once it has left the map.
SlotsOf(list) ==
  /\ list # <<>>
  /\ \A i, j \in 1 .. Len(list) : list[i] = list[j] /\ list[i] # Null => i = j
Clean(list) == \A i \in 1 .. Len(list) : list[i] # Null
Cleared(list) == \A i \in 1 .. Len(list) : list[i] = Null

Lists ==
  \A a \in Addresses : heap[a] # Null =>
    /\ SlotsOf(List(a))
    /\ heap[a].notify_depth_ = 0 => Clean(List(a))
    /\ (\A t \in Threads : observer_lists_[t] # a) => Cleared(List(a))

\* ObserversFound, observer by observer.
In(o, list) == \E i \in 1 .. Len(list) : list[i] = o
Found ==
  \A t \in Threads, o \in Observers :
    o \in registered[t] <=>
      observer_lists_[t] # Null /\ In(o, List(observer_lists_[t]))

\* Beyond its iterator a notification finds all it owes a call, and, if it is to
\* tell the existing observers only, nobody else.
Bound(f, list) == IF f.max_ = Null \/ f.max_ > Len(list) THEN Len(list) ELSE f.max_
Walk(f, list, type) ==
  /\ \A o \in f.owed : \E k \in f.index_ .. Bound(f, list) : list[k] = o
  /\ type = "NOTIFY_EXISTING_ONLY" =>
       /\ f.max_ \in Nat /\ f.max_ <= Len(list)
       /\ \A k \in f.index_ .. f.max_ : list[k] # Null => list[k] \in f.owed
AllWalks ==
  \A t \in Threads : \A i \in 1 .. Len(frames[t]) :
    Walk(frames[t][i], List(frames[t][i].context), type_)

Inv == Types /\ Depths /\ Held /\ Lists /\ Found /\ AllWalks
-----------------------------------------------------------------------------
(* Erased *)

\* Slot finds every slot, and each at one rank only: Rank is a bijection.
LEMMA SlotFacts ==
  ASSUME NEW n \in Nat, NEW slots \in SUBSET (1 .. n)
  PROVE  /\ IsFiniteSet(slots) /\ Cardinality(slots) \in Nat
         /\ \A k \in 1 .. Cardinality(slots) :
              Slot(slots, k) \in slots /\ Rank(slots, Slot(slots, k)) = k
         /\ \A i \in slots : Rank(slots, i) \in 1 .. Cardinality(slots)
                               /\ Slot(slots, Rank(slots, i)) = i
<1> DEFINE c == Cardinality(slots)
           upto(i) == {j \in slots : j <= i}
           f == [i \in slots |-> Rank(slots, i)]
<1>1. IsFiniteSet(slots) /\ c \in Nat
  <2>1. IsFiniteSet(1 .. n)
    BY FS_Interval
  <2>2. IsFiniteSet(slots)
    BY <2>1, FS_Subset
  <2>3. QED
    BY <2>2, FS_CardinalityType
<1>2. ASSUME NEW i \in slots
      PROVE  /\ IsFiniteSet(upto(i)) /\ Rank(slots, i) = Cardinality(upto(i))
             /\ Rank(slots, i) \in 1 .. c
  <2>1. IsFiniteSet(upto(i)) /\ Cardinality(upto(i)) <= c
    BY <1>1, FS_Subset
  <2>2. Cardinality(upto(i)) \in Nat /\ Cardinality(upto(i)) # 0
    <3>1. i \in upto(i)
      OBVIOUS
    <3>2. QED
      BY <2>1, <3>1, FS_EmptySet, FS_CardinalityType
  <2>3. QED
    BY <1>1, <2>1, <2>2 DEF Rank
<1>3. ASSUME NEW i \in slots, NEW j \in slots, Rank(slots, i) = Rank(slots, j)
      PROVE  i = j
  <2>1. ASSUME NEW x \in slots, NEW y \in slots, x < y
        PROVE  Rank(slots, x) # Rank(slots, y)
    <3> \A z \in slots : z \in Int
      OBVIOUS
    <3>1. upto(x) \in SUBSET upto(y) /\ y \in upto(y) /\ y \notin upto(x)
      <4>1. \A z \in slots : z <= x => z <= y
        BY <2>1
      <4>2. y <= y /\ ~(y <= x)
        BY <2>1
      <4>3. QED
        BY <4>1, <4>2
    <3>2. IsFiniteSet(upto(y)) /\ upto(x) # upto(y)
      BY <1>2, <3>1
    <3>3. Cardinality(upto(y)) # Cardinality(upto(x))
      <4> HIDE DEF upto
      <4> QED
        BY <3>1, <3>2, FS_Subset
    <3>4. QED
      BY <1>2, <3>3
  <2>2. i \in Int /\ j \in Int
    OBVIOUS
  <2>3. QED
    BY <1>3, <2>1, <2>2
<1>4. f \in Injection(slots, 1 .. c)
  BY <1>2, <1>3 DEF Injection, IsInjective
<1>5. IsFiniteSet(1 .. c) /\ Cardinality(1 .. c) = c
  BY <1>1, FS_Interval
<1>6. f \in Surjection(slots, 1 .. c)
  BY <1>4, <1>5, FS_Injection
<1>7. \A k \in 1 .. c : \E i \in slots : Rank(slots, i) = k
  BY <1>6 DEF Surjection
<1>8. \A k \in 1 .. c : Slot(slots, k) \in slots /\ Rank(slots, Slot(slots, k)) = k
  BY <1>7 DEF Slot
<1>9. QED
  BY <1>1, <1>2, <1>3, <1>8

\* Erased leaves what is not erased, once each, and nothing else.
LEMMA ErasedFacts ==
  ASSUME NEW S, NEW list \in Seq(S), NEW x, NEW result, result = Erased(list, x)
  PROVE  /\ result \in Seq(S)
         /\ \A y : In(y, result) <=> In(y, list) /\ y # x
         /\ result = <<>> <=> \A i \in 1 .. Len(list) : list[i] = x
         /\ (\A i, j \in 1 .. Len(list) : list[i] = list[j] /\ list[i] # x => i = j)
              => \A i, j \in 1 .. Len(result) : result[i] = result[j] => i = j
<1> DEFINE slots == Others(list, x)
           c == Cardinality(slots)
<1>1. Len(list) \in Nat /\ slots \in SUBSET (1 .. Len(list))
  BY DEF Others
<1>2. /\ c \in Nat
      /\ \A k \in 1 .. c : Slot(slots, k) \in slots /\ Rank(slots, Slot(slots, k)) = k
      /\ \A i \in slots : Rank(slots, i) \in 1 .. c /\ Slot(slots, Rank(slots, i)) = i
  <2> HIDE DEF slots
  <2> QED
    BY <1>1, SlotFacts
<1>3. result = [k \in 1 .. c |-> list[Slot(slots, k)]]
  BY DEF Erased
<1>4. \A i : i \in slots <=> i \in 1 .. Len(list) /\ list[i] # x
  BY DEF Others
<1> HIDE DEF slots, c
<1>5. result \in Seq(S) /\ Len(result) = c
  BY <1>1, <1>2, <1>3, <1>4
<1>6. \A k \in 1 .. c : result[k] = list[Slot(slots, k)]
  BY <1>3
<1>7. ASSUME NEW y
      PROVE  In(y, result) <=> In(y, list) /\ y # x
  <2>1. ASSUME In(y, result) PROVE In(y, list) /\ y # x
    <3>1. PICK k \in 1 .. c : result[k] = y
      BY <1>5, <2>1 DEF In
    <3>2. QED
      BY <1>2, <1>4, <1>6, <3>1 DEF In
  <2>2. ASSUME In(y, list), y # x PROVE In(y, result)
    <3>1. PICK i \in 1 .. Len(list) : list[i] = y
      BY <2>2 DEF In
    <3>2. i \in slots
      BY <1>4, <2>2, <3>1
    <3>3. result[Rank(slots, i)] = y
      BY <1>2, <1>6, <3>1, <3>2
    <3>4. QED
      BY <1>2, <1>5, <3>2, <3>3 DEF In
  <2>3. QED
    BY <2>1, <2>2
<1>8. result = <<>> <=> \A i \in 1 .. Len(list) : list[i] = x
  <2>1. result = <<>> <=> c = 0
    BY <1>2, <1>5
  <2>2. c = 0 <=> slots = {}
    <3>1. CASE slots = {}
      BY <3>1, FS_EmptySet DEF c
    <3>2. CASE slots # {}
      BY <1>2, <3>2
    <3>3. QED
      BY <3>1, <3>2
  <2>3. QED
    BY <1>4, <2>1, <2>2
<1>9. ASSUME \A i, j \in 1 .. Len(list) : list[i] = list[j] /\ list[i] # x => i = j,
             NEW i \in 1 .. Len(result), NEW j \in 1 .. Len(result), result[i] = result[j]
      PROVE  i = j
  <2>1. Slot(slots, i) \in slots /\ Slot(slots, j) \in slots
    BY <1>2, <1>5
  <2>2. list[Slot(slots, i)] = list[Slot(slots, j)]
    BY <1>5, <1>6, <1>9
  <2>3. Slot(slots, i) = Slot(slots, j)
    BY <1>4, <1>9, <2>1, <2>2
  <2>4. QED
    BY <1>2, <1>5, <2>3
<1>10. QED
  BY <1>5, <1>7, <1>8, <1>9

\* Of some slots one comes first: the one of rank 1.
LEMMA FirstSlot ==
  ASSUME NEW n \in Nat, NEW slots \in SUBSET (1 .. n), slots # {}
  PROVE  \E m \in slots : \A i \in slots : m <= i
<1>1. /\ IsFiniteSet(slots) /\ Cardinality(slots) \in Nat
      /\ \A k \in 1 .. Cardinality(slots) :
           Slot(slots, k) \in slots /\ Rank(slots, Slot(slots, k)) = k
  BY SlotFacts
<1>2. Cardinality(slots) # 0
  BY <1>1, FS_EmptySet
<1>3. PICK m \in slots : Rank(slots, m) = 1
  <2>1. 1 \in 1 .. Cardinality(slots)
    BY <1>1, <1>2
  <2>2. QED
    BY <1>1, <2>1
<1>4. \A i \in slots : i \in Int
  OBVIOUS
<1> DEFINE upto == {j \in slots : j <= m}
<1>5. upto \in SUBSET slots /\ \A j : j \in upto <=> j \in slots /\ j <= m
  OBVIOUS
<1>6. Cardinality(upto) = 1
  BY <1>3 DEF Rank
<1> HIDE DEF upto
<1>7. IsFiniteSet(upto)
  BY <1>1, <1>5, FS_Subset
<1>8. PICK x : upto = {x}
  BY <1>6, <1>7, FS_Singleton
<1>9. m \in upto
  BY <1>4, <1>5
<1>10. ASSUME NEW i \in slots, ~(m <= i) PROVE FALSE
  <2>1. i <= m
    BY <1>4, <1>10
  <2>2. i = x /\ m = x
    BY <1>5, <1>8, <1>9, <2>1
  <2>3. QED
    BY <1>4, <1>10, <2>2
<1>11. QED
  BY <1>10

-----------------------------------------------------------------------------
(* What the invariant says of a context *)

\* A context has a list of slots and a depth, and its list has a length.
LEMMA ContextFacts ==
  ASSUME Types, NEW a \in Addresses, heap[a] # Null
  PROVE  /\ heap[a] \in Contexts
         /\ List(a) \in Seq(Observers \cup {Null}) /\ Count(a) \in Nat
         /\ \A i \in 1 .. Count(a) : List(a)[i] \in Observers \cup {Null}
         /\ heap[a].notify_depth_ \in Nat
<1>1. heap[a] \in Contexts
  BY DEF Types
<1>2. List(a) \in Seq(Observers \cup {Null}) /\ heap[a].notify_depth_ \in Nat
  BY <1>1 DEF Contexts, List
<1>3. QED
  BY <1>1, <1>2 DEF Count

\* A context that nobody walks has a depth of 0, and the other way round.
LEMMA DepthFacts ==
  ASSUME Types, Depths, NEW a \in Addresses, heap[a] # Null
  PROVE  heap[a].notify_depth_ = 0 <=> \A t \in Threads : ~Walked(t, a)
<1>1. heap[a].notify_depth_ = 0 <=> Walks(a) = {}
  BY FS_EmptySet DEF Depths
<1>2. ASSUME NEW t \in Threads, Walked(t, a)
      PROVE  Walks(a) # {}
  <2>1. PICK i \in 1 .. Len(frames[t]) : frames[t][i].context = a
    BY <1>2 DEF Walked
  <2>2. i \in 1 .. MaxDepth /\ i <= Len(frames[t])
    BY ConstantsAssumption DEF Types
  <2>3. <<t, i>> \in Walks(a)
    BY <2>1, <2>2 DEF Walks
  <2>4. QED
    BY <2>3
<1>3. ASSUME NEW p \in Walks(a)
      PROVE  p[1] \in Threads /\ Walked(p[1], a)
  <2>1. p[1] \in Threads /\ p[2] \in 1 .. MaxDepth
    BY DEF Walks
  <2>2. p[2] <= Len(frames[p[1]]) /\ frames[p[1]][p[2]].context = a
    BY DEF Walks
  <2>3. p[2] \in 1 .. Len(frames[p[1]])
    BY <2>1, <2>2, ConstantsAssumption DEF Types
  <2>4. QED
    BY <2>1, <2>2, <2>3 DEF Walked
<1>4. QED
  BY <1>1, <1>2, <1>3

\* The notifications walk the same contexts as before.
SameContexts ==
  \A t \in Threads :
    /\ Len(frames'[t]) = Len(frames[t])
    /\ \A i \in 1 .. Len(frames[t]) : frames'[t][i].context = frames[t][i].context

\* Walks depends on the contexts of the frames only, not on their iterators.
LEMMA SameWalks ==
  ASSUME Types, SameContexts, NEW a
  PROVE  Walks(a)' = Walks(a) /\ \A t \in Threads : Walked(t, a)' <=> Walked(t, a)
<1>1. ASSUME NEW t \in Threads, NEW i \in 1 .. MaxDepth
      PROVE  (i <= Len(frames[t]) /\ frames[t][i].context = a)
               <=> (i <= Len(frames'[t]) /\ frames'[t][i].context = a)
  <2>1. Len(frames'[t]) = Len(frames[t]) /\ Len(frames[t]) \in Nat
    BY DEF SameContexts, Types
  <2>2. CASE i <= Len(frames[t])
    <3>1. i \in 1 .. Len(frames[t])
      BY <2>1, <2>2, ConstantsAssumption
    <3>2. QED
      BY <2>1, <3>1 DEF SameContexts
  <2>3. CASE ~(i <= Len(frames[t]))
    BY <2>1, <2>3
  <2>4. QED
    BY <2>2, <2>3
<1>2. Walks(a)' = Walks(a)
  BY <1>1 DEF Walks
<1>3. ASSUME NEW t \in Threads
      PROVE  Walked(t, a)' <=> Walked(t, a)
  BY DEF SameContexts, Walked
<1>4. QED
  BY <1>2, <1>3

\* A context that nobody walks is walked by no notification.
LEMMA NoWalks ==
  ASSUME Types, NEW a, \A t \in Threads : ~Walked(t, a)
  PROVE  Walks(a) = {}
<1>1. ASSUME NEW p \in Walks(a) PROVE FALSE
  <2>1. p[1] \in Threads /\ p[2] \in 1 .. MaxDepth
    BY DEF Walks
  <2>2. p[2] <= Len(frames[p[1]]) /\ frames[p[1]][p[2]].context = a
    BY DEF Walks
  <2>3. p[2] \in 1 .. Len(frames[p[1]])
    BY <2>1, <2>2, ConstantsAssumption DEF Types
  <2>4. QED
    BY <2>1, <2>2, <2>3 DEF Walked
<1>2. QED
  BY <1>1

-----------------------------------------------------------------------------
(* Walks, and what is done to the list meanwhile *)

Slots == Seq(Observers \cup {Null})

\* Bound is the end of an iteration: max_, or the list where there is no limit.
LEMMA BoundFacts ==
  ASSUME NEW f \in FrameFields, NEW list \in Slots
  PROVE  /\ Bound(f, list) \in Nat /\ Bound(f, list) <= Len(list)
         /\ f.max_ \in Nat => Bound(f, list) <= f.max_
         /\ f.max_ \in Nat /\ f.max_ <= Len(list) => Bound(f, list) = f.max_
         /\ f.max_ \notin Nat => Bound(f, list) = Len(list)
<1>1. Len(list) \in Nat /\ f.max_ \in Nat \cup {Null} /\ Null \notin Nat
  BY ConstantsAssumption DEF FrameFields, Slots
<1>2. CASE f.max_ = Null
  BY <1>1, <1>2 DEF Bound
<1>3. CASE f.max_ \in Nat
  BY <1>1, <1>3 DEF Bound
<1>4. QED
  BY <1>1, <1>2, <1>3

\* An observer that is added comes last.
LEMMA WalkAdd ==
  ASSUME NEW f \in FrameFields, NEW list \in Slots, NEW o \in Observers, NEW type,
         Walk(f, list, type)
  PROVE  Walk(f, Append(list, o), type)
<1> DEFINE new == Append(list, o)
<1>1. /\ Len(list) \in Nat /\ new \in Slots /\ Len(new) = Len(list) + 1
      /\ \A k \in 1 .. Len(list) : new[k] = list[k]
      /\ f.index_ \in Nat \ {0} /\ f.max_ \in Nat \cup {Null}
  BY DEF Slots, FrameFields
<1>2. /\ Bound(f, list) \in Nat /\ Bound(f, new) \in Nat
      /\ Bound(f, list) <= Bound(f, new) /\ Bound(f, list) <= Len(list)
  <2>1. CASE f.max_ \in Nat
    BY <1>1, <2>1, ConstantsAssumption DEF Bound
  <2>2. CASE f.max_ = Null
    BY <1>1, <2>2 DEF Bound
  <2>3. QED
    BY <1>1, <2>1, <2>2
<1> HIDE DEF new
<1>3. \A p \in f.owed : \E k \in f.index_ .. Bound(f, new) : new[k] = p
  <2> SUFFICES ASSUME NEW p \in f.owed
               PROVE  \E k \in f.index_ .. Bound(f, new) : new[k] = p
    OBVIOUS
  <2>1. PICK k \in f.index_ .. Bound(f, list) : list[k] = p
    BY DEF Walk
  <2>2. k \in f.index_ .. Bound(f, new) /\ new[k] = p
    BY <1>1, <1>2, <2>1
  <2>3. QED
    BY <2>2
<1>4. ASSUME type = "NOTIFY_EXISTING_ONLY"
      PROVE  /\ f.max_ \in Nat /\ f.max_ <= Len(new)
             /\ \A k \in f.index_ .. f.max_ : new[k] # Null => new[k] \in f.owed
  <2>1. /\ f.max_ \in Nat /\ f.max_ <= Len(list)
        /\ \A k \in f.index_ .. f.max_ : list[k] # Null => list[k] \in f.owed
    BY <1>4 DEF Walk
  <2>2. QED
    BY <1>1, <2>1
<1>5. Walk(f, new, type)
  BY <1>3, <1>4 DEF Walk
<1>6. QED
  BY <1>5 DEF new

\* A frame that owes one observer less is a frame, otherwise the same.
LEMMA UnowedFacts ==
  ASSUME NEW f \in FrameFields, NEW o
  PROVE  Unowed(f, o) \in FrameFields /\ Unowed(f, o).context = f.context
BY DEF FrameFields, Unowed

\* An observer that is removed is owed no call, and its slot is cleared.
LEMMA WalkRemove ==
  ASSUME NEW f \in FrameFields, NEW list \in Slots, NEW new \in Slots,
         NEW o \in Observers, NEW type, Walk(f, list, type),
         Len(new) = Len(list),
         \A k \in 1 .. Len(list) : new[k] = IF list[k] = o THEN Null ELSE list[k]
  PROVE  Walk(Unowed(f, o), new, type)
<1> DEFINE g == Unowed(f, o)
<1>1. /\ g.owed = f.owed \ {o} /\ g.index_ = f.index_ /\ g.max_ = f.max_
      /\ f.index_ \in Nat \ {0} /\ Len(list) \in Nat
  BY DEF FrameFields, Slots, Unowed
<1>2. Bound(g, new) = Bound(f, list)
  BY <1>1 DEF Bound
<1>3. Bound(f, list) \in Nat /\ Bound(f, list) <= Len(list)
  BY BoundFacts
<1> HIDE DEF g
<1>4. ASSUME NEW p \in g.owed
      PROVE  \E k \in g.index_ .. Bound(g, new) : new[k] = p
  <2>1. p \in f.owed /\ p # o
    BY <1>1
  <2>2. PICK k \in f.index_ .. Bound(f, list) : list[k] = p
    BY <2>1 DEF Walk
  <2>3. new[k] = p
    BY <1>1, <1>3, <2>1, <2>2
  <2>4. QED
    BY <1>1, <1>2, <2>2, <2>3
<1>5. ASSUME type = "NOTIFY_EXISTING_ONLY"
      PROVE  /\ g.max_ \in Nat /\ g.max_ <= Len(new)
             /\ \A k \in g.index_ .. g.max_ : new[k] # Null => new[k] \in g.owed
  <2>1. /\ f.max_ \in Nat /\ f.max_ <= Len(list)
        /\ \A k \in f.index_ .. f.max_ : list[k] # Null => list[k] \in f.owed
    BY <1>5 DEF Walk
  <2>2. ASSUME NEW k \in f.index_ .. f.max_, new[k] # Null
        PROVE  new[k] \in f.owed \ {o}
    BY <1>1, <2>1, <2>2
  <2>3. QED
    BY <1>1, <2>1, <2>2
<1>6. Walk(g, new, type)
  BY <1>4, <1>5 DEF Walk
<1>7. QED
  BY <1>6 DEF g

\* The iterator comes to the next slot that is not cleared, or there is none.
LEMMA NextFacts ==
  ASSUME NEW f, f \in FrameFields, NEW list, list \in Slots, list = List(f.context)
  PROVE  /\ NextIndex(f) # 0 =>
              /\ NextIndex(f) \in f.index_ .. Bound(f, list) /\ NextIndex(f) \in 1 .. Len(list)
              /\ list[NextIndex(f)] \in Observers
              /\ \A k \in f.index_ .. Bound(f, list) :
                   list[k] # Null => NextIndex(f) <= k
         /\ NextIndex(f) = 0 => \A k \in f.index_ .. Bound(f, list) : list[k] = Null
<1> DEFINE left == {i \in f.index_ .. Limit(f) : List(f.context)[i] # Null}
<1>1. Limit(f) = Bound(f, list)
  BY DEF Limit, Bound, Count
<1>2. /\ Bound(f, list) \in Nat /\ Bound(f, list) <= Len(list) /\ Len(list) \in Nat
      /\ f.index_ \in Nat \ {0}
  BY BoundFacts DEF FrameFields, Slots
<1>3. NextIndex(f) = IF left = {} THEN 0
                     ELSE CHOOSE i \in left : \A j \in left : i <= j
  BY DEF NextIndex
<1>4. left \in SUBSET (1 .. Len(list))
  BY <1>1, <1>2
<1>5. \A i : i \in left <=> i \in f.index_ .. Bound(f, list) /\ list[i] # Null
  BY <1>1
<1> HIDE DEF left
<1>6. CASE left = {}
  BY <1>3, <1>5, <1>6
<1>7. CASE left # {}
  <2>1. \E i \in left : \A j \in left : i <= j
    BY <1>2, <1>4, <1>7, FirstSlot
  <2>2. NextIndex(f) \in left /\ \A j \in left : NextIndex(f) <= j
    BY <1>3, <1>7, <2>1
  <2>3. list[NextIndex(f)] \in Observers
    BY <1>4, <1>5, <2>2 DEF Slots
  <2>4. NextIndex(f) # 0
    BY <1>4, <2>2
  <2>5. QED
    BY <1>4, <1>5, <2>2, <2>3, <2>4
<1>8. QED
  BY <1>6, <1>7

\* An observer that is told is owed nothing more.
LEMMA WalkTell ==
  ASSUME NEW f \in FrameFields, NEW list \in Slots, NEW n \in 1 .. Len(list), NEW type,
         Walk(f, list, type), n >= f.index_,
         \A k \in f.index_ .. Bound(f, list) : list[k] # Null => n <= k,
         \A i, j \in 1 .. Len(list) : list[i] = list[j] /\ list[i] # Null => i = j,
         f.owed \subseteq Observers
  PROVE  Walk([Unowed(f, list[n]) EXCEPT !.index_ = n + 1, !.told = list[n]],
              list, type)
<1> DEFINE g == [Unowed(f, list[n]) EXCEPT !.index_ = n + 1, !.told = list[n]]
<1>1. /\ g.owed = f.owed \ {list[n]} /\ g.index_ = n + 1 /\ g.max_ = f.max_
      /\ f.index_ \in Nat \ {0} /\ Len(list) \in Nat /\ n \in Nat
  BY DEF FrameFields, Slots, Unowed
<1>2. Bound(g, list) = Bound(f, list)
  BY <1>1 DEF Bound
<1>3. Bound(f, list) \in Nat /\ Bound(f, list) <= Len(list)
  BY BoundFacts
<1> HIDE DEF g
<1>4. ASSUME NEW p \in g.owed
      PROVE  \E k \in g.index_ .. Bound(g, list) : list[k] = p
  <2>1. p \in f.owed /\ p # list[n] /\ p # Null
    BY <1>1, ConstantsAssumption
  <2>2. PICK k \in f.index_ .. Bound(f, list) : list[k] = p
    BY <2>1 DEF Walk
  <2>3. n <= k /\ k # n
    BY <2>1, <2>2
  <2>4. k \in g.index_ .. Bound(g, list)
    BY <1>1, <1>2, <1>3, <2>2, <2>3
  <2>5. QED
    BY <2>2, <2>4
<1>5. ASSUME type = "NOTIFY_EXISTING_ONLY"
      PROVE  /\ g.max_ \in Nat /\ g.max_ <= Len(list)
             /\ \A k \in g.index_ .. g.max_ : list[k] # Null => list[k] \in g.owed
  <2>1. /\ f.max_ \in Nat /\ f.max_ <= Len(list)
        /\ \A k \in f.index_ .. f.max_ : list[k] # Null => list[k] \in f.owed
    BY <1>5 DEF Walk
  <2>2. ASSUME NEW k \in g.index_ .. g.max_, list[k] # Null
        PROVE  list[k] \in g.owed
    <3>1. k \in f.index_ .. f.max_ /\ k \in 1 .. Len(list) /\ k # n
      BY <1>1, <2>1
    <3>2. list[k] \in f.owed /\ list[k] # list[n]
      BY <2>1, <2>2, <3>1
    <3>3. QED
      BY <1>1, <3>2
  <2>3. QED
    BY <1>1, <2>1, <2>2
<1>6. Walk(g, list, type)
  BY <1>4, <1>5 DEF Walk
<1>7. QED
  BY <1>6 DEF g

-----------------------------------------------------------------------------
(* Steps *)

\* What a frame walks exists.
LEMMA FrameFacts ==
  ASSUME Types, Held, NEW t \in Threads, NEW i \in 1 .. Len(frames[t])
  PROVE  /\ frames[t][i] \in FrameFields /\ frames[t][i].context \in Addresses
         /\ Walked(t, frames[t][i].context) /\ heap[frames[t][i].context] # Null
         /\ List(frames[t][i].context) \in Slots
<1>1. frames[t][i] \in FrameFields
  BY DEF Types
<1>2. frames[t][i].context \in Addresses
  BY <1>1 DEF FrameFields
<1>3. Walked(t, frames[t][i].context)
  BY DEF Walked
<1>4. heap[frames[t][i].context] # Null
  BY <1>2, <1>3 DEF Held, Holds
<1>5. QED
  BY <1>1, <1>2, <1>3, <1>4, ContextFacts DEF Slots

\* A step that leaves contexts, frames and registrations alone keeps the invariant.
LEMMA Quiet ==
  ASSUME Inv, Types', UNCHANGED <<observer_lists_, heap, frames, registered, type_>>
  PROVE  Inv'
<1>1. Depths'
  BY DEF Inv, Depths, Walks
<1>2. Held'
  BY DEF Inv, Held, Holds, Walked
<1>3. Lists'
  BY DEF Inv, Lists, List
<1>4. Found'
  BY DEF Inv, Found, List
<1>5. AllWalks'
  BY DEF Inv, AllWalks, List
<1>6. QED
  BY <1>1, <1>2, <1>3, <1>4, <1>5 DEF Inv

\* AddObserver on a thread without a context: it gets one of its own.
LEMMA AddFirstInv ==
  ASSUME Inv, NEW t \in Threads, NEW o \in Observers, NEW a \in Addresses,
         AddFirst(t, o, a)
  PROVE  Inv'
<1> USE DEF Inv
<1>1. /\ calls < MaxCalls /\ calls' = calls + 1
      /\ observer_lists_[t] = Null /\ heap[a] = Null
      /\ observer_lists_' = [observer_lists_ EXCEPT ![t] = a]
      /\ heap' = [heap EXCEPT ![a] = [observers_ |-> <<o>>, notify_depth_ |-> 0]]
      /\ registered' = [registered EXCEPT ![t] = @ \cup {o}]
      /\ UNCHANGED <<queue, frames, type_, notes>>
  BY DEF AddFirst, Call, Register
<1>2. /\ a # Null /\ o # Null
      /\ observer_lists_'[t] = a
      /\ \A u \in Threads : u # t => observer_lists_'[u] = observer_lists_[u]
  BY <1>1, ConstantsAssumption DEF Types
<1>3. /\ heap'[a] = [observers_ |-> <<o>>, notify_depth_ |-> 0]
      /\ heap'[a] \in Contexts /\ heap'[a] # Null
      /\ \A b \in Addresses : b # a => heap'[b] = heap[b]
  <2>1. [observers_ |-> <<o>>, notify_depth_ |-> 0] \in Contexts
    BY DEF Contexts
  <2>2. QED
    BY <1>1, <2>1, ConstantsAssumption DEF Types, Contexts
<1>4. \A u \in Threads : ~Holds(u, a)
  BY <1>1 DEF Held
<1>5. \A b : \A u \in Threads : Walked(u, b)' <=> Walked(u, b)
  BY <1>1 DEF Walked
<1>6. Types'
  BY <1>1, <1>3, ConstantsAssumption DEF Types
<1>7. Depths'
  <2> SUFFICES ASSUME NEW b \in Addresses, heap'[b] # Null
               PROVE  IsFiniteSet(Walks(b)') /\ heap'[b].notify_depth_ = Cardinality(Walks(b)')
    BY DEF Depths
  <2>1. Walks(b)' = Walks(b)
    BY <1>1 DEF Walks
  <2>2. CASE b = a
    <3>1. Walks(a) = {}
      BY <1>4, NoWalks DEF Holds
    <3>2. QED
      BY <1>3, <2>1, <2>2, <3>1, FS_EmptySet
  <2>3. CASE b # a
    BY <1>3, <2>1, <2>3 DEF Depths
  <2>4. QED
    BY <2>2, <2>3
<1>8. Held'
  <2>1. ASSUME NEW b \in Addresses
        PROVE  heap'[b] # Null <=> \E u \in Threads : Holds(u, b)'
    <3>1. CASE b = a
      BY <1>2, <1>3, <3>1 DEF Holds
    <3>2. CASE b # a
      <4>1. \A u \in Threads : Holds(u, b)' <=> Holds(u, b)
        BY <1>1, <1>2, <1>5, <3>2, ConstantsAssumption DEF Holds
      <4>2. QED
        BY <1>3, <3>2, <4>1 DEF Held
    <3>3. QED
      BY <3>1, <3>2
  <2>2. ASSUME NEW b \in Addresses, NEW u \in Threads, NEW v \in Threads,
               Holds(u, b)', Holds(v, b)'
        PROVE  u = v
    <3>1. CASE b = a
      BY <1>2, <1>4, <1>5, <2>2, <3>1 DEF Holds
    <3>2. CASE b # a
      <4>1. \A w \in Threads : Holds(w, b)' <=> Holds(w, b)
        BY <1>1, <1>2, <1>5, <3>2, ConstantsAssumption DEF Holds
      <4>2. QED
        BY <2>2, <4>1 DEF Held
    <3>3. QED
      BY <3>1, <3>2
  <2>3. QED
    BY <2>1, <2>2 DEF Held
<1>9. Lists'
  <2> SUFFICES ASSUME NEW b \in Addresses, heap'[b] # Null
               PROVE  /\ SlotsOf(List(b)')
                      /\ heap'[b].notify_depth_ = 0 => Clean(List(b)')
                      /\ (\A u \in Threads : observer_lists_'[u] # b) => Cleared(List(b)')
    BY DEF Lists
  <2>1. CASE b = a
    <3>1. List(b)' = <<o>>
      BY <1>3, <2>1 DEF List
    <3>2. QED
      BY <1>2, <2>1, <3>1 DEF SlotsOf, Clean
  <2>2. CASE b # a
    <3>1. heap'[b] = heap[b] /\ List(b)' = List(b)
      BY <1>3, <2>2 DEF List
    <3>2. (\A u \in Threads : observer_lists_'[u] # b)
            => (\A u \in Threads : observer_lists_[u] # b)
      BY <1>1, <1>2, ConstantsAssumption
    <3>3. QED
      BY <3>1, <3>2 DEF Lists
  <2>3. QED
    BY <2>1, <2>2
<1>10. Found'
  <2> SUFFICES ASSUME NEW u \in Threads, NEW p \in Observers
               PROVE  p \in registered'[u] <=>
                        observer_lists_'[u] # Null /\ In(p, List(observer_lists_[u])')
    BY DEF Found
  <2>1. CASE u = t
    <3>1. List(observer_lists_[t])' = <<o>>
      BY <1>2, <1>3 DEF List
    <3>2. registered'[t] = {o}
      <4>1. registered[t] = {}
        BY <1>1 DEF Found, Types
      <4>2. QED
        BY <1>1, <4>1 DEF Types
    <3>3. QED
      BY <1>2, <2>1, <3>1, <3>2 DEF In
  <2>2. CASE u # t
    <3>1. observer_lists_'[u] = observer_lists_[u] /\ registered'[u] = registered[u]
      BY <1>1, <1>2, <2>2 DEF Types
    <3>2. CASE observer_lists_[u] # Null
      <4>1. observer_lists_[u] # a /\ observer_lists_[u] \in Addresses
        BY <1>4, <3>2 DEF Holds, Types
      <4>2. List(observer_lists_[u])' = List(observer_lists_[u])
        BY <1>3, <3>1, <4>1 DEF List
      <4>3. QED
        BY <3>1, <4>2 DEF Found
    <3>3. CASE observer_lists_[u] = Null
      BY <3>1, <3>3 DEF Found
    <3>4. QED
      BY <3>2, <3>3
  <2>3. QED
    BY <2>1, <2>2
<1>11. AllWalks'
  <2> SUFFICES ASSUME NEW u \in Threads, NEW i \in 1 .. Len(frames[u])
               PROVE  Walk(frames[u][i], heap'[frames[u][i].context].observers_, type_)
    BY <1>1 DEF AllWalks, List
  <2>1. frames[u][i].context # a /\ frames[u][i].context \in Addresses
    BY <1>4, FrameFacts DEF Holds
  <2>2. QED
    BY <1>3, <2>1 DEF AllWalks, List
<1>12. QED
  BY <1>6, <1>7, <1>8, <1>9, <1>10, <1>11

\* Notifications that are posted, or whose context is not the thread's any more.
LEMMA NotifyInv ==
  ASSUME Inv, Notify
  PROVE  Inv'
<1>1. \A t \in Threads : queue[t] \in Seq(Addresses)
  BY DEF Inv, Types
<1>2. \A t \in Threads : observer_lists_[t] # Null =>
        Append(queue[t], observer_lists_[t]) \in Seq(Addresses)
  BY <1>1 DEF Inv, Types
<1>3. queue' \in [Threads -> Seq(Addresses)]
  BY <1>1, <1>2 DEF Notify
<1>4. Types'
  BY <1>3, ConstantsAssumption DEF Inv, Types, Notify
<1>5. QED
  BY <1>4, Quiet DEF Notify

\* A notification that finds no context, or another thread's, does nothing.
LEMMA AbortInv ==
  ASSUME Inv, NEW t \in Threads, Abort(t)
  PROVE  Inv'
<1>1. queue[t] \in Seq(Addresses) /\ queue[t] # <<>>
  BY DEF Inv, Types, Abort
<1>2. Tail(queue[t]) \in Seq(Addresses)
  BY <1>1
<1>3. Types'
  BY <1>2 DEF Inv, Types, Abort
<1>4. QED
  BY <1>3, Quiet DEF Abort

\* AddObserver where there is a context, walked or not, appends a slot.
LEMMA AddObserverInv ==
  ASSUME Inv, NEW t \in Threads, NEW o \in Observers, AddObserver(t, o)
  PROVE  Inv'
<1> USE DEF Inv
<1> DEFINE a == observer_lists_[t]
           list == List(a)
           new == Append(list, o)
<1>1. /\ calls < MaxCalls /\ calls' = calls + 1
      /\ a # Null /\ o \notin registered[t]
      /\ heap' = [heap EXCEPT ![a].observers_ = Append(@, o)]
      /\ registered' = [registered EXCEPT ![t] = @ \cup {o}]
      /\ UNCHANGED <<observer_lists_, queue, frames, type_, notes>>
  BY DEF AddObserver, Call, Register
<1>2. a \in Addresses /\ Holds(t, a) /\ heap[a] # Null /\ o # Null
  BY <1>1, ConstantsAssumption DEF Types, Holds, Held
<1>3. /\ heap[a] \in Contexts /\ list \in Slots /\ Len(list) \in Nat
      /\ \A i \in 1 .. Len(list) : list[i] \in Observers \cup {Null}
  BY <1>2, ContextFacts DEF Slots, Count
<1>4. /\ new \in Slots /\ Len(new) = Len(list) + 1 /\ new[Len(list) + 1] = o
      /\ \A i \in 1 .. Len(list) : new[i] = list[i]
  BY <1>3 DEF Slots
<1>5. /\ heap'[a] \in Contexts /\ heap'[a] # Null
      /\ List(a)' = new /\ heap'[a].notify_depth_ = heap[a].notify_depth_
      /\ \A b \in Addresses : b # a => heap'[b] = heap[b]
  <2>1. heap'[a] = [heap[a] EXCEPT !.observers_ = new]
    BY <1>1, <1>2 DEF Types, List
  <2>2. heap'[a].observers_ = new /\ heap'[a].notify_depth_ = heap[a].notify_depth_
    BY <1>3, <2>1 DEF Contexts
  <2>3. heap'[a] \in Contexts
    BY <1>3, <1>4, <2>1 DEF Contexts, Slots
  <2>4. heap'[a] # Null
    BY <2>3, ConstantsAssumption DEF Contexts
  <2>5. List(a)' = new
    BY <1>1, <2>2 DEF List
  <2>6. QED
    BY <1>1, <2>2, <2>3, <2>4, <2>5 DEF Types
<1> HIDE DEF new
<1>6. \A b \in Addresses : heap'[b] # Null <=> heap[b] # Null
  BY <1>2, <1>5
<1>7. ~In(o, list)
  BY <1>1 DEF Found
<1>8. Types'
  <2>1. heap' \in [Addresses -> Contexts \cup {Null}]
    BY <1>1, <1>5 DEF Types
  <2>2. QED
    BY <1>1, <2>1, ConstantsAssumption DEF Types
<1>9. Depths'
  <2> SUFFICES ASSUME NEW b \in Addresses, heap'[b] # Null
               PROVE  IsFiniteSet(Walks(b)') /\ heap'[b].notify_depth_ = Cardinality(Walks(b)')
    BY DEF Depths
  <2>1. Walks(b)' = Walks(b)
    BY <1>1 DEF Walks
  <2>2. heap'[b].notify_depth_ = heap[b].notify_depth_
    BY <1>5
  <2>3. QED
    BY <1>6, <2>1, <2>2 DEF Depths
<1>10. Held'
  <2>1. \A u \in Threads, b \in Addresses : Holds(u, b)' <=> Holds(u, b)
    BY <1>1 DEF Holds, Walked
  <2>2. QED
    BY <1>6, <2>1 DEF Held
<1>11. Lists'
  <2> SUFFICES ASSUME NEW b \in Addresses, heap'[b] # Null
               PROVE  /\ SlotsOf(List(b)')
                      /\ heap'[b].notify_depth_ = 0 => Clean(List(b)')
                      /\ (\A u \in Threads : observer_lists_'[u] # b) => Cleared(List(b)')
    BY DEF Lists
  <2>1. CASE b = a
    <3>1. SlotsOf(list) /\ (heap[a].notify_depth_ = 0 => Clean(list))
      BY <1>2 DEF Lists
    <3>2. SlotsOf(new)
      <4>1. new # <<>>
        BY <1>3, <1>4
      <4>2. ASSUME NEW i \in 1 .. Len(new), NEW j \in 1 .. Len(new),
                   new[i] = new[j], new[i] # Null
            PROVE  i = j
        <5>1. \A k \in 1 .. Len(list) : new[k] # o
          BY <1>4, <1>7 DEF In
        <5>2. CASE i \in 1 .. Len(list) /\ j \in 1 .. Len(list)
          BY <1>4, <3>1, <4>2, <5>2 DEF SlotsOf
        <5>3. CASE i \notin 1 .. Len(list) \/ j \notin 1 .. Len(list)
          BY <1>3, <1>4, <4>2, <5>1, <5>3
        <5>4. QED
          BY <5>2, <5>3
      <4>3. QED
        BY <4>1, <4>2 DEF SlotsOf
    <3>3. Clean(list) => Clean(new)
      BY <1>2, <1>3, <1>4 DEF Clean
    <3>4. observer_lists_'[t] = b
      BY <1>1, <2>1
    <3>5. QED
      BY <1>5, <2>1, <3>1, <3>2, <3>3, <3>4
  <2>2. CASE b # a
    <3>1. heap'[b] = heap[b] /\ List(b)' = List(b)
      BY <1>5, <2>2 DEF List
    <3>2. QED
      BY <1>1, <3>1 DEF Lists
  <2>3. QED
    BY <2>1, <2>2
<1>12. Found'
  <2> SUFFICES ASSUME NEW u \in Threads, NEW p \in Observers
               PROVE  p \in registered'[u] <=>
                        observer_lists_'[u] # Null /\ In(p, List(observer_lists_[u])')
    BY DEF Found
  <2>1. CASE u = t
    <3>1. In(p, new) <=> In(p, list) \/ p = o
      <4>1. ASSUME In(p, new) PROVE In(p, list) \/ p = o
        <5>1. PICK i \in 1 .. Len(new) : new[i] = p
          BY <4>1 DEF In
        <5>2. i \in 1 .. Len(list) \/ i = Len(list) + 1
          BY <1>3, <1>4
        <5>3. QED
          BY <1>4, <5>1, <5>2 DEF In
      <4>2. ASSUME In(p, list) PROVE In(p, new)
        <5>1. PICK i \in 1 .. Len(list) : list[i] = p
          BY <4>2 DEF In
        <5>2. i \in 1 .. Len(new) /\ new[i] = p
          BY <1>3, <1>4, <5>1
        <5>3. QED
          BY <5>2 DEF In
      <4>3. ASSUME p = o PROVE In(p, new)
        <5>1. Len(list) + 1 \in 1 .. Len(new)
          BY <1>3, <1>4
        <5>2. QED
          BY <1>4, <4>3, <5>1 DEF In
      <4>4. QED
        BY <4>1, <4>2, <4>3
    <3>2. List(observer_lists_[t])' = new
      BY <1>1, <1>5 DEF List
    <3>3. p \in registered[t] <=> In(p, list)
      BY <1>1 DEF Found
    <3>4. p \in registered'[t] <=> p \in registered[t] \/ p = o
      BY <1>1 DEF Types
    <3>5. QED
      BY <1>1, <2>1, <3>1, <3>2, <3>3, <3>4
  <2>2. CASE u # t
    <3>1. observer_lists_'[u] = observer_lists_[u] /\ registered'[u] = registered[u]
      BY <1>1, <2>2 DEF Types
    <3>2. CASE observer_lists_[u] # Null
      <4>1. observer_lists_[u] # a /\ observer_lists_[u] \in Addresses
        BY <1>1, <1>2, <2>2, <3>2 DEF Held, Holds, Types
      <4>2. List(observer_lists_[u])' = List(observer_lists_[u])
        BY <1>5, <3>1, <4>1 DEF List
      <4>3. QED
        BY <3>1, <4>2 DEF Found
    <3>3. CASE observer_lists_[u] = Null
      BY <3>1, <3>3 DEF Found
    <3>4. QED
      BY <3>2, <3>3
  <2>3. QED
    BY <2>1, <2>2
<1>13. AllWalks'
  <2> SUFFICES ASSUME NEW u \in Threads, NEW i \in 1 .. Len(frames[u])
               PROVE  Walk(frames[u][i], heap'[frames[u][i].context].observers_, type_)
    BY <1>1 DEF AllWalks, List
  <2>1. /\ frames[u][i] \in FrameFields /\ frames[u][i].context \in Addresses
        /\ Walk(frames[u][i], List(frames[u][i].context), type_)
    BY FrameFacts DEF AllWalks
  <2>2. CASE frames[u][i].context = a
    <3>1. Walk(frames[u][i], new, type_)
      BY <1>3, <2>1, <2>2, WalkAdd DEF new
    <3>2. heap'[a].observers_ = new
      BY <1>1, <1>5 DEF List
    <3>3. QED
      BY <2>2, <3>1, <3>2
  <2>3. CASE frames[u][i].context # a
    BY <1>5, <2>1, <2>3 DEF List
  <2>4. QED
    BY <2>2, <2>3
<1>14. QED
  BY <1>8, <1>9, <1>10, <1>11, <1>12, <1>13

\* The innermost frame is the last of a nonempty stack.
LEMMA TopFacts ==
  ASSUME Types, NEW t \in Threads, frames[t] # <<>>
  PROVE  /\ Len(frames[t]) \in Nat /\ Len(frames[t]) \in 1 .. Len(frames[t])
         /\ Top(t) = frames[t][Len(frames[t])] /\ frames[t] \in Seq(FrameFields)
         /\ Len(frames[t]) <= MaxDepth
<1>1. frames[t] \in Seq(FrameFields) /\ Len(frames[t]) <= MaxDepth
  BY DEF Types
<1>2. QED
  BY <1>1 DEF Top, Last

\* A call of an observer moves the iterator and clears its debt.
LEMMA TellInv ==
  ASSUME Inv, NEW t \in Threads, Tell(t)
  PROVE  Inv'
<1> USE DEF Inv
<1> DEFINE n == Len(frames[t])
           f == frames[t][n]
           list == List(f.context)
           i == NextIndex(f)
           g == [Unowed(f, list[i]) EXCEPT !.index_ = i + 1, !.told = list[i]]
<1>1. /\ n \in 1 .. n /\ n \in Nat /\ Top(t) = f /\ i # 0
      /\ frames[t] \in Seq(FrameFields)
  BY TopFacts DEF Tell
<1>2. /\ frames' = [frames EXCEPT ![t][n] = g]
      /\ UNCHANGED <<observer_lists_, heap, queue, registered, type_, calls, notes>>
  <2>1. frames' = [frames EXCEPT ![t][n] =
          [Unowed(f, list[i]) EXCEPT !.index_ = i + 1, !.told = list[i]]]
    BY <1>1 DEF Tell
  <2>2. QED
    BY <1>1, <2>1 DEF Tell
<1>3. /\ f \in FrameFields /\ f.context \in Addresses /\ heap[f.context] # Null
      /\ list \in Slots /\ Walk(f, list, type_)
  BY <1>1, FrameFacts DEF AllWalks
<1>4. /\ i \in f.index_ .. Bound(f, list) /\ i \in 1 .. Len(list) /\ list[i] \in Observers
      /\ \A k \in f.index_ .. Bound(f, list) : list[k] # Null => i <= k
  BY <1>1, <1>3, NextFacts
<1> HIDE DEF i
<1>5. g \in FrameFields /\ g.context = f.context
  <2>1. i + 1 \in Nat \ {0}
    BY <1>3, <1>4 DEF Slots
  <2>2. QED
    BY <1>3, <1>4, <2>1 DEF FrameFields, Unowed
<1>6. Walk(g, list, type_)
  <2>1. \A j, k \in 1 .. Len(list) : list[j] = list[k] /\ list[j] # Null => j = k
    BY <1>3 DEF Lists, SlotsOf
  <2>2. i >= f.index_ /\ f.owed \subseteq Observers
    BY <1>3, <1>4 DEF FrameFields
  <2> HIDE DEF f, list
  <2>3. QED
    BY <1>3, <1>4, <2>1, <2>2, WalkTell
<1> HIDE DEF g, f
<1>7. /\ frames'[t] = [frames[t] EXCEPT ![n] = g]
      /\ \A u \in Threads : u # t => frames'[u] = frames[u]
      /\ frames' \in [Threads -> Seq(FrameFields)]
  <2>1. [frames[t] EXCEPT ![n] = g] \in Seq(FrameFields)
    BY <1>1, <1>5
  <2>2. QED
    BY <1>2, <2>1 DEF Types
<1>8. /\ Len(frames'[t]) = n /\ frames'[t][n] = g
      /\ \A k \in 1 .. n : k # n => frames'[t][k] = frames[t][k]
  BY <1>1, <1>7
<1>9. SameContexts
  <2>1. ASSUME NEW k \in 1 .. n PROVE frames'[t][k].context = frames[t][k].context
    BY <1>5, <1>8 DEF f
  <2>2. QED
    BY <1>7, <1>8, <2>1 DEF SameContexts
<1>10. \A b : \A u \in Threads : Walked(u, b)' <=> Walked(u, b)
  BY <1>9, SameWalks
<1>11. \A b : Walks(b)' = Walks(b)
  BY <1>9, SameWalks
<1>12. Types'
  BY <1>2, <1>7, <1>8 DEF Types
<1>13. Depths'
  BY <1>2, <1>11 DEF Depths
<1>14. Held'
  BY <1>2, <1>10 DEF Held, Holds
<1>15. Lists'
  BY <1>2 DEF Lists, List
<1>16. Found'
  BY <1>2 DEF Found, List
<1>17. AllWalks'
  <2> SUFFICES ASSUME NEW u \in Threads, NEW k \in 1 .. Len(frames'[u])
               PROVE  Walk(frames'[u][k], heap[frames'[u][k].context].observers_, type_)
    BY <1>2 DEF AllWalks, List
  <2>1. CASE u = t /\ k = n
    BY <1>5, <1>6, <1>8, <2>1 DEF List
  <2>2. CASE ~(u = t /\ k = n)
    <3>1. k \in 1 .. Len(frames[u]) /\ frames'[u][k] = frames[u][k]
      BY <1>7, <1>8, <2>2
    <3>2. QED
      BY <3>1 DEF AllWalks, List
  <2>3. QED
    BY <2>1, <2>2
<1>18. QED
  BY <1>12, <1>13, <1>14, <1>15, <1>16, <1>17

\* NotifyWrapper: a frame on the context that owes all who are there.
LEMMA BeginInv ==
  ASSUME Inv, NEW t \in Threads, Begin(t)
  PROVE  Inv'
<1> USE DEF Inv
<1> DEFINE a == observer_lists_[t]
           n == Len(frames[t])
           list == List(a)
           g == [context |-> a, index_ |-> 1,
                 max_ |-> IF type_ = "NOTIFY_EXISTING_ONLY" THEN Count(a) ELSE Null,
                 owed |-> registered[t], told |-> Null]
<1>1. /\ queue[t] # <<>> /\ n < MaxDepth /\ a = Head(queue[t])
      /\ queue' = [queue EXCEPT ![t] = Tail(@)]
      /\ heap' = [heap EXCEPT ![a].notify_depth_ = @ + 1]
      /\ frames' = [frames EXCEPT ![t] = Append(@, g)]
      /\ UNCHANGED <<observer_lists_, registered, type_, calls, notes>>
  BY DEF Begin, Current
<1>2. queue[t] \in Seq(Addresses) /\ Tail(queue[t]) \in Seq(Addresses) /\ a \in Addresses
  <2>1. queue[t] \in Seq(Addresses)
    BY DEF Types
  <2>2. QED
    BY <1>1, <2>1
<1>3. Holds(t, a) /\ heap[a] # Null /\ a # Null
  BY <1>2, ConstantsAssumption DEF Holds, Held
<1>4. /\ heap[a] \in Contexts /\ list \in Slots /\ Count(a) = Len(list) /\ Len(list) \in Nat
      /\ heap[a].notify_depth_ \in Nat
  BY <1>2, <1>3, ContextFacts DEF Slots, Count
<1>5. /\ heap'[a] \in Contexts /\ heap'[a] # Null
      /\ heap'[a].observers_ = list /\ heap'[a].notify_depth_ = heap[a].notify_depth_ + 1
      /\ \A b \in Addresses : b # a => heap'[b] = heap[b]
  <2>1. heap'[a] = [heap[a] EXCEPT !.notify_depth_ = @ + 1]
    BY <1>1, <1>2 DEF Types
  <2>2. /\ heap'[a].observers_ = list
        /\ heap'[a].notify_depth_ = heap[a].notify_depth_ + 1
    BY <1>4, <2>1 DEF Contexts, List
  <2>3. heap'[a] \in Contexts
    BY <1>4, <2>1 DEF Contexts
  <2>4. heap'[a] # Null
    BY <2>3, ConstantsAssumption DEF Contexts
  <2>5. QED
    BY <1>1, <1>2, <2>2, <2>3, <2>4 DEF Types
<1>6. g \in FrameFields
  BY <1>2, <1>4 DEF FrameFields, Types
<1>7. Walk(g, list, type_)
  <2>1. /\ g.index_ = 1 /\ g.owed = registered[t]
        /\ g.max_ = IF type_ = "NOTIFY_EXISTING_ONLY" THEN Len(list) ELSE Null
    BY <1>4
  <2>2. Bound(g, list) = Len(list)
    BY <1>4, <2>1 DEF Bound
  <2> HIDE DEF g
  <2>3. \A o \in Observers : o \in registered[t] <=> In(o, list)
    BY <1>3 DEF Found
  <2>4. \A o \in g.owed : \E k \in g.index_ .. Bound(g, list) : list[k] = o
    BY <2>1, <2>2, <2>3 DEF In, Types
  <2>5. ASSUME type_ = "NOTIFY_EXISTING_ONLY"
        PROVE  /\ g.max_ \in Nat /\ g.max_ <= Len(list)
               /\ \A k \in g.index_ .. g.max_ : list[k] # Null => list[k] \in g.owed
    <3>1. g.max_ = Len(list)
      BY <2>1, <2>5
    <3>2. ASSUME NEW k \in 1 .. Len(list), list[k] # Null PROVE list[k] \in registered[t]
      <4>1. list[k] \in Observers /\ In(list[k], list)
        BY <1>4, <3>2 DEF Slots, In
      <4>2. QED
        BY <2>3, <4>1
    <3>3. QED
      BY <1>4, <2>1, <3>1, <3>2
  <2>6. QED
    BY <2>4, <2>5 DEF Walk
<1>8. g.context = a
  OBVIOUS
<1> HIDE DEF g
<1>9. n \in Nat /\ frames[t] \in Seq(FrameFields)
  BY DEF Types
<1>10. /\ frames'[t] \in Seq(FrameFields)
       /\ Len(frames'[t]) = n + 1 /\ frames'[t][n + 1] = g
       /\ \A k \in 1 .. n : frames'[t][k] = frames[t][k]
       /\ \A u \in Threads : u # t => frames'[u] = frames[u]
  BY <1>1, <1>6, <1>9 DEF Types
<1>11. \A u \in Threads, b \in Addresses :
         Walked(u, b)' <=> Walked(u, b) \/ (u = t /\ b = a)
  <2> SUFFICES ASSUME NEW u \in Threads, NEW b \in Addresses
               PROVE  Walked(u, b)' <=> Walked(u, b) \/ (u = t /\ b = a)
    OBVIOUS
  <2>1. CASE u # t
    BY <1>10, <2>1 DEF Walked
  <2>2. CASE u = t
    <3>1. 1 .. Len(frames'[t]) = (1 .. n) \cup {n + 1}
      BY <1>9, <1>10
    <3>2. QED
      BY <1>8, <1>10, <2>2, <3>1 DEF Walked
  <2>3. QED
    BY <2>1, <2>2
<1>12. ASSUME NEW b \in Addresses
       PROVE  Walks(b)' = IF b = a THEN Walks(b) \cup {<<t, n + 1>>} ELSE Walks(b)
  <2>1. ASSUME NEW u \in Threads, NEW k \in 1 .. MaxDepth
        PROVE  (k <= Len(frames'[u]) /\ frames'[u][k].context = b)
                 <=> \/ k <= Len(frames[u]) /\ frames[u][k].context = b
                     \/ b = a /\ u = t /\ k = n + 1
    <3>1. CASE u # t
      BY <1>10, <3>1
    <3>2. CASE u = t /\ k = n + 1
      BY <1>8, <1>9, <1>10, <3>2
    <3>3. CASE u = t /\ k # n + 1
      <4>1. k <= n + 1 <=> k <= n
        BY <1>9, <3>3, ConstantsAssumption
      <4>2. k <= n => frames'[t][k] = frames[t][k]
        BY <1>9, <1>10, ConstantsAssumption
      <4>3. QED
        BY <1>10, <3>3, <4>1, <4>2
    <3>4. QED
      BY <3>1, <3>2, <3>3
  <2>2. n + 1 \in 1 .. MaxDepth
    BY <1>1, <1>9, ConstantsAssumption
  <2>3. ASSUME NEW p
        PROVE  p \in Walks(b)' <=> p \in Walks(b) \/ (b = a /\ p = <<t, n + 1>>)
    <3>1. CASE p \in Threads \X (1 .. MaxDepth)
      <4>1. p[1] \in Threads /\ p[2] \in 1 .. MaxDepth /\ p = <<p[1], p[2]>>
        BY <3>1
      <4>2. p = <<t, n + 1>> <=> p[1] = t /\ p[2] = n + 1
        BY <4>1
      <4>3. QED
        BY <2>1, <3>1, <4>1, <4>2 DEF Walks
    <3>2. CASE p \notin Threads \X (1 .. MaxDepth)
      BY <2>2, <3>2 DEF Walks
    <3>3. QED
      BY <3>1, <3>2
  <2>4. QED
    BY <2>3
<1>13. <<t, n + 1>> \notin Walks(a)
  BY <1>9 DEF Walks
<1>14. \A b \in Addresses : heap'[b] # Null <=> heap[b] # Null
  BY <1>3, <1>5
<1>15. Types'
  <2>1. heap' \in [Addresses -> Contexts \cup {Null}]
    BY <1>1, <1>5 DEF Types
  <2>2. frames' \in [Threads -> Seq(FrameFields)]
    BY <1>1, <1>10 DEF Types
  <2>3. \A u \in Threads : Len(frames'[u]) <= MaxDepth
    BY <1>1, <1>9, <1>10, ConstantsAssumption DEF Types
  <2>4. QED
    BY <1>1, <1>2, <2>1, <2>2, <2>3 DEF Types
<1>16. Depths'
  <2> SUFFICES ASSUME NEW b \in Addresses, heap'[b] # Null
               PROVE  IsFiniteSet(Walks(b)') /\ heap'[b].notify_depth_ = Cardinality(Walks(b)')
    BY DEF Depths
  <2>1. IsFiniteSet(Walks(b)) /\ heap[b].notify_depth_ = Cardinality(Walks(b))
    BY <1>14 DEF Depths
  <2>2. CASE b = a
    <3>1. Walks(b)' = Walks(b) \cup {<<t, n + 1>>}
      BY <1>12, <2>2
    <3>2. /\ IsFiniteSet(Walks(b) \cup {<<t, n + 1>>})
          /\ Cardinality(Walks(b) \cup {<<t, n + 1>>}) = Cardinality(Walks(b)) + 1
      BY <1>13, <2>1, <2>2, FS_AddElement
    <3>3. QED
      BY <1>5, <2>1, <2>2, <3>1, <3>2
  <2>3. CASE b # a
    BY <1>5, <1>12, <2>1, <2>3
  <2>4. QED
    BY <2>2, <2>3
<1>17. Held'
  <2>1. \A u \in Threads, b \in Addresses : Holds(u, b)' <=> Holds(u, b)
    BY <1>1, <1>11 DEF Holds
  <2>2. QED
    BY <1>14, <2>1 DEF Held
<1>18. Lists'
  <2> SUFFICES ASSUME NEW b \in Addresses, heap'[b] # Null
               PROVE  /\ SlotsOf(heap'[b].observers_)
                      /\ heap'[b].notify_depth_ = 0 => Clean(heap'[b].observers_)
                      /\ (\A u \in Threads : observer_lists_[u] # b)
                           => Cleared(heap'[b].observers_)
    BY <1>1 DEF Lists, List
  <2>1. CASE b = a
    BY <1>3, <1>4, <1>5, <2>1 DEF Lists
  <2>2. CASE b # a
    BY <1>5, <1>14, <2>2 DEF Lists, List
  <2>3. QED
    BY <2>1, <2>2
<1>19. Found'
  <2>1. \A b \in Addresses : List(b)' = List(b)
    BY <1>5 DEF List
  <2>2. QED
    BY <1>1, <2>1 DEF Found, Types
<1>20. AllWalks'
  <2> SUFFICES ASSUME NEW u \in Threads, NEW k \in 1 .. Len(frames'[u])
               PROVE  Walk(frames'[u][k], heap'[frames'[u][k].context].observers_, type_)
    BY <1>1 DEF AllWalks, List
  <2>1. CASE u = t /\ k = n + 1
    BY <1>5, <1>7, <1>8, <1>10, <2>1
  <2>2. CASE ~(u = t /\ k = n + 1)
    <3>1. k \in 1 .. Len(frames[u]) /\ frames'[u][k] = frames[u][k]
      BY <1>9, <1>10, <2>2
    <3>2. frames[u][k].context \in Addresses
      BY <3>1, FrameFacts
    <3>3. heap'[frames[u][k].context].observers_ = heap[frames[u][k].context].observers_
      BY <1>5, <3>2 DEF List
    <3>4. QED
      BY <3>1, <3>3 DEF AllWalks, List
  <2>3. QED
    BY <2>1, <2>2
<1>21. QED
  BY <1>15, <1>16, <1>17, <1>18, <1>19, <1>20

\* A pair among the walks is a frame on the context, and the other way round.
LEMMA WalkedBy ==
  ASSUME Types, NEW a
  PROVE  /\ \A t \in Threads : \A i \in 1 .. Len(frames[t]) :
              frames[t][i].context = a => <<t, i>> \in Walks(a)
         /\ \A p \in Walks(a) : /\ p[1] \in Threads /\ p[2] \in 1 .. Len(frames[p[1]])
                              /\ p = <<p[1], p[2]>> /\ frames[p[1]][p[2]].context = a
                              /\ Walked(p[1], a)
<1>1. ASSUME NEW t \in Threads, NEW i \in 1 .. Len(frames[t]), frames[t][i].context = a
      PROVE  <<t, i>> \in Walks(a)
  <2>1. i \in 1 .. MaxDepth /\ i <= Len(frames[t])
    BY ConstantsAssumption DEF Types
  <2>2. QED
    BY <1>1, <2>1 DEF Walks
<1>2. ASSUME NEW p \in Walks(a)
      PROVE  /\ p[1] \in Threads /\ p[2] \in 1 .. Len(frames[p[1]])
             /\ p = <<p[1], p[2]>> /\ frames[p[1]][p[2]].context = a
             /\ Walked(p[1], a)
  <2>1. p[1] \in Threads /\ p[2] \in 1 .. MaxDepth /\ p = <<p[1], p[2]>>
    BY DEF Walks
  <2>2. p[2] <= Len(frames[p[1]]) /\ frames[p[1]][p[2]].context = a
    BY DEF Walks
  <2>3. p[2] \in 1 .. Len(frames[p[1]])
    BY <2>1, <2>2, ConstantsAssumption DEF Types
  <2>4. QED
    BY <2>1, <2>2, <2>3 DEF Walked
<1>3. QED
  BY <1>1, <1>2

\* The end of a notification: the last one compacts the list, or deletes it.
LEMMA EndInv ==
  ASSUME Inv, NEW t \in Threads, End(t)
  PROVE  Inv'
<1> USE DEF Inv
<1> DEFINE n == Len(frames[t])
           f == frames[t][n]
<1>1. /\ n \in 1 .. n /\ n \in Nat /\ Top(t) = f /\ frames[t] \in Seq(FrameFields)
  BY TopFacts DEF End
<1> PICK a \in Addresses : a = f.context
  BY <1>1, FrameFacts
<1> DEFINE list == List(a)
           d == heap[a].notify_depth_
           context == Leave(heap[a])
           gone == context.observers_ = <<>>
<1>2. /\ frames' = [frames EXCEPT ![t] = Front(@)]
      /\ heap' = [heap EXCEPT ![a] = IF gone THEN Null ELSE context]
      /\ observer_lists_' = IF gone /\ observer_lists_[t] = a
                            THEN [observer_lists_ EXCEPT ![t] = Null] ELSE observer_lists_
      /\ UNCHANGED <<queue, registered, type_, calls, notes>>
  BY <1>1 DEF End, Current
<1>3. a \in Addresses /\ Walked(t, a) /\ heap[a] # Null /\ list \in Slots /\ f \in FrameFields
  BY <1>1, FrameFacts
<1>4. heap[a] \in Contexts /\ d \in Nat /\ Len(list) \in Nat /\ Count(a) = Len(list)
  BY <1>3, ContextFacts DEF Count
<1>5. /\ IsFiniteSet(Walks(a)) /\ d = Cardinality(Walks(a)) /\ <<t, n>> \in Walks(a)
  BY <1>1, <1>3, WalkedBy DEF Depths
<1>6. d # 0
  BY <1>3, DepthFacts
<1>7. /\ context \in Contexts /\ context # Null /\ context.notify_depth_ = d - 1
      /\ context.observers_ = IF d = 1 THEN Erased(list, Null) ELSE list
  <2> DEFINE left == [heap[a] EXCEPT !.notify_depth_ = @ - 1]
  <2>1. left \in Contexts /\ left.notify_depth_ = d - 1 /\ left.observers_ = list
    BY <1>4, <1>6 DEF Contexts, List
  <2>2. context = IF left.notify_depth_ = 0 THEN Compact(left) ELSE left
    BY DEF Leave
  <2> HIDE DEF left, context
  <2>3. CASE d = 1
    <3>1. context = [left EXCEPT !.observers_ = Erased(left.observers_, Null)]
      BY <2>1, <2>2, <2>3 DEF Compact
    <3>2. Erased(list, Null) \in Slots
      BY <1>3, ErasedFacts DEF Slots
    <3>3. /\ context \in Contexts /\ context.notify_depth_ = d - 1
          /\ context.observers_ = Erased(list, Null)
      BY <2>1, <3>1, <3>2 DEF Contexts, Slots
    <3>4. QED
      BY <2>3, <3>3, ConstantsAssumption DEF Contexts
  <2>4. CASE d # 1
    <3>1. context = left
      BY <1>4, <2>1, <2>2, <2>4
    <3>2. QED
      BY <2>1, <2>4, <3>1, ConstantsAssumption DEF Contexts
  <2>5. QED
    BY <2>3, <2>4
<1> HIDE DEF context
<1>8. /\ SlotsOf(list)
      /\ (\A u \in Threads : observer_lists_[u] # a) => Cleared(list)
  BY <1>3 DEF Lists
<1>9. gone => d = 1 /\ Cleared(list)
  <2>1. list # <<>>
    BY <1>8 DEF SlotsOf
  <2>2. Erased(list, Null) = <<>> => Cleared(list)
    BY <1>3, ErasedFacts DEF Slots, Cleared
  <2>3. QED
    BY <1>7, <2>1, <2>2
<1>10. d = 1 /\ Cleared(list) => gone
  BY <1>3, <1>7, ErasedFacts DEF Slots, Cleared
<1>11. SlotsOf(context.observers_) \/ gone
  <2>1. CASE d = 1
    <3>1. \A i, j \in 1 .. Len(list) : list[i] = list[j] /\ list[i] # Null => i = j
      BY <1>8 DEF SlotsOf
    <3>2. \A i, j \in 1 .. Len(Erased(list, Null)) :
            Erased(list, Null)[i] = Erased(list, Null)[j] => i = j
      BY <1>3, <3>1, ErasedFacts DEF Slots
    <3>3. QED
      BY <1>7, <2>1, <3>2 DEF SlotsOf
  <2>2. CASE d # 1
    BY <1>7, <1>8, <2>2
  <2>3. QED
    BY <2>1, <2>2
<1>12. d = 1 => Clean(context.observers_)
  <2>1. ~In(Null, Erased(list, Null))
    BY <1>3, ErasedFacts DEF Slots
  <2>2. QED
    BY <1>7, <2>1 DEF In, Clean
<1>13. \A o \in Observers : In(o, context.observers_) <=> In(o, list)
  <2>1. \A o \in Observers : In(o, Erased(list, Null)) <=> In(o, list)
    BY <1>3, ErasedFacts, ConstantsAssumption DEF Slots
  <2>2. QED
    BY <1>7, <2>1
<1>14. /\ heap'[a] = IF gone THEN Null ELSE context
       /\ \A b \in Addresses : b # a => heap'[b] = heap[b]
       /\ heap' \in [Addresses -> Contexts \cup {Null}]
  BY <1>2, <1>3, <1>7 DEF Types
<1>15. /\ frames'[t] \in Seq(FrameFields) /\ Len(frames'[t]) = n - 1
       /\ \A k \in 1 .. n - 1 : frames'[t][k] = frames[t][k]
       /\ \A u \in Threads : u # t => frames'[u] = frames[u]
  <2>1. frames'[t] = SubSeq(frames[t], 1, n - 1)
    BY <1>2 DEF Front, Types
  <2>2. /\ SubSeq(frames[t], 1, n - 1) \in Seq(FrameFields)
        /\ Len(SubSeq(frames[t], 1, n - 1)) = n - 1
        /\ \A k \in 1 .. n - 1 : SubSeq(frames[t], 1, n - 1)[k] = frames[t][k]
    BY <1>1
  <2>3. \A u \in Threads : u # t => frames'[u] = frames[u]
    BY <1>2 DEF Types
  <2>4. QED
    BY <2>1, <2>2, <2>3
<1>16. Types'
  <2>1. observer_lists_' \in [Threads -> Addresses \cup {Null}]
    BY <1>2 DEF Types
  <2>2. frames' \in [Threads -> Seq(FrameFields)]
    BY <1>2, <1>15 DEF Types
  <2>3. \A u \in Threads : Len(frames'[u]) <= MaxDepth
    <3>1. n <= MaxDepth
      BY DEF Types
    <3>2. n - 1 <= MaxDepth
      BY <1>1, <3>1, ConstantsAssumption
    <3>3. QED
      BY <1>15, <3>2 DEF Types
  <2>4. QED
    BY <1>2, <1>14, <2>1, <2>2, <2>3 DEF Types
<1>17. ASSUME NEW b \in Addresses
       PROVE  Walks(b)' = IF b = a THEN Walks(b) \ {<<t, n>>} ELSE Walks(b)
  <2>1. ASSUME NEW u \in Threads, NEW k \in 1 .. MaxDepth
        PROVE  (k <= Len(frames'[u]) /\ frames'[u][k].context = b)
                 <=> /\ k <= Len(frames[u]) /\ frames[u][k].context = b
                     /\ ~(u = t /\ k = n)
    <3>1. CASE u # t
      BY <1>15, <3>1
    <3>2. CASE u = t /\ k = n
      BY <1>1, <1>15, <3>2
    <3>3. CASE u = t /\ k # n
      <4>1. k <= n - 1 <=> k <= n
        BY <1>1, <3>3, ConstantsAssumption
      <4>2. k <= n - 1 => frames'[t][k] = frames[t][k]
        BY <1>1, <1>15, ConstantsAssumption
      <4>3. QED
        BY <1>15, <3>3, <4>1, <4>2
    <3>4. QED
      BY <3>1, <3>2, <3>3
  <2>2. ASSUME NEW p
        PROVE  p \in Walks(b)' <=> p \in Walks(b) /\ ~(b = a /\ p = <<t, n>>)
    <3>1. CASE p \in Threads \X (1 .. MaxDepth)
      <4>1. p[1] \in Threads /\ p[2] \in 1 .. MaxDepth /\ p = <<p[1], p[2]>>
        BY <3>1
      <4>2. p = <<t, n>> <=> p[1] = t /\ p[2] = n
        BY <4>1
      <4>3. p = <<t, n>> /\ p \in Walks(b) => b = a
        BY <4>2 DEF Walks
      <4>4. QED
        BY <2>1, <3>1, <4>1, <4>2, <4>3 DEF Walks
    <3>2. CASE p \notin Threads \X (1 .. MaxDepth)
      BY <3>2 DEF Walks
    <3>3. QED
      BY <3>1, <3>2
  <2>3. QED
    BY <2>2
<1>18. IsFiniteSet(Walks(a)') /\ Cardinality(Walks(a)') = d - 1
  <2>1. Walks(a)' = Walks(a) \ {<<t, n>>}
    BY <1>3, <1>17
  <2>2. /\ IsFiniteSet(Walks(a) \ {<<t, n>>})
        /\ Cardinality(Walks(a) \ {<<t, n>>}) = Cardinality(Walks(a)) - 1
    BY <1>5, FS_RemoveElement
  <2>3. QED
    BY <1>5, <2>1, <2>2
<1>19. \A u \in Threads, b \in Addresses :
         /\ Walked(u, b)' => Walked(u, b)
         /\ b # a => (Walked(u, b)' <=> Walked(u, b))
  <2> SUFFICES ASSUME NEW u \in Threads, NEW b \in Addresses
               PROVE  /\ Walked(u, b)' => Walked(u, b)
                      /\ b # a => (Walked(u, b)' <=> Walked(u, b))
    OBVIOUS
  <2>1. CASE u # t
    BY <1>15, <2>1 DEF Walked
  <2>2. CASE u = t
    <3>1. 1 .. n = (1 .. n - 1) \cup {n} /\ n \notin 1 .. n - 1
      BY <1>1
    <3>2. Walked(t, b)' <=> \E k \in 1 .. n - 1 : frames[t][k].context = b
      BY <1>15 DEF Walked
    <3>3. Walked(t, b) <=> \E k \in 1 .. n : frames[t][k].context = b
      BY DEF Walked
    <3>4. b # a => frames[t][n].context # b
      OBVIOUS
    <3>5. QED
      BY <2>2, <3>1, <3>2, <3>3, <3>4
  <2>3. QED
    BY <2>1, <2>2
<1>20. d = 1 => \A u \in Threads : ~Walked(u, a)'
  <2>1. d = 1 => Walks(a)' = {}
    BY <1>18, FS_EmptySet
  <2>2. ASSUME d = 1, NEW u \in Threads, Walked(u, a)' PROVE FALSE
    <3>1. PICK k \in 1 .. Len(frames'[u]) : frames'[u][k].context = a
      BY <2>2 DEF Walked
    <3>2. k \in 1 .. MaxDepth /\ k <= Len(frames'[u])
      BY <1>16, ConstantsAssumption DEF Types
    <3>3. <<u, k>> \in Walks(a)'
      BY <3>1, <3>2 DEF Walks
    <3>4. QED
      BY <2>1, <2>2, <3>3
  <2>3. QED
    BY <2>2
<1>21. d # 1 => Walked(t, a)'
  <2>1. d # 1 => Walks(a)' # {}
    BY <1>4, <1>6, <1>18, FS_EmptySet
  <2>2. ASSUME d # 1 PROVE Walked(t, a)'
    <3>1. PICK p : p \in Walks(a)'
      BY <2>1, <2>2
    <3>2. p[1] \in Threads /\ p[2] \in 1 .. MaxDepth
      BY <3>1 DEF Walks
    <3>3. p[2] <= Len(frames'[p[1]]) /\ frames'[p[1]][p[2]].context = a
      BY <3>1 DEF Walks
    <3>4. p[2] \in 1 .. Len(frames'[p[1]])
      BY <1>16, <3>2, <3>3, ConstantsAssumption DEF Types
    <3>5. Walked(p[1], a)'
      BY <3>3, <3>4 DEF Walked
    <3>6. p[1] = t
      BY <1>3, <1>19, <3>2, <3>5 DEF Held, Holds
    <3>7. QED
      BY <3>5, <3>6
  <2>3. QED
    BY <2>2
<1>22. \A u \in Threads : Holds(u, a) => u = t
  BY <1>3 DEF Held, Holds
<1>23. /\ ~gone => observer_lists_' = observer_lists_
       /\ \A u \in Threads, b \in Addresses :
            /\ gone => observer_lists_'[u] # a
            /\ b # a => (observer_lists_'[u] = b <=> observer_lists_[u] = b)
            /\ observer_lists_[u] # a => observer_lists_'[u] = observer_lists_[u]
  <2>1. \A u \in Threads : observer_lists_[u] = a => u = t
    BY <1>22 DEF Holds
  <2>2. a # Null /\ \A b \in Addresses : b # Null
    BY ConstantsAssumption
  <2>3. CASE gone /\ observer_lists_[t] = a
    <3>1. observer_lists_'[t] = Null /\ \A u \in Threads : u # t => observer_lists_'[u] = observer_lists_[u]
      BY <1>2, <2>3 DEF Types
    <3>2. QED
      BY <2>1, <2>2, <2>3, <3>1
  <2>4. CASE ~(gone /\ observer_lists_[t] = a)
    <3>1. observer_lists_' = observer_lists_
      BY <1>2, <2>4
    <3>2. QED
      BY <2>1, <2>4, <3>1
  <2>5. QED
    BY <2>3, <2>4
<1>24. Depths'
  <2> SUFFICES ASSUME NEW b \in Addresses, heap'[b] # Null
               PROVE  IsFiniteSet(Walks(b)') /\ heap'[b].notify_depth_ = Cardinality(Walks(b)')
    BY DEF Depths
  <2>1. CASE b = a
    BY <1>7, <1>14, <1>18, <2>1
  <2>2. CASE b # a
    BY <1>14, <1>17, <2>2 DEF Depths
  <2>3. QED
    BY <2>1, <2>2
<1>25. Held'
  <2>1. \A u \in Threads, b \in Addresses : b # a => (Holds(u, b)' <=> Holds(u, b))
    BY <1>19, <1>23 DEF Holds
  <2>2. \A u \in Threads : Holds(u, a)' => Holds(u, a)
    BY <1>19, <1>23 DEF Holds
  <2>3. gone => \A u \in Threads : ~Holds(u, a)'
    BY <1>9, <1>20, <1>23 DEF Holds
  <2>4. ~gone => \E u \in Threads : Holds(u, a)'
    <3>1. CASE d = 1
      BY <1>8, <1>10, <1>23, <3>1 DEF Holds
    <3>2. CASE d # 1
      BY <1>21, <3>2 DEF Holds
    <3>3. QED
      BY <3>1, <3>2
  <2>5. \A b \in Addresses : heap'[b] # Null <=> \E u \in Threads : Holds(u, b)'
    <3> SUFFICES ASSUME NEW b \in Addresses
                 PROVE  heap'[b] # Null <=> \E u \in Threads : Holds(u, b)'
      OBVIOUS
    <3>1. CASE b = a
      BY <1>7, <1>14, <2>3, <2>4, <3>1
    <3>2. CASE b # a
      BY <1>14, <2>1, <3>2 DEF Held
    <3>3. QED
      BY <3>1, <3>2
  <2>6. \A b \in Addresses, u, v \in Threads : Holds(u, b)' /\ Holds(v, b)' => u = v
    BY <2>1, <2>2 DEF Held
  <2>7. QED
    BY <2>5, <2>6 DEF Held
<1>26. Lists'
  <2> SUFFICES ASSUME NEW b \in Addresses, heap'[b] # Null
               PROVE  /\ SlotsOf(heap'[b].observers_)
                      /\ heap'[b].notify_depth_ = 0 => Clean(heap'[b].observers_)
                      /\ (\A u \in Threads : observer_lists_'[u] # b)
                           => Cleared(heap'[b].observers_)
    BY DEF Lists, List
  <2>1. CASE b = a
    <3>1. ~gone /\ heap'[a] = context
      BY <1>14, <2>1
    <3>2. d - 1 = 0 => d = 1
      BY <1>4
    <3>3. (\A u \in Threads : observer_lists_'[u] # a) => Cleared(context.observers_)
      BY <1>7, <1>8, <1>10, <1>23, <3>1
    <3>4. QED
      BY <1>7, <1>11, <1>12, <2>1, <3>1, <3>2, <3>3
  <2>2. CASE b # a
    <3>1. heap'[b] = heap[b] /\ heap[b] # Null
      BY <1>14, <2>2
    <3>2. (\A u \in Threads : observer_lists_'[u] # b) => \A u \in Threads : observer_lists_[u] # b
      BY <1>23, <2>2
    <3>3. QED
      BY <3>1, <3>2 DEF Lists, List
  <2>3. QED
    BY <2>1, <2>2
<1>27. Found'
  <2> SUFFICES ASSUME NEW u \in Threads, NEW o \in Observers
               PROVE  o \in registered[u] <=>
                        observer_lists_'[u] # Null /\ In(o, heap'[observer_lists_'[u]].observers_)
    BY <1>2 DEF Found, List
  <2>1. CASE observer_lists_[u] = a
    <3>1. o \in registered[u] <=> In(o, list)
      BY <2>1, ConstantsAssumption DEF Found
    <3>2. CASE gone
      <4>1. u = t /\ observer_lists_[t] = a
        BY <1>22, <2>1 DEF Holds
      <4>2. observer_lists_'[u] = Null
        BY <1>2, <3>2, <4>1 DEF Types
      <4>3. ~In(o, list)
        BY <1>9, <3>2, ConstantsAssumption DEF In, Cleared
      <4>4. QED
        BY <3>1, <4>2, <4>3
    <3>3. CASE ~gone
      BY <1>13, <1>14, <1>23, <2>1, <3>1, <3>3, ConstantsAssumption
    <3>4. QED
      BY <3>2, <3>3
  <2>2. CASE observer_lists_[u] # a
    <3>1. observer_lists_'[u] = observer_lists_[u]
      BY <1>23, <2>2
    <3>2. CASE observer_lists_[u] = Null
      BY <3>1, <3>2 DEF Found
    <3>3. CASE observer_lists_[u] # Null
      <4>1. heap'[observer_lists_[u]] = heap[observer_lists_[u]]
        BY <1>14, <2>2, <3>3 DEF Types
      <4>2. QED
        BY <3>1, <4>1 DEF Found, List
    <3>4. QED
      BY <3>2, <3>3
  <2>3. QED
    BY <2>1, <2>2
<1>28. AllWalks'
  <2> SUFFICES ASSUME NEW u \in Threads, NEW k \in 1 .. Len(frames'[u])
               PROVE  Walk(frames'[u][k], heap'[frames'[u][k].context].observers_, type_)
    BY <1>2 DEF AllWalks, List
  <2>1. k \in 1 .. Len(frames[u]) /\ frames'[u][k] = frames[u][k]
    BY <1>1, <1>15
  <2>2. /\ frames[u][k].context \in Addresses
        /\ Walk(frames[u][k], heap[frames[u][k].context].observers_, type_)
    BY <2>1, FrameFacts DEF AllWalks, List
  <2>3. CASE frames[u][k].context = a
    <3>1. Walked(u, a)'
      BY <2>1, <2>3 DEF Walked
    <3>2. d # 1
      BY <1>20, <3>1
    <3>3. heap'[a].observers_ = heap[a].observers_
      BY <1>7, <1>9, <1>14, <3>2 DEF List
    <3>4. QED
      BY <2>1, <2>2, <2>3, <3>3
  <2>4. CASE frames[u][k].context # a
    BY <1>14, <2>1, <2>2, <2>4
  <2>5. QED
    BY <2>3, <2>4
<1>29. QED
  BY <1>16, <1>24, <1>25, <1>26, <1>27, <1>28

\* Two different slots need a list of two at least.
LEMMA TwoSlots ==
  ASSUME NEW n \in Nat, n # 0, n # 1
  PROVE  1 \in 1 .. n /\ 2 \in 1 .. n
OBVIOUS

\* RemoveObserver: at the depth of 0 the slot goes, and the context if it was the last.
LEMMA RemoveObserverInv ==
  ASSUME Inv, NEW t \in Threads, NEW o \in Observers, RemoveObserver(t, o)
  PROVE  Inv'
<1> USE DEF Inv
<1>1. observer_lists_[t] # Null
  BY DEF RemoveObserver
<1> PICK a \in Addresses : a = observer_lists_[t]
  BY <1>1 DEF Types
<1> DEFINE list == List(a)
           d == heap[a].notify_depth_
           context == Without(heap[a], o)
           new == context.observers_
           gone == new = <<>>
<1>2. /\ calls < MaxCalls /\ calls' = calls + 1
      /\ observer_lists_' = IF LastOne(a, o) THEN [observer_lists_ EXCEPT ![t] = Null]
                            ELSE observer_lists_
      /\ heap' = [heap EXCEPT ![a] = IF gone THEN Null ELSE context]
      /\ registered' = [registered EXCEPT ![t] = @ \ {o}]
      /\ frames' = [frames EXCEPT ![t] = [i \in DOMAIN @ |-> Unowed(@[i], o)]]
      /\ UNCHANGED <<queue, type_, notes>>
  BY DEF RemoveObserver, Call, Emptied
<1>3. Holds(t, a) /\ heap[a] # Null /\ a # Null /\ o # Null
  BY ConstantsAssumption DEF Holds, Held
<1>4. /\ heap[a] \in Contexts /\ d \in Nat /\ list \in Slots /\ Len(list) \in Nat
      /\ Count(a) = Len(list) /\ \A i \in 1 .. Len(list) : list[i] \in Observers \cup {Null}
  BY <1>3, ContextFacts DEF Count, Slots
<1>5. SlotsOf(list) /\ list # <<>> /\ (d = 0 => Clean(list))
  BY <1>3 DEF Lists, SlotsOf
<1>6. d = 0 <=> \A u \in Threads : ~Walked(u, a)
  BY <1>3, DepthFacts
<1>7. LastOne(a, o) <=> Len(list) = 1 /\ list[1] = o
  <2>1. LastOne(a, o) <=> Len(list) = 1 /\ \E i \in 1 .. Len(list) : list[i] = o
    BY <1>4 DEF LastOne, Range, Slots
  <2>2. QED
    BY <1>4, <2>1
<1>8. /\ context \in Contexts /\ context # Null /\ context.notify_depth_ = d /\ new \in Slots
      /\ d > 0 => /\ Len(new) = Len(list)
                  /\ \A k \in 1 .. Len(list) : new[k] = IF list[k] = o THEN Null ELSE list[k]
      /\ d = 0 => new = Erased(list, o)
  <2> DEFINE cleared == [i \in DOMAIN list |-> IF list[i] = o THEN Null ELSE list[i]]
  <2>1. /\ cleared \in Slots /\ Len(cleared) = Len(list)
        /\ \A k \in 1 .. Len(list) : cleared[k] = IF list[k] = o THEN Null ELSE list[k]
    <3>1. DOMAIN list = 1 .. Len(list)
      BY <1>4 DEF Slots
    <3>2. QED
      BY <1>4, <3>1 DEF Slots
  <2>2. Erased(list, o) \in Slots
    BY <1>4, ErasedFacts DEF Slots
  <2>3. context = [heap[a] EXCEPT !.observers_ = IF d > 0 THEN cleared ELSE Erased(list, o)]
    BY <1>4 DEF Without, List, Contexts
  <2> HIDE DEF cleared, context
  <2>4. /\ context \in Contexts /\ context.notify_depth_ = d
        /\ new = IF d > 0 THEN cleared ELSE Erased(list, o)
    BY <1>4, <2>1, <2>2, <2>3 DEF Contexts, Slots
  <2>5. context # Null
    BY <2>4, ConstantsAssumption DEF Contexts
  <2>6. QED
    BY <1>4, <2>1, <2>2, <2>4, <2>5
<1> HIDE DEF context
<1>9. \A p \in Observers : In(p, new) <=> In(p, list) /\ p # o
  <2>1. CASE d = 0
    BY <1>4, <1>8, <2>1, ErasedFacts DEF Slots
  <2>2. CASE d > 0
    <3> SUFFICES ASSUME NEW p \in Observers
                 PROVE  In(p, new) <=> In(p, list) /\ p # o
      OBVIOUS
    <3>1. p # Null
      BY ConstantsAssumption
    <3>2. QED
      BY <1>3, <1>8, <2>2, <3>1 DEF In
  <2>3. QED
    BY <1>4, <2>1, <2>2
<1>10. gone <=> d = 0 /\ LastOne(a, o)
  <2>1. CASE d > 0
    <3>1. Len(new) # 0
      BY <1>4, <1>5, <1>8, <2>1 DEF Slots
    <3>2. QED
      BY <1>4, <2>1, <3>1
  <2>2. CASE d = 0
    <3>1. gone <=> \A i \in 1 .. Len(list) : list[i] = o
      BY <1>4, <1>8, <2>2, ErasedFacts DEF Slots
    <3>2. (\A i \in 1 .. Len(list) : list[i] = o) => Len(list) = 1
      <4> PICK m \in Nat : m = Len(list)
        BY <1>4
      <4>1. m # 0
        BY <1>4, <1>5 DEF Slots
      <4>2. m # 1 => 1 \in 1 .. m /\ 2 \in 1 .. m
        BY <4>1, TwoSlots
      <4>3. ASSUME Len(list) # 1, \A i \in 1 .. Len(list) : list[i] = o PROVE FALSE
        <5>1. list[1] = list[2] /\ list[1] # Null
          BY <1>3, <4>2, <4>3
        <5>2. QED
          BY <1>5, <4>2, <4>3, <5>1 DEF SlotsOf
      <4>4. QED
        BY <4>3
    <3>3. QED
      BY <1>4, <1>7, <2>2, <3>1, <3>2
  <2>3. QED
    BY <1>4, <2>1, <2>2
<1>11. ~gone => SlotsOf(new) /\ (d = 0 => Clean(new))
  <2>1. \A i, j \in 1 .. Len(list) : list[i] = list[j] /\ list[i] # Null => i = j
    BY <1>5 DEF SlotsOf
  <2>2. CASE d = 0
    <3>1. \A i, j \in 1 .. Len(list) : list[i] = list[j] /\ list[i] # o => i = j
      BY <1>5, <2>1, <2>2 DEF Clean
    <3>2. \A i, j \in 1 .. Len(Erased(list, o)) :
            Erased(list, o)[i] = Erased(list, o)[j] => i = j
      BY <1>4, <3>1, ErasedFacts DEF Slots
    <3>3. ~In(Null, Erased(list, o))
      <4>1. ~In(Null, list)
        BY <1>5, <2>2 DEF In, Clean
      <4>2. QED
        BY <1>4, <4>1, ErasedFacts DEF Slots
    <3>4. QED
      BY <1>8, <2>2, <3>2, <3>3 DEF SlotsOf, Clean, In
  <2>3. CASE d > 0
    <3>1. \A i, j \in 1 .. Len(new) : new[i] = new[j] /\ new[i] # Null => i = j
      BY <1>8, <2>1, <2>3
    <3>2. QED
      BY <2>3, <3>1 DEF SlotsOf
  <2>4. QED
    BY <1>4, <2>2, <2>3
<1>12. LastOne(a, o) /\ ~gone => Cleared(new) /\ d > 0
  BY <1>4, <1>7, <1>8, <1>10 DEF Cleared
<1>13. /\ heap'[a] = IF gone THEN Null ELSE context
       /\ \A b \in Addresses : b # a => heap'[b] = heap[b]
       /\ heap' \in [Addresses -> Contexts \cup {Null}]
  BY <1>2, <1>8 DEF Types
<1>14. /\ frames'[t] \in Seq(FrameFields) /\ Len(frames'[t]) = Len(frames[t])
       /\ \A k \in 1 .. Len(frames[t]) : frames'[t][k] = Unowed(frames[t][k], o)
       /\ \A u \in Threads : u # t => frames'[u] = frames[u]
  <2>1. frames[t] \in Seq(FrameFields) /\ DOMAIN frames[t] = 1 .. Len(frames[t])
    BY DEF Types
  <2>2. frames'[t] = [k \in 1 .. Len(frames[t]) |-> Unowed(frames[t][k], o)]
    BY <1>2, <2>1 DEF Types
  <2>3. \A k \in 1 .. Len(frames[t]) : Unowed(frames[t][k], o) \in FrameFields
    BY <2>1, UnowedFacts
  <2>4. \A u \in Threads : u # t => frames'[u] = frames[u]
    BY <1>2 DEF Types
  <2>5. QED
    BY <2>1, <2>2, <2>3, <2>4
<1>15. SameContexts
  <2>1. ASSUME NEW k \in 1 .. Len(frames[t])
        PROVE  frames'[t][k].context = frames[t][k].context
    BY <1>14, FrameFacts, UnowedFacts
  <2>2. QED
    BY <1>14, <2>1 DEF SameContexts
<1>16. \A b : \A u \in Threads : Walked(u, b)' <=> Walked(u, b)
  BY <1>15, SameWalks
<1>17. \A b : Walks(b)' = Walks(b)
  BY <1>15, SameWalks
<1>18. \A u \in Threads : Holds(u, a) => u = t
  BY <1>3 DEF Held
<1>19. /\ LastOne(a, o) => observer_lists_'[t] = Null
       /\ ~LastOne(a, o) => observer_lists_'[t] = a
       /\ \A u \in Threads : u # t => /\ observer_lists_'[u] = observer_lists_[u]
                                    /\ observer_lists_'[u] # a
       /\ observer_lists_' \in [Threads -> Addresses \cup {Null}]
  BY <1>2, <1>18 DEF Types, Holds
<1>20. Types'
  <2>1. frames' \in [Threads -> Seq(FrameFields)]
    BY <1>2, <1>14 DEF Types
  <2>2. \A u \in Threads : Len(frames'[u]) <= MaxDepth
    BY <1>14 DEF Types
  <2>3. registered' \in [Threads -> SUBSET Observers]
    BY <1>2 DEF Types
  <2>4. calls' \in 0 .. MaxCalls
    BY <1>2, ConstantsAssumption DEF Types
  <2>5. QED
    BY <1>2, <1>13, <1>19, <2>1, <2>2, <2>3, <2>4 DEF Types
<1>21. Depths'
  <2> SUFFICES ASSUME NEW b \in Addresses, heap'[b] # Null
               PROVE  IsFiniteSet(Walks(b)') /\ heap'[b].notify_depth_ = Cardinality(Walks(b)')
    BY DEF Depths
  <2>1. Walks(b)' = Walks(b)
    BY <1>17
  <2>2. heap[b] # Null /\ heap'[b].notify_depth_ = heap[b].notify_depth_
    BY <1>3, <1>8, <1>13
  <2>3. QED
    BY <2>1, <2>2 DEF Depths
<1>22. Held'
  <2>1. \A u \in Threads, b \in Addresses : Holds(u, b)' => Holds(u, b)
    BY <1>3, <1>16, <1>19, ConstantsAssumption DEF Holds
  <2>2. \A u \in Threads, b \in Addresses : b # a => (Holds(u, b)' <=> Holds(u, b))
    BY <1>16, <1>19, ConstantsAssumption DEF Holds
  <2>3. gone => \A u \in Threads : ~Holds(u, a)'
    BY <1>3, <1>6, <1>10, <1>16, <1>19 DEF Holds
  <2>4. ~gone => \E u \in Threads : Holds(u, a)'
    <3>1. CASE LastOne(a, o)
      BY <1>4, <1>6, <1>12, <1>16, <3>1 DEF Holds
    <3>2. CASE ~LastOne(a, o)
      BY <1>19, <3>2 DEF Holds
    <3>3. QED
      BY <3>1, <3>2
  <2>5. \A b \in Addresses : heap'[b] # Null <=> \E u \in Threads : Holds(u, b)'
    <3> SUFFICES ASSUME NEW b \in Addresses
                 PROVE  heap'[b] # Null <=> \E u \in Threads : Holds(u, b)'
      OBVIOUS
    <3>1. CASE b = a
      BY <1>8, <1>13, <2>3, <2>4, <3>1
    <3>2. CASE b # a
      BY <1>13, <2>2, <3>2 DEF Held
    <3>3. QED
      BY <3>1, <3>2
  <2>6. \A b \in Addresses, u, v \in Threads : Holds(u, b)' /\ Holds(v, b)' => u = v
    BY <2>1 DEF Held
  <2>7. QED
    BY <2>5, <2>6 DEF Held
<1>23. Lists'
  <2> SUFFICES ASSUME NEW b \in Addresses, heap'[b] # Null
               PROVE  /\ SlotsOf(heap'[b].observers_)
                      /\ heap'[b].notify_depth_ = 0 => Clean(heap'[b].observers_)
                      /\ (\A u \in Threads : observer_lists_'[u] # b)
                           => Cleared(heap'[b].observers_)
    BY DEF Lists, List
  <2>1. CASE b = a
    <3>1. ~gone /\ heap'[a] = context
      BY <1>13, <2>1
    <3>2. (\A u \in Threads : observer_lists_'[u] # a) => Cleared(new)
      BY <1>12, <1>19, <3>1
    <3>3. QED
      BY <1>8, <1>11, <2>1, <3>1, <3>2
  <2>2. CASE b # a
    <3>1. heap'[b] = heap[b] /\ heap[b] # Null
      BY <1>13, <2>2
    <3>2. (\A u \in Threads : observer_lists_'[u] # b) => \A u \in Threads : observer_lists_[u] # b
      BY <1>19, <2>2
    <3>3. QED
      BY <3>1, <3>2 DEF Lists, List
  <2>3. QED
    BY <2>1, <2>2
<1>24. Found'
  <2> SUFFICES ASSUME NEW u \in Threads, NEW p \in Observers
               PROVE  p \in registered'[u] <=>
                        observer_lists_'[u] # Null /\ In(p, heap'[observer_lists_'[u]].observers_)
    BY DEF Found, List
  <2>1. CASE u = t
    <3>1. p \in registered'[t] <=> In(p, new)
      <4>1. p \in registered[t] <=> In(p, list)
        BY <1>1 DEF Found
      <4>2. registered'[t] = registered[t] \ {o}
        BY <1>2 DEF Types
      <4>3. QED
        BY <1>9, <4>1, <4>2
    <3>2. CASE LastOne(a, o)
      <4>1. ~In(p, list) \/ p = o
        BY <1>7, <3>2 DEF In
      <4>2. QED
        BY <1>9, <1>19, <2>1, <3>1, <3>2, <4>1
    <3>3. CASE ~LastOne(a, o)
      BY <1>3, <1>10, <1>13, <1>19, <2>1, <3>1, <3>3
    <3>4. QED
      BY <3>2, <3>3
  <2>2. CASE u # t
    <3>1. /\ observer_lists_'[u] = observer_lists_[u] /\ observer_lists_[u] # a
          /\ registered'[u] = registered[u]
      BY <1>2, <1>19, <2>2 DEF Types
    <3>2. CASE observer_lists_[u] = Null
      BY <3>1, <3>2 DEF Found
    <3>3. CASE observer_lists_[u] # Null
      <4>1. heap'[observer_lists_[u]] = heap[observer_lists_[u]]
        BY <1>13, <3>1, <3>3 DEF Types
      <4>2. QED
        BY <3>1, <4>1 DEF Found, List
    <3>4. QED
      BY <3>2, <3>3
  <2>3. QED
    BY <2>1, <2>2
<1>25. AllWalks'
  <2> SUFFICES ASSUME NEW u \in Threads, NEW k \in 1 .. Len(frames'[u])
               PROVE  Walk(frames'[u][k], heap'[frames'[u][k].context].observers_, type_)
    BY <1>2 DEF AllWalks, List
  <2>1. PICK b \in Addresses : b = frames[u][k].context
    BY <1>14, FrameFacts
  <2>2. /\ k \in 1 .. Len(frames[u]) /\ frames'[u][k].context = b
        /\ Walked(u, b) /\ heap[b] # Null /\ List(b) \in Slots
        /\ frames[u][k] \in FrameFields /\ Walk(frames[u][k], List(b), type_)
    BY <1>14, <1>15, <2>1, FrameFacts DEF SameContexts, AllWalks
  <2>3. CASE u # t
    <3>1. b # a /\ frames'[u][k] = frames[u][k]
      BY <1>14, <1>18, <2>2, <2>3 DEF Holds
    <3>2. QED
      BY <1>13, <2>2, <3>1 DEF List
  <2>4. CASE u = t /\ b = a
    <3>1. d > 0 /\ ~gone
      BY <1>4, <1>6, <1>10, <2>2, <2>4
    <3>2. Walk(Unowed(frames[t][k], o), new, type_)
      BY <1>8, <2>2, <2>4, <3>1, WalkRemove
    <3>3. QED
      BY <1>13, <1>14, <2>2, <2>4, <3>1, <3>2
  <2>5. CASE u = t /\ b # a
    <3>1. \A v \in Threads : observer_lists_[v] # b
      BY <2>2, <2>5 DEF Held, Holds
    <3>2. Cleared(List(b))
      BY <2>2, <3>1 DEF Lists
    <3>3. Walk(Unowed(frames[t][k], o), List(b), type_)
      BY <1>3, <2>2, <2>5, <3>2, WalkRemove DEF Cleared
    <3>4. QED
      BY <1>13, <1>14, <2>2, <2>5, <3>3 DEF List
  <2>6. QED
    BY <2>3, <2>4, <2>5
<1>26. QED
  BY <1>20, <1>21, <1>22, <1>23, <1>24, <1>25

-----------------------------------------------------------------------------
(* The invariant, and what follows from it *)

\* The empty map satisfies the invariant.
LEMMA InitInv == Init => Inv
<1> SUFFICES ASSUME Init PROVE Inv
  OBVIOUS
<1>1. Types
  BY ConstantsAssumption DEF Init, Types
<1>2. Depths
  BY DEF Init, Depths
<1>3. Held
  BY ConstantsAssumption DEF Init, Held, Holds, Walked
<1>4. Lists
  BY DEF Init, Lists
<1>5. Found
  BY DEF Init, Found
<1>6. AllWalks
  BY DEF Init, AllWalks
<1>7. QED
  BY <1>1, <1>2, <1>3, <1>4, <1>5, <1>6 DEF Inv

\* Every step keeps the invariant.
LEMMA NextInv == Inv /\ [Next]_vars => Inv'
<1> SUFFICES ASSUME Inv, [Next]_vars PROVE Inv'
  OBVIOUS
<1>1. CASE UNCHANGED vars
  <2>1. Types'
    BY <1>1 DEF vars, Inv, Types
  <2>2. QED
    BY <1>1, <2>1, Quiet DEF vars
<1>2. CASE Next
  BY <1>2, NotifyInv, AbortInv, BeginInv, TellInv, EndInv, AddObserverInv, RemoveObserverInv,
     AddFirstInv DEF Next
<1>3. QED
  BY <1>1, <1>2

\* The invariant holds always.
LEMMA InvAlways == Spec => []Inv
<1>1. QED
  BY InitInv, NextInv, PTL DEF Spec

\* The invariant has ContextsSound in it.
LEMMA InvSound == Inv => ContextsSound
<1> SUFFICES ASSUME Inv PROVE ContextsSound
  OBVIOUS
<1> USE DEF Inv
<1>1. TypeOK
  <2> SUFFICES ASSUME NEW a \in Addresses, heap[a] # Null
               PROVE  /\ List(a) \in Seq(Observers \cup {Null})
                      /\ heap[a].notify_depth_ = Cardinality(Walks(a))
    BY DEF TypeOK, Types
  <2>1. QED
    BY ContextFacts DEF Depths
<1>2. ContextsLive
  <2> SUFFICES ASSUME NEW a
               PROVE  a \in Addresses /\ heap[a] # Null <=>
                        \E t \in Threads : a \in ({observer_lists_[t]} \ {Null})
                                               \cup {f.context : f \in Frames(t)}
    BY DEF ContextsLive
  <2>1. ASSUME NEW t \in Threads
        PROVE  a \in ({observer_lists_[t]} \ {Null}) \cup {f.context : f \in Frames(t)}
                 <=> a \in Addresses /\ Holds(t, a)
    <3>1. DOMAIN frames[t] = 1 .. Len(frames[t])
      BY DEF Types
    <3>2. a \in {f.context : f \in Frames(t)} <=> Walked(t, a)
      BY <3>1 DEF Frames, Range, Walked
    <3>3. Walked(t, a) => a \in Addresses
      BY FrameFacts DEF Walked
    <3>4. a \in {observer_lists_[t]} \ {Null} <=> a \in Addresses /\ observer_lists_[t] = a
      BY ConstantsAssumption DEF Types
    <3>5. QED
      BY <3>2, <3>3, <3>4 DEF Holds
  <2>2. QED
    BY <2>1 DEF Held
<1>3. ObserversFound
  <2> SUFFICES ASSUME NEW t \in Threads
               PROVE  registered[t] = IF observer_lists_[t] = Null THEN {}
                                      ELSE Range(List(observer_lists_[t])) \ {Null}
    BY DEF ObserversFound
  <2>1. registered[t] \subseteq Observers
    BY DEF Types
  <2>2. CASE observer_lists_[t] = Null
    BY <2>1, <2>2 DEF Found
  <2>3. CASE observer_lists_[t] # Null
    <3> PICK a \in Addresses : a = observer_lists_[t]
      BY <2>3 DEF Types
    <3>1. heap[a] # Null
      BY DEF Held, Holds
    <3>2. /\ DOMAIN List(a) = 1 .. Len(List(a))
          /\ \A i \in 1 .. Len(List(a)) : List(a)[i] \in Observers \cup {Null}
      BY <3>1, ContextFacts DEF Count
    <3>3. ASSUME NEW o
          PROVE  o \in Range(List(a)) \ {Null} <=> o \in Observers /\ In(o, List(a))
      BY <3>2, ConstantsAssumption DEF Range, In
    <3>4. \A o \in Observers : o \in registered[t] <=> In(o, List(a))
      BY <2>3 DEF Found
    <3>5. QED
      BY <2>1, <2>3, <3>3, <3>4
  <2>4. QED
    BY <2>2, <2>3
<1>4. TellsRegistered
  <2> SUFFICES ASSUME NEW t \in Threads, frames[t] # <<>>, NextIndex(Top(t)) # 0
               PROVE  List(Top(t).context)[NextIndex(Top(t))] \in registered[t]
    BY DEF TellsRegistered
  <2> DEFINE f == frames[t][Len(frames[t])]
             i == NextIndex(f)
  <2>1. /\ Top(t) = f /\ f \in FrameFields /\ f.context \in Addresses
        /\ Walked(t, f.context) /\ heap[f.context] # Null /\ List(f.context) \in Slots
    BY TopFacts, FrameFacts
  <2>2. i \in 1 .. Len(List(f.context)) /\ List(f.context)[i] \in Observers
    BY <2>1, NextFacts
  <2> HIDE DEF i
  <2>3. In(List(f.context)[i], List(f.context))
    BY <2>2 DEF In
  <2>4. List(f.context)[i] # Null
    BY <2>2, ConstantsAssumption
  <2>5. \E u \in Threads : observer_lists_[u] = f.context
    BY <2>1, <2>2, <2>4 DEF Lists, Cleared
  <2>6. observer_lists_[t] = f.context
    BY <2>1, <2>5 DEF Held, Holds
  <2>7. List(f.context)[i] \in registered[t]
    BY <2>1, <2>2, <2>3, <2>6, ConstantsAssumption DEF Found
  <2>8. QED
    BY <2>1, <2>7 DEF i
<1>5. QED
  BY <1>1, <1>2, <1>3, <1>4 DEF ContextsSound

\* The contexts, the map, the notifications that walk the contexts and the
\* registrations agree, whichever threads add and remove observers and whenever,
\* even where the address of a deleted context is used again: AddObserver,
\* RemoveObserver and NotifyWrapper leak no context, use none that was deleted,
\* and call no observer that was removed.
THEOREM ContextsSoundAlways == Spec => []ContextsSound
<1>1. QED
  BY InvAlways, InvSound, PTL

\* What a step of the notifications tells, and what one that ends has told.
TellsAllStep ==
  \A t \in Threads :
    /\ Len(frames'[t]) < Len(frames[t]) => Top(t).owed = {}
    /\ Telling(t) /\ type_ = "NOTIFY_EXISTING_ONLY" => Top(t)'.told \in Top(t).owed

\* A notification that ends owes no call.
LEMMA EndTells ==
  ASSUME Inv, NEW t \in Threads, End(t)
  PROVE  Top(t).owed = {} /\ Len(frames'[t]) # Len(frames[t])
<1> USE DEF Inv
<1> DEFINE n == Len(frames[t])
           f == frames[t][n]
<1>1. n \in Nat /\ n \in 1 .. n /\ Top(t) = f /\ frames[t] \in Seq(FrameFields)
  BY TopFacts DEF End
<1>2. /\ f \in FrameFields /\ List(f.context) \in Slots /\ Walk(f, List(f.context), type_)
  BY <1>1, FrameFacts DEF AllWalks
<1>3. \A k \in f.index_ .. Bound(f, List(f.context)) : List(f.context)[k] = Null
  BY <1>1, <1>2, NextFacts DEF End
<1>4. f.owed \subseteq Observers
  BY <1>2 DEF FrameFields
<1>5. f.owed = {}
  BY <1>2, <1>3, <1>4, ConstantsAssumption DEF Walk
<1>6. frames'[t] = SubSeq(frames[t], 1, n - 1)
  BY DEF End, Front, Types
<1>7. Len(frames'[t]) = n - 1
  BY <1>1, <1>6
<1>8. QED
  BY <1>1, <1>5, <1>7

\* With NOTIFY_EXISTING_ONLY whoever is told was owed a call.
LEMMA TellTells ==
  ASSUME Inv, NEW t \in Threads, Tell(t), type_ = "NOTIFY_EXISTING_ONLY"
  PROVE  Len(frames'[t]) = Len(frames[t]) /\ Top(t)'.told \in Top(t).owed
<1> USE DEF Inv
<1> DEFINE n == Len(frames[t])
           f == frames[t][n]
           list == List(f.context)
           i == NextIndex(f)
           g == [Unowed(f, list[i]) EXCEPT !.index_ = i + 1, !.told = list[i]]
<1>1. /\ n \in Nat /\ n \in 1 .. n /\ Top(t) = f /\ frames[t] \in Seq(FrameFields) /\ i # 0
  BY TopFacts DEF Tell
<1>2. f \in FrameFields /\ list \in Slots /\ Walk(f, list, type_)
  BY <1>1, FrameFacts DEF AllWalks
<1>3. i \in f.index_ .. Bound(f, list) /\ list[i] \in Observers
  BY <1>1, <1>2, NextFacts
<1>4. list[i] \in f.owed
  <2>1. Bound(f, list) = f.max_
    BY <1>2, BoundFacts DEF Walk
  <2>2. list[i] # Null
    BY <1>3, ConstantsAssumption
  <2> HIDE DEF i, list, f
  <2>3. QED
    BY <1>2, <1>3, <2>1, <2>2 DEF Walk
<1>5. frames' = [frames EXCEPT ![t][n] = g]
  <2>1. frames' = [frames EXCEPT ![t][n] =
          [Unowed(f, list[i]) EXCEPT !.index_ = i + 1, !.told = list[i]]]
    BY <1>1 DEF Tell
  <2>2. QED
    BY <2>1
<1>6. g.told = list[i]
  BY <1>2 DEF FrameFields, Unowed
<1> HIDE DEF g
<1>7. frames'[t] = [frames[t] EXCEPT ![n] = g]
  BY <1>5 DEF Types
<1>8. Len(frames'[t]) = n /\ frames'[t][n] = g
  BY <1>1, <1>7
<1>9. Top(t)' = g
  BY <1>8 DEF Top, Last
<1>10. QED
  BY <1>1, <1>4, <1>6, <1>8, <1>9

\* Every step tells as TellsAll says.
LEMMA NextTells == Inv /\ [Next]_vars => TellsAllStep
<1> SUFFICES ASSUME Inv, [Next]_vars, NEW t \in Threads
             PROVE  /\ Len(frames'[t]) < Len(frames[t]) => Top(t).owed = {}
                    /\ Telling(t) /\ type_ = "NOTIFY_EXISTING_ONLY" =>
                         Top(t)'.told \in Top(t).owed
  BY DEF TellsAllStep
<1>1. Len(frames[t]) \in Nat /\ frames[t] \in Seq(FrameFields)
  BY DEF Inv, Types
<1>2. CASE frames'[t] = frames[t]
  <2>1. Top(t)' = Top(t)
    BY <1>2 DEF Top
  <2>2. QED
    BY <1>1, <1>2, <2>1 DEF Telling
<1>3. CASE End(t)
  BY <1>3, EndTells DEF Telling
<1>4. CASE Tell(t)
  <2>1. Len(frames'[t]) = Len(frames[t])
    <3>1. frames' = [frames EXCEPT ![t][Len(frames[t])] =
                       [Unowed(@, List(Top(t).context)[NextIndex(Top(t))])
                          EXCEPT !.index_ = NextIndex(Top(t)) + 1,
                                 !.told = List(Top(t).context)[NextIndex(Top(t))]]]
      BY <1>4 DEF Tell
    <3>2. QED
      BY <1>1, <3>1 DEF Inv, Types
  <2>2. QED
    BY <1>1, <1>4, <2>1, TellTells
<1>5. CASE Begin(t)
  <2>1. Len(frames'[t]) = Len(frames[t]) + 1
    BY <1>1, <1>5 DEF Begin, Inv, Types
  <2>2. QED
    BY <1>1, <2>1 DEF Telling
<1>6. CASE \E o \in Observers : RemoveObserver(t, o)
  <2>1. PICK o \in Observers : RemoveObserver(t, o)
    BY <1>6
  <2>2. frames'[t] = [k \in 1 .. Len(frames[t]) |-> Unowed(frames[t][k], o)]
    <3>1. DOMAIN frames[t] = 1 .. Len(frames[t])
      BY <1>1
    <3>2. QED
      BY <2>1, <3>1 DEF RemoveObserver, Inv, Types
  <2>3. Len(frames'[t]) = Len(frames[t])
    BY <1>1, <2>2
  <2>4. frames[t] # <<>> => Top(t)'.index_ = Top(t).index_
    <3> SUFFICES ASSUME frames[t] # <<>> PROVE Top(t)'.index_ = Top(t).index_
      OBVIOUS
    <3>1. /\ Len(frames[t]) \in 1 .. Len(frames[t]) /\ Top(t) = frames[t][Len(frames[t])]
          /\ Top(t) \in FrameFields
      BY <1>1, TopFacts DEF Inv
    <3>2. Top(t)' = Unowed(Top(t), o)
      BY <2>2, <2>3, <3>1 DEF Top, Last
    <3>3. QED
      BY <3>1, <3>2 DEF Unowed, FrameFields
  <2>5. QED
    BY <1>1, <2>3, <2>4 DEF Telling
<1>7. QED
  <2>1. CASE UNCHANGED vars
    BY <1>2, <2>1 DEF vars
  <2>2. CASE Notify
    BY <1>2, <2>2 DEF Notify
  <2>3. ASSUME NEW u \in Threads, Abort(u) \/ Begin(u) \/ Tell(u) \/ End(u), u # t
        PROVE  frames'[t] = frames[t]
    BY <2>3 DEF Abort, Begin, Tell, End, Inv, Types
  <2>4. Abort(t) => frames'[t] = frames[t]
    BY DEF Abort
  <2>5. ASSUME NEW u \in Threads, NEW o \in Observers,
               AddObserver(u, o) \/ (RemoveObserver(u, o) /\ u # t)
                 \/ \E a \in Addresses : AddFirst(u, o, a)
        PROVE  frames'[t] = frames[t]
    BY <2>5 DEF AddObserver, RemoveObserver, AddFirst, Inv, Types
  <2>6. CASE Next
    BY <1>2, <1>3, <1>4, <1>5, <1>6, <2>2, <2>3, <2>4, <2>5, <2>6 DEF Next
  <2>7. QED
    BY <2>1, <2>6

\* A notification that ends has called every observer of its thread that was
\* there when it began and was not removed since, although observers come and go
\* and other notifications run in it; and with NOTIFY_EXISTING_ONLY it calls
\* nobody else: GetNext and its limit, Compact, and the slots RemoveObserver clears.
THEOREM TellsAllAlways == Spec => TellsAll
<1>1. Inv /\ [Next]_vars => [TellsAllStep]_vars
  BY NextTells
<1>2. QED
  BY InvAlways, <1>1, PTL DEF Spec, TellsAll, TellsAllStep
=============================================================================
