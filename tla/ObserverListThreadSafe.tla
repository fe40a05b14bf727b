----------------------- MODULE ObserverListThreadSafe -----------------------
(***************************************************************************)
(* base/observer_list_threadsafe.h on base/observer_list.h: every thread   *)
(* that adds observers has a context, found through a map under a lock and *)
(* carried, as a bare pointer, by the notifications posted to its loop.    *)
(* Observers add and remove observers, and run nested loops, while they    *)
(* are being notified; the context of a thread whose last observer goes is *)
(* deleted, at once or by the notification that is walking it.             *)
(***************************************************************************)
EXTENDS Integers, FiniteSets, SequencesExt

CONSTANTS
  Threads, Observers,
  Addresses,      \* where contexts are allocated
  MaxCalls,       \* bound: calls of AddObserver and RemoveObserver
  MaxNotes,       \* bound: calls of Notify
  MaxDepth,       \* bound: notifications nested on a thread
  Null

ASSUME ConstantsAssumption ==
  /\ MaxCalls \in Nat /\ MaxNotes \in Nat /\ MaxDepth \in Nat
  /\ Null \notin Observers \cup Addresses \cup Nat
  /\ Null \notin [observers_ : Seq(Observers \cup {Null}), notify_depth_ : Nat]

VARIABLES
  observer_lists_,  \* the context of each thread, or Null
  heap,             \* the context at each address: observers_, notify_depth_; or Null
  queue,            \* the contexts in the notifications posted to each thread's loop
  frames,           \* the NotifyWrappers running on each thread, innermost last
  registered,       \* history: the observers each thread added and did not remove
  type_,            \* NOTIFY_ALL or NOTIFY_EXISTING_ONLY, as constructed
  calls, notes

vars == <<observer_lists_, heap, queue, frames, registered, type_, calls, notes>>

\* A frame: the context and the iterator, max_ of which is Null for "no limit";
\* owed, history: observers that were there at the start and have not been told.
Top(t) == Last(frames[t])
Unowed(frame, o) == [frame EXCEPT !.owed = @ \ {o}]
List(a) == heap[a].observers_
Count(a) == Len(List(a))

-----------------------------------------------------------------------------
(* ObserverListBase *)

\* The slots that hold anything but x, and the one that comes k-th.
Others(list, x) == {i \in DOMAIN list : list[i] # x}
Rank(slots, i) == Cardinality({j \in slots : j <= i})
Slot(slots, k) == CHOOSE i \in slots : Rank(slots, i) = k

\* The slots that hold x are erased.
Erased(list, x) ==
  [k \in 1 .. Cardinality(Others(list, x)) |-> list[Slot(Others(list, x), k)]]

Compact(context) == [context EXCEPT !.observers_ = Erased(@, Null)]

\* RemoveObserver: a slot is cleared during a notification, erased otherwise.
Without(context, o) ==
  [context EXCEPT !.observers_ =
     IF context.notify_depth_ > 0
     THEN [i \in DOMAIN @ |-> IF @[i] = o THEN Null ELSE @[i]]
     ELSE Erased(@, o)]

\* The iterator's limit, and the next observer's position, 0 if there is none.
Limit(frame) == IF frame.max_ = Null \/ frame.max_ > Count(frame.context)
                THEN Count(frame.context) ELSE frame.max_

\* Variant: a cleared slot ends the walk.
NextIndex_Hole(frame) ==
  IF frame.index_ <= Limit(frame) /\ List(frame.context)[frame.index_] # Null
  THEN frame.index_ ELSE 0

NextIndex(frame) ==
  LET left == {i \in frame.index_ .. Limit(frame) : List(frame.context)[i] # Null} IN
  IF left = {} THEN 0 ELSE CHOOSE i \in left : \A j \in left : i <= j

\* The iterator goes, and the cleared slots with the last one.
Leave(context) ==
  LET left == [context EXCEPT !.notify_depth_ = @ - 1] IN
  IF left.notify_depth_ = 0 THEN Compact(left) ELSE left

-----------------------------------------------------------------------------
(* AddObserver and RemoveObserver, by tasks or observers of the thread *)

Call == calls < MaxCalls /\ calls' = calls + 1
Register(t, o) == registered' = [registered EXCEPT ![t] = @ \cup {o}]

AddFirst(t, o, a) ==
  /\ Call /\ observer_lists_[t] = Null /\ heap[a] = Null
  /\ observer_lists_' = [observer_lists_ EXCEPT ![t] = a]
  /\ heap' = [heap EXCEPT ![a] = [observers_ |-> <<o>>, notify_depth_ |-> 0]]
  /\ Register(t, o)
  /\ UNCHANGED <<queue, frames, type_, notes>>

AddObserver(t, o) ==
  LET a == observer_lists_[t] IN
  /\ Call /\ a # Null /\ o \notin registered[t]
  /\ heap' = [heap EXCEPT ![a].observers_ = Append(@, o)]
  /\ Register(t, o)
  /\ UNCHANGED <<observer_lists_, queue, frames, type_, notes>>

LastOne(a, o) == o \in Range(List(a)) /\ Count(a) = 1

\* The list is empty; during a notification it is not, it has cleared slots.
Emptied(context) == context.observers_ = <<>>

\* RemoveObserver: the context leaves the map with its last observer, and is
\* deleted if no notification is walking it.
RemoveObserver(t, o) ==
  LET a == observer_lists_[t]
      context == Without(heap[a], o) IN
  /\ Call /\ a # Null
  /\ observer_lists_' = IF LastOne(a, o) THEN [observer_lists_ EXCEPT ![t] = Null]
                        ELSE observer_lists_
  /\ heap' = [heap EXCEPT ![a] = IF Emptied(context) THEN Null ELSE context]
  /\ registered' = [registered EXCEPT ![t] = @ \ {o}]
  /\ frames' = [frames EXCEPT ![t] =
       [i \in DOMAIN @ |-> Unowed(@[i], o)]]
  /\ UNCHANGED <<queue, type_, notes>>

-----------------------------------------------------------------------------
(* Notify, by any thread, and NotifyWrapper on each thread *)

Notify ==
  /\ notes < MaxNotes /\ notes' = notes + 1
  /\ queue' = [t \in Threads |->
       IF observer_lists_[t] = Null THEN queue[t]
       ELSE Append(queue[t], observer_lists_[t])]
  /\ UNCHANGED <<observer_lists_, heap, frames, registered, type_, calls>>

Current(t, a) == observer_lists_[t] = a

\* The context in the notification is not the thread's, any more.
Abort(t) ==
  /\ queue[t] # <<>> /\ Len(frames[t]) < MaxDepth
  /\ ~Current(t, Head(queue[t]))
  /\ queue' = [queue EXCEPT ![t] = Tail(@)]
  /\ UNCHANGED <<observer_lists_, heap, frames, registered, type_, calls, notes>>

Begin(t) ==
  LET a == Head(queue[t]) IN
  /\ queue[t] # <<>> /\ Len(frames[t]) < MaxDepth
  /\ Current(t, a)
  /\ queue' = [queue EXCEPT ![t] = Tail(@)]
  /\ heap' = [heap EXCEPT ![a].notify_depth_ = @ + 1]
  /\ frames' = [frames EXCEPT ![t] = Append(@,
       [context |-> a, index_ |-> 1,
        max_ |-> IF type_ = "NOTIFY_EXISTING_ONLY" THEN Count(a) ELSE Null,
        owed |-> registered[t], told |-> Null])]
  /\ UNCHANGED <<observer_lists_, registered, type_, calls, notes>>

\* GetNext, and the call of the observer.
Tell(t) ==
  LET i == NextIndex(Top(t))
      o == List(Top(t).context)[i] IN
  /\ frames[t] # <<>> /\ i # 0
  /\ frames' = [frames EXCEPT ![t][Len(frames[t])] =
       [Unowed(@, o) EXCEPT !.index_ = i + 1, !.told = o]]
  /\ UNCHANGED <<observer_lists_, heap, queue, registered, type_, calls, notes>>

\* Variant: an empty context is not deleted.
End_Leak(t) ==
  LET a == Top(t).context
      context == Leave(heap[a]) IN
  /\ frames[t] # <<>> /\ NextIndex(Top(t)) = 0
  /\ frames' = [frames EXCEPT ![t] = Front(@)]
  /\ heap' = [heap EXCEPT ![a] = context]
  /\ observer_lists_' = IF context.observers_ = <<>> /\ Current(t, a)
                        THEN [observer_lists_ EXCEPT ![t] = Null] ELSE observer_lists_
  /\ UNCHANGED <<queue, registered, type_, calls, notes>>

\* The iterator goes; a context without observers is taken out of the map,
\* unless it is out already, and deleted.
End(t) ==
  LET a == Top(t).context
      context == Leave(heap[a]) IN
  /\ frames[t] # <<>> /\ NextIndex(Top(t)) = 0
  /\ frames' = [frames EXCEPT ![t] = Front(@)]
  /\ heap' = [heap EXCEPT ![a] = IF context.observers_ = <<>> THEN Null ELSE context]
  /\ observer_lists_' = IF context.observers_ = <<>> /\ Current(t, a)
                        THEN [observer_lists_ EXCEPT ![t] = Null] ELSE observer_lists_
  /\ UNCHANGED <<queue, registered, type_, calls, notes>>

-----------------------------------------------------------------------------

Init ==
  /\ observer_lists_ = [t \in Threads |-> Null]
  /\ heap = [a \in Addresses |-> Null]
  /\ queue = [t \in Threads |-> <<>>]
  /\ frames = [t \in Threads |-> <<>>]
  /\ registered = [t \in Threads |-> {}]
  /\ type_ \in {"NOTIFY_ALL", "NOTIFY_EXISTING_ONLY"}
  /\ calls = 0 /\ notes = 0

Next ==
  \/ Notify
  \/ \E t \in Threads :
       \/ Abort(t) \/ Begin(t) \/ Tell(t) \/ End(t)
       \/ \E o \in Observers :
            \/ AddObserver(t, o) \/ RemoveObserver(t, o)
            \/ \E a \in Addresses : AddFirst(t, o, a)

Spec == Init /\ [][Next]_vars

-----------------------------------------------------------------------------
(* Properties *)

Frames(t) == Range(frames[t])

\* The notifications that walk a context: threads and positions in their frames.
Walks(a) == {p \in Threads \X (1 .. MaxDepth) :
               p[2] <= Len(frames[p[1]]) /\ frames[p[1]][p[2]].context = a}

TypeOK ==
  /\ observer_lists_ \in [Threads -> Addresses \cup {Null}]
  /\ \A a \in Addresses : heap[a] # Null =>
       /\ List(a) \in Seq(Observers \cup {Null})
       /\ heap[a].notify_depth_ = Cardinality(Walks(a))
  /\ calls \in 0 .. MaxCalls /\ notes \in 0 .. MaxNotes

\* The contexts in the map, and those notifications are walking, exist; no other
\* one does, so none is leaked either, whoever removed the last observer and when.
ContextsLive ==
  {a \in Addresses : heap[a] # Null} =
    UNION {({observer_lists_[t]} \ {Null}) \cup {f.context : f \in Frames(t)} : t \in Threads}

\* The observers of a thread are those of the context in the map: none is added
\* to, or left in, a context that is on its way out.
ObserversFound ==
  \A t \in Threads :
    registered[t] =
      IF observer_lists_[t] = Null THEN {}
      ELSE Range(List(observer_lists_[t])) \ {Null}

\* No observer is called that has been removed: what the iterator comes to next
\* is registered.
TellsRegistered ==
  \A t \in Threads : frames[t] # <<>> /\ NextIndex(Top(t)) # 0
                       => List(Top(t).context)[NextIndex(Top(t))] \in registered[t]

Telling(t) ==
  frames[t] # <<>> /\ Len(frames'[t]) = Len(frames[t]) /\ Top(t)'.index_ # Top(t).index_

\* A notification that ends has told every observer that was there when it
\* began and has not been removed: nobody is skipped.  And in
\* NOTIFY_EXISTING_ONLY an observer added during a notification is not told,
\* even where it was added in place of one that was removed.
TellsAll ==
  [][\A t \in Threads :
       /\ Len(frames'[t]) < Len(frames[t]) => Top(t).owed = {}
       /\ Telling(t) /\ type_ = "NOTIFY_EXISTING_ONLY" => Top(t)'.told \in Top(t).owed]_vars

\* Contexts, the map and the observers agree: no context is leaked or used after
\* it was deleted, no observer is lost, and none is told once it was removed.
ContextsSound == TypeOK /\ ContextsLive /\ ObserversFound /\ TellsRegistered
=============================================================================
