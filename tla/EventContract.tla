---------------------------- MODULE EventContract ----------------------------
(***************************************************************************)
(* What base/synchronization/waitable_event.h promises: Signal on an       *)
(* automatic-reset event is given to exactly one waiter, or kept for the   *)
(* next one; on a manual-reset event it releases everybody; a wait that    *)
(* gives up takes nothing with it.  Waits, on one event or on many, and    *)
(* signals are atomic here.                                                *)
(***************************************************************************)
EXTENDS Integers, Sequences

CONSTANTS Events, ManualReset, Threads, NoEvent

VARIABLES
  signaled,    \* the events in the signaled state
  signaling,   \* the event each thread is signaling, or NoEvent
  waiting,     \* the events each thread is waiting for, {} if it is not
  patient,     \* those of them whose wait has no time limit
  given        \* the event that ended a thread's wait, until it returns

vars == <<signaled, signaling, waiting, patient, given>>

Idle(t) == signaling[t] = NoEvent /\ waiting[t] = {} /\ given[t] = NoEvent

Init ==
  /\ signaled \in SUBSET Events
  /\ signaling = [t \in Threads |-> NoEvent]
  /\ waiting = [t \in Threads |-> {}]
  /\ patient = {}
  /\ given = [t \in Threads |-> NoEvent]

SignalBegin(t, e) ==
  /\ Idle(t) /\ e \notin signaled
  /\ signaling' = [signaling EXCEPT ![t] = e]
  /\ UNCHANGED <<signaled, waiting, patient, given>>

Give(u, e) ==
  /\ e \in waiting[u]
  /\ waiting' = [waiting EXCEPT ![u] = {}]
  /\ patient' = patient \ {u}
  /\ given' = [given EXCEPT ![u] = e]

\* An automatic-reset signal is given to one waiter ...
SignalGive(t, u) ==
  /\ signaling[t] \in Events \ ManualReset
  /\ Give(u, signaling[t])
  /\ signaling' = [signaling EXCEPT ![t] = NoEvent]
  /\ UNCHANGED signaled

\* ... a manual-reset signal to every waiter, one after the other ...
SignalRelease(t, u) ==
  /\ signaling[t] \in ManualReset
  /\ Give(u, signaling[t])
  /\ UNCHANGED <<signaled, signaling>>

\* ... and the event is signaled when nobody is waiting (any more).
SignalKeep(t) ==
  /\ signaling[t] # NoEvent
  /\ \A u \in Threads : signaling[t] \notin waiting[u]
  /\ signaled' = signaled \cup {signaling[t]}
  /\ signaling' = [signaling EXCEPT ![t] = NoEvent]
  /\ UNCHANGED <<waiting, patient, given>>

Reset(e) == signaled' = signaled \ {e} /\ UNCHANGED <<signaling, waiting, patient, given>>

\* A wait, or a test, that finds an event signaled.
Take(t, e) ==
  /\ Idle(t) /\ e \in signaled
  /\ signaled' = IF e \in ManualReset THEN signaled ELSE signaled \ {e}
  /\ UNCHANGED <<signaling, waiting, patient, given>>

Wait(t, S, forever) ==
  /\ Idle(t) /\ S # {} /\ S \cap signaled = {}
  /\ waiting' = [waiting EXCEPT ![t] = S]
  /\ patient' = IF forever THEN patient \cup {t} ELSE patient
  /\ UNCHANGED <<signaled, signaling, given>>

GiveUp(t) ==
  /\ waiting[t] # {} /\ t \notin patient
  /\ waiting' = [waiting EXCEPT ![t] = {}]
  /\ UNCHANGED <<signaled, signaling, patient, given>>

Return(t) ==
  /\ given[t] # NoEvent
  /\ given' = [given EXCEPT ![t] = NoEvent]
  /\ UNCHANGED <<signaled, signaling, waiting, patient>>

Next ==
  \E t \in Threads :
    \/ \E e \in Events : SignalBegin(t, e) \/ Reset(e) \/ Take(t, e)
    \/ \E u \in Threads : SignalGive(t, u) \/ SignalRelease(t, u)
    \/ SignalKeep(t)
    \/ \E S \in SUBSET Events, forever \in BOOLEAN : Wait(t, S, forever)
    \/ GiveUp(t) \/ Return(t)

Spec == Init /\ [][Next]_vars
=============================================================================
