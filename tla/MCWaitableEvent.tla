-------------------------- MODULE MCWaitableEvent --------------------------
(* Finite instances of WaitableEvent for TLC. *)
EXTENDS WaitableEvent, TLC

\* WaitMany is called with the events in both orders.
BothOrders == {<<1, 2>>, <<2, 1>>}
ThreadSymmetry == Permutations(Threads)
=============================================================================
