----------------------- MODULE MCSequencedWorkerPool -----------------------
(* Finite instances of SequencedWorkerPool for TLC. *)
EXTENDS SequencedWorkerPool, TLC

TaskSymmetry == Permutations(Tasks) \cup Permutations(Flushers)
=============================================================================
