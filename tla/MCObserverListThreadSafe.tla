---------------------- MODULE MCObserverListThreadSafe ----------------------
EXTENDS ObserverListThreadSafe, TLC

Symmetry == Permutations(Threads) \cup Permutations(Observers) \cup Permutations(Addresses)

\* Erased is the library's SelectSeq.
ASSUME ErasedSelects ==
  \A list \in BoundedSeq(Observers \cup {Null}, 5), x \in Observers \cup {Null} :
    Erased(list, x) = SelectSeq(list, LAMBDA y : y # x)
=============================================================================
