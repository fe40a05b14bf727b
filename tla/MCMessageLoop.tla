--------------------------- MODULE MCMessageLoop ---------------------------
(* A finite instance of MessageLoop for TLC. *)
EXTENDS MessageLoop

\* Tasks that are due at once, at the next time and at the one after.
MixedKinds == [delay : {0}, nestable : BOOLEAN]
                \cup {[delay |-> 1, nestable |-> TRUE], [delay |-> 2, nestable |-> FALSE]}

\* A nested Run() without the allower serves no task, so under this pump
\* nobody can leave it; the fair run does without it.
ReturningRuns == {r \in Runs : r.allower \/ r.kind = "RunAllPending"}
=============================================================================
