-------------------------- MODULE MCCommitTracker --------------------------
(* TLC instances of CommitTracker: where the group starts from. *)
EXTENDS CommitTracker, TLC

\* The group has committed before: offset 1 in every partition.
KnownGroup == [p \in Partitions |-> 1]

\* A new group: nothing committed.
FreshGroup == [p \in Partitions |-> NoOffset]

WorkerSymmetry == Permutations(Workers)
=============================================================================
