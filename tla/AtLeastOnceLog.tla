--------------------------- MODULE AtLeastOnceLog ---------------------------
(***************************************************************************)
(* What the executor's consumer group promises about the submissions topic, *)
(* whatever its workers do: a message is appended, at some later time it is *)
(* settled (graded and written back, republished, or dead-lettered), and    *)
(* the group's committed offset never moves over a message that is not      *)
(* settled, so that a restart cannot skip one.  The committed offset may    *)
(* move backwards: that repeats work, it loses none.                        *)
(***************************************************************************)
EXTENDS Integers

CONSTANTS
    Partitions,     \* the partitions of the submissions topic
    InitCommitted   \* the offset each partition's group starts from

NoOffset == -1      \* the group has committed nothing

VARIABLES
    log,            \* log[p]: the next offset the broker will assign
    settled,        \* settled[p]: the offsets that need no redelivery
    committed       \* committed[p]: the group's committed offset

vars == <<log, settled, committed>>

\* What the group starts from: everything below its committed offset is old.
FirstOffset(p) == IF InitCommitted[p] = NoOffset THEN 0 ELSE InitCommitted[p]

Init ==
    /\ log = [p \in Partitions |-> FirstOffset(p)]
    /\ settled = [p \in Partitions |-> 0..(FirstOffset(p) - 1)]
    /\ committed = InitCommitted

Append(p) ==
    /\ log' = [log EXCEPT ![p] = @ + 1]
    /\ UNCHANGED <<settled, committed>>

Settle(p, o) ==
    /\ o \in 0..(log[p] - 1)
    /\ settled' = [settled EXCEPT ![p] = @ \cup {o}]
    /\ UNCHANGED <<log, committed>>

Commit(p, c) ==
    /\ c \in 0..log[p]
    /\ 0..(c - 1) \subseteq settled[p]
    /\ committed' = [committed EXCEPT ![p] = c]
    /\ UNCHANGED <<log, settled>>

Next ==
    \E p \in Partitions :
        \/ Append(p)
        \/ \E o \in 0..(log[p] - 1) : Settle(p, o)
        \/ \E c \in 0..log[p] : Commit(p, c)

Spec == Init /\ [][Next]_vars
=============================================================================
