------------------------- MODULE MCJudgingPipeline -------------------------
(* TLC instances of JudgingPipeline. *)
EXTENDS JudgingPipeline, TLC

CONSTANTS s1, s2

\* The group has committed before.
KnownGroup == [p \in Partitions |-> 1]

\* s1 passes; s2 fails a case.
Decided == [s \in Subs |-> IF s = s1 THEN {"PASSED"} ELSE {"WRONG_ANSWER"}]
=============================================================================
