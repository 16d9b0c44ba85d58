------------------------------ MODULE MCGrader ------------------------------
(* TLC instances of Grader. *)
EXTENDS Grader, TLC

CONSTANTS j1, j2, j3, s1, s2

\* Two deliveries of s1, one of s2.
Deliveries == [j \in Jobs |-> IF j = j3 THEN s2 ELSE s1]

TwoCases == [s \in Subs |-> {2}]

\* The practice run s2 has one case or none.
OneOrNone == [s \in Subs |-> IF s = s2 THEN {0, 1} ELSE {2}]
=============================================================================
