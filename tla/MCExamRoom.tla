----------------------------- MODULE MCExamRoom -----------------------------
(* TLC instances of ExamRoom. *)
EXTENDS ExamRoom, TLC

RoomSymmetry == Permutations(Threads) \cup Permutations(Questions)
=============================================================================
