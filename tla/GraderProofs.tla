---------------------------- MODULE GraderProofs ----------------------------
(***************************************************************************)
(* The theorems about Grader, for any submissions, jobs, cases and boxes.   *)
(***************************************************************************)
EXTENDS Grader, FiniteSetTheorems, SequenceTheorems, TLAPS

-----------------------------------------------------------------------------
(* The invariants.                                                          *)

\* What is given stays given: a number of cases the submission may have, and a
\* program with an answer to each of them.
GivenInv ==
    /\ inline \subseteq OnWeb
    /\ \A s \in Subs : cases[s] \in CaseCounts[s] /\ program[s] \in Programs(s)

\* A job that reports has a status to report.
TypeInv == TypeOK /\ GivenInv /\ \A j \in Jobs : At(j, "report") => job[j].status # "none"

InQueue(b) == \E i \in DOMAIN freeBoxes : freeBoxes[i] = b
Holds(j, b) == job[j].box = b

\* A box has one place: one position of the queue, or one job.
BoxInv ==
    /\ \A i, k \in DOMAIN freeBoxes : freeBoxes[i] = freeBoxes[k] => i = k
    /\ \A j, k \in Jobs : job[j].box = job[k].box /\ job[j].box # NoBox => j = k
    /\ \A j \in Jobs : job[j].box # NoBox => ~InQueue(job[j].box)
    /\ \A b \in 1..Boxes : InQueue(b) \/ \E j \in Jobs : Holds(j, b)
    /\ \A j \in Jobs : At(j, "new") => job[j].box = NoBox

\* Of c cases, case n is the first that the program with answers p does not answer
\* rightly, c + 1 if it answers all.
Misses(c, p, n) ==
    /\ n \in 1..(c + 1)
    /\ n <= c => p[n] # "right"
    /\ \A k \in 1..(n - 1) : p[k] = "right"

\* The report of a job is the one the cases give.
Tells(c, p, status, passed) ==
    /\ passed \in 0..c
    /\ status # "SYSTEM_ERROR" =>
          IF p = <<>> THEN status = "COMPILATION_ERROR" /\ passed = 0
          ELSE IF c = 0 THEN status = IF p[1] \in Killed THEN p[1] ELSE "SUCCESS"
          ELSE /\ Misses(c, p, passed + 1)
               /\ status = IF passed < c /\ p[passed + 1] \in Killed THEN p[passed + 1] ELSE "SUCCESS"

\* How far the loop over the cases has come.
Looping(c, p, case, passed) ==
    /\ p # <<>>
    /\ IF c = 0 THEN passed = 0
       ELSE /\ case \in 1..c
            /\ passed = case - 1
            /\ \A k \in 1..passed : p[k] = "right"

Fits(c, p, stage, case, passed, status) ==
    /\ stage \in {"new", "init", "compile"} => case = 1 /\ passed = 0
    /\ stage = "run" => Looping(c, p, case, passed)
    /\ stage = "report" => Tells(c, p, status, passed)

Progress(j) ==
    Fits(cases[SubOf[j]], program[SubOf[j]], job[j].stage, job[j].case, job[j].passed, job[j].status)

VerdictInv ==
    /\ TypeInv
    /\ \A j \in Jobs : Progress(j)
    /\ \A s \in Subs : rows[s].total = cases[s]
    /\ VerdictIsEarned

\* SQL is not run natively on several cases: the setup.sql of a native workspace
\* stays that of the first (the finding of run GraderSql).
InputsAreOwn ==
    \A j \in Native \cup OnWeb : SubOf[j] \in Sql => \A n \in CaseCounts[SubOf[j]] : n <= 1

-----------------------------------------------------------------------------
(* What each action does to its job.                                        *)

\* Job j becomes this, the others stay.
Becomes(j, stage, box, case, passed, status) ==
    /\ job' \in [Jobs -> Job]
    /\ \A k \in Jobs \ {j} : job'[k] = job[k]
    /\ job'[j].stage = stage
    /\ job'[j].box = box
    /\ job'[j].case = case
    /\ job'[j].passed = passed
    /\ job'[j].status = status

LEMMA JobFields ==
    ASSUME TypeOK, NEW j \in Jobs
    PROVE  /\ job[j].stage \in Stage /\ job[j].box \in 0..Boxes /\ job[j].case \in Nat
           /\ job[j].passed \in Nat /\ job[j].status \in Reported
BY DEF TypeOK, Job

LEMMA StageChanges ==
    ASSUME TypeOK, NEW j \in Jobs, NEW stage \in Stage, job' = [job EXCEPT ![j].stage = stage]
    PROVE  Becomes(j, stage, job[j].box, job[j].case, job[j].passed, job[j].status)
<1>1. job \in [Jobs -> Job]
  BY DEF TypeOK
<1> QED BY <1>1 DEF Becomes, Job

\* It reports, and keeps its box.
LEMMA Reports ==
    ASSUME TypeOK, NEW j \in Jobs, NEW status \in Reported,
           job' = [job EXCEPT ![j].stage = "report", ![j].status = status]
    PROVE  Becomes(j, "report", job[j].box, job[j].case, job[j].passed, status)
<1>1. job \in [Jobs -> Job] /\ "report" \in Stage
  BY DEF TypeOK, Stage
<1> QED BY <1>1 DEF Becomes, Job

LEMMA ReportsAll ==
    ASSUME TypeOK, NEW j \in Jobs,
           job' = [[job EXCEPT ![j].stage = "report", ![j].status = "SUCCESS"]
                     EXCEPT ![j].passed = @ + 1]
    PROVE  Becomes(j, "report", job[j].box, job[j].case, job[j].passed + 1, "SUCCESS")
<1>1. job \in [Jobs -> Job] /\ "report" \in Stage /\ "SUCCESS" \in Reported
  BY DEF TypeOK, Stage, Reported
<1>2. job' = [job EXCEPT ![j].stage = "report", ![j].status = "SUCCESS",
                         ![j].passed = job[j].passed + 1]
  BY <1>1 DEF Job
<1> QED BY <1>1, <1>2 DEF Becomes, Job

LEMMA GoesOn ==
    ASSUME TypeOK, NEW j \in Jobs, job' = [job EXCEPT ![j].case = @ + 1, ![j].passed = @ + 1]
    PROVE  Becomes(j, job[j].stage, job[j].box, job[j].case + 1, job[j].passed + 1, job[j].status)
<1>1. job \in [Jobs -> Job]
  BY DEF TypeOK
<1> QED BY <1>1 DEF Becomes, Job

\* It reports, and gives its box back.
LEMMA EndsEffect ==
    ASSUME TypeOK, NEW j \in Jobs, NEW status \in Reported, Ends(j, status)
    PROVE  Becomes(j, "report", NoBox, job[j].case, job[j].passed, status)
<1>1. NoBox \in 0..Boxes /\ "report" \in Stage
  BY GraderAssumption DEF Stage, NoBox, GraderAssumption
<1>2. job \in [Jobs -> Job]
  BY DEF TypeOK
<1> QED BY <1>1, <1>2 DEF Becomes, Ends, Job

LEMMA CleanupEffect ==
    ASSUME TypeOK, NEW j \in Jobs, Cleanup(j)
    PROVE  \E stage \in {"failed", "done"} :
               Becomes(j, stage, NoBox, job[j].case, job[j].passed, job[j].status)
<1> DEFINE stage == IF job[j].stage = "raise" THEN "failed" ELSE "done"
<1>1. NoBox \in 0..Boxes /\ stage \in Stage /\ stage \in {"failed", "done"}
  BY GraderAssumption DEF Stage, NoBox, GraderAssumption
<1>2. job \in [Jobs -> Job]
  BY DEF TypeOK
<1>3. job' = [job EXCEPT ![j].stage = stage, ![j].box = NoBox]
  BY DEF Cleanup
<1> HIDE DEF stage
<1>4. Becomes(j, stage, NoBox, job[j].case, job[j].passed, job[j].status)
  BY <1>1, <1>2, <1>3 DEF Becomes, Job
<1> QED BY <1>1, <1>4

LEMMA TakeBoxEffect ==
    ASSUME TypeOK, NEW j \in Jobs, TakeBox(j)
    PROVE  /\ Head(freeBoxes) \in 1..Boxes /\ Tail(freeBoxes) \in Seq(1..Boxes)
           /\ Becomes(j, "init", Head(freeBoxes), job[j].case, job[j].passed, job[j].status)
<1>1. Head(freeBoxes) \in 1..Boxes /\ Tail(freeBoxes) \in Seq(1..Boxes)
  BY HeadTailProperties DEF TypeOK, TakeBox
<1>2. "init" \in Stage /\ Head(freeBoxes) \in 0..Boxes
  BY <1>1, GraderAssumption DEF Stage, GraderAssumption
<1>3. job \in [Jobs -> Job]
  BY DEF TypeOK
<1>4. job' = [job EXCEPT ![j].stage = "init", ![j].box = Head(freeBoxes)]
  BY DEF TakeBox
<1> DEFINE b == Head(freeBoxes)
<1> HIDE DEF b
<1>5. Becomes(j, "init", b, job[j].case, job[j].passed, job[j].status)
  BY <1>2, <1>3, <1>4 DEF Becomes, Job, b
<1> QED BY <1>1, <1>5 DEF b

\* What Compile, PrepareFails, RunCase, RunOnce and RunFails may report.
LEMMA Reportables ==
    /\ Killed \subseteq Reported /\ {"SUCCESS", "COMPILATION_ERROR", "SYSTEM_ERROR"} \subseteq Reported
    /\ "none" \notin Killed /\ "SUCCESS" \notin Killed /\ "COMPILATION_ERROR" \notin Killed
    /\ "SYSTEM_ERROR" \notin Killed /\ "right" \notin Killed /\ "wrong" \notin Killed
    /\ "PASSED" \notin Killed /\ "PENDING" \notin Killed
BY GraderAssumption DEF GraderAssumption, Reported

-----------------------------------------------------------------------------
(* Type correctness.                                                        *)

\* The answers of a program that compiles: one to each case, or one without cases.
LEMMA ProgramsType ==
    ASSUME GivenInv, cases \in [Subs -> Nat], NEW s \in Subs
    PROVE  /\ program[s] \in Seq(Answer)
           /\ program[s] # <<>> /\ cases[s] > 0 => program[s] \in [1..cases[s] -> Answer]
           /\ program[s] # <<>> /\ cases[s] = 0 => program[s][1] \in {"right"} \cup Killed
<1>1. program[s] \in Programs(s) /\ cases[s] \in Nat
  BY DEF GivenInv
<1>2. \A n \in Nat : [1..n -> Answer] \subseteq Seq(Answer)
  BY SeqDef
<1>3. [1..1 -> {"right"} \cup Killed] \subseteq [1..1 -> Answer]
  BY DEF Answer
<1>4. <<>> \in Seq(Answer)
  OBVIOUS
<1>5. CASE cases[s] = 0
  <2>1. program[s] \in [1..1 -> {"right"} \cup Killed] \cup {<<>>}
    BY <1>1, <1>5 DEF Programs
  <2>2. [1..1 -> Answer] \subseteq Seq(Answer)
    BY <1>2
  <2>3. program[s] \in Seq(Answer)
    BY <2>1, <2>2, <1>3, <1>4
  <2>4. ASSUME program[s] # <<>> PROVE program[s][1] \in {"right"} \cup Killed
    <3>1. program[s] \in [1..1 -> {"right"} \cup Killed]
      BY <2>1, <2>4
    <3>2. 1 \in 1..1
      OBVIOUS
    <3> QED BY <3>1, <3>2
  <2> QED BY <2>3, <2>4, <1>5
<1>6. CASE cases[s] > 0
  <2>1. program[s] \in [1..cases[s] -> Answer] \cup {<<>>}
    BY <1>1, <1>6 DEF Programs
  <2>2. [1..cases[s] -> Answer] \subseteq Seq(Answer)
    BY <1>1, <1>2
  <2>3. program[s] \in Seq(Answer)
    BY <2>1, <2>2, <1>4
  <2> QED BY <2>1, <2>3, <1>6
<1> QED BY <1>1, <1>5, <1>6

LEMMA FinalizeType ==
    ASSUME NEW s \in Subs, NEW status \in Reported \ {"none"}, NEW passed \in Nat, NEW total \in Nat
    PROVE  Finalize(s, status, passed, total) \in Row
<1>1. Least(passed, total) \in Nat
  BY DEF Least
<1>2. status \in Status
  BY DEF Status, Reported
<1> HIDE DEF Least
<1> QED BY <1>1, <1>2 DEF Finalize, Row, Status

LEMMA TypeInit == ASSUME Init PROVE TypeInv
<1> USE GraderAssumption
<1>1. \A s \in Subs : CaseCounts[s] \subseteq Nat
  BY DEF GraderAssumption
<1>2. GivenInv
  BY DEF Init, GivenInv
<1>3. cases \in [Subs -> Nat]
  BY <1>1 DEF Init
<1>4. program \in [Subs -> Seq(Answer)]
  <2>1. DOMAIN program = Subs /\ program = [s \in Subs |-> program[s]]
    BY DEF Init
  <2> QED BY <1>2, <1>3, <2>1, ProgramsType
<1>5. freeBoxes \in Seq(1..Boxes)
  BY SeqDef DEF Init, GraderAssumption
<1>6. job \in [Jobs -> Job]
  BY DEF Init, Job, Stage, Reported, NoBox, GraderAssumption
<1>7. rows \in [Subs -> Row]
  BY <1>3 DEF Init, Row, Status
<1>8. \A j \in Jobs : job[j].stage = "new"
  BY DEF Init
<1>9. faults \in Nat /\ inline \subseteq OnWeb
  BY DEF Init
<1> QED BY <1>2, <1>3, <1>4, <1>5, <1>6, <1>7, <1>8, <1>9 DEF TypeInv, TypeOK, At
\* What an action other than the job's needs for the type.
LEMMA StepType ==
    ASSUME TypeInv, NEW j \in Jobs, NEW stage \in Stage, NEW box, NEW case, NEW passed, NEW status,
           Becomes(j, stage, box, case, passed, status), stage = "report" => status # "none",
           UNCHANGED given, freeBoxes' \in Seq(1..Boxes), rows' \in [Subs -> Row], faults' \in Nat
    PROVE  TypeInv'
<1>1. GivenInv'
  BY DEF TypeInv, GivenInv, given, Programs
<1>2. TypeOK'
  BY DEF TypeInv, TypeOK, given, Becomes
<1>3. \A k \in Jobs : job'[k].stage = "report" => job'[k].status # "none"
  BY DEF TypeInv, At, Becomes
<1> QED BY <1>1, <1>2, <1>3 DEF TypeInv, At

LEMMA BoxBack ==
    ASSUME TypeOK, NEW j \in Jobs
    PROVE  (IF job[j].box = NoBox THEN freeBoxes ELSE Append(freeBoxes, job[j].box)) \in Seq(1..Boxes)
<1>1. job[j].box # NoBox => job[j].box \in 1..Boxes
  BY JobFields, GraderAssumption DEF NoBox, GraderAssumption
<1>2. freeBoxes \in Seq(1..Boxes)
  BY DEF TypeOK
<1> QED BY <1>1, <1>2, AppendProperties

LEMMA EndsType ==
    ASSUME TypeInv, NEW j \in Jobs, NEW status \in Reported \ {"none"}, Ends(j, status),
           UNCHANGED <<given, rows>>, faults' \in Nat
    PROVE  TypeInv'
<1>1. Becomes(j, "report", NoBox, job[j].case, job[j].passed, status)
  BY EndsEffect DEF TypeInv
<1>2. freeBoxes' \in Seq(1..Boxes)
  BY BoxBack DEF TypeInv, Ends
<1>3. "report" \in Stage /\ rows' \in [Subs -> Row]
  BY DEF Stage, TypeInv, TypeOK
<1> QED BY <1>1, <1>2, <1>3, StepType

LEMMA StageType ==
    ASSUME TypeInv, NEW j \in Jobs, NEW stage \in Stage \ {"report"},
           job' = [job EXCEPT ![j].stage = stage],
           UNCHANGED <<given, freeBoxes>>, rows' \in [Subs -> Row], faults' \in Nat
    PROVE  TypeInv'
<1>1. Becomes(j, stage, job[j].box, job[j].case, job[j].passed, job[j].status)
  BY StageChanges DEF TypeInv
<1>2. freeBoxes' \in Seq(1..Boxes)
  BY DEF TypeInv, TypeOK
<1> QED BY <1>1, <1>2, StepType

LEMMA RunCaseEffect ==
    ASSUME TypeInv, NEW j \in Jobs, RunCase(j)
    PROVE  LET answer == program[SubOf[j]][InputOf(j)]
               right == answer = "right" /\ InputOf(j) = job[j].case
               last == job[j].case = cases[SubOf[j]]
           IN  \/ /\ answer \in Killed
                  /\ Becomes(j, "report", job[j].box, job[j].case, job[j].passed, answer)
               \/ /\ answer \notin Killed /\ ~right
                  /\ Becomes(j, "report", job[j].box, job[j].case, job[j].passed, "SUCCESS")
               \/ /\ right /\ last
                  /\ Becomes(j, "report", job[j].box, job[j].case, job[j].passed + 1, "SUCCESS")
               \/ /\ right /\ ~last
                  /\ Becomes(j, "run", job[j].box, job[j].case + 1, job[j].passed + 1, job[j].status)
<1> DEFINE answer == program[SubOf[j]][InputOf(j)]
           right == answer = "right" /\ InputOf(j) = job[j].case
           last == job[j].case = cases[SubOf[j]]
<1>0. TypeOK
  BY DEF TypeInv
<1>1. job' = IF answer \in Killed THEN [job EXCEPT ![j].stage = "report", ![j].status = answer]
             ELSE IF ~right THEN [job EXCEPT ![j].stage = "report", ![j].status = "SUCCESS"]
             ELSE IF last THEN [[job EXCEPT ![j].stage = "report", ![j].status = "SUCCESS"]
                                  EXCEPT ![j].passed = @ + 1]
             ELSE [job EXCEPT ![j].case = @ + 1, ![j].passed = @ + 1]
  BY DEF RunCase
<1>2. job[j].stage = "run"
  BY DEF RunCase, At
<1> HIDE DEF right, last
<1>3. CASE answer \in Killed
  <2>1. answer \in Reported
    BY <1>3, Reportables
  <2>2. job' = [job EXCEPT ![j].stage = "report", ![j].status = answer]
    BY <1>1, <1>3
  <2> HIDE DEF answer
  <2>3. Becomes(j, "report", job[j].box, job[j].case, job[j].passed, answer)
    BY <1>0, <2>1, <2>2, Reports
  <2> QED BY <2>3, <1>3 DEF answer, right, last
<1>4. CASE answer \notin Killed /\ ~right
  <2>1. "SUCCESS" \in Reported
    BY Reportables
  <2>2. job' = [job EXCEPT ![j].stage = "report", ![j].status = "SUCCESS"]
    BY <1>1, <1>4
  <2>3. Becomes(j, "report", job[j].box, job[j].case, job[j].passed, "SUCCESS")
    BY <1>0, <2>1, <2>2, Reports
  <2> QED BY <2>3, <1>4 DEF right, last
<1>5. CASE right /\ last
  <2>1. answer \notin Killed
    BY <1>5, Reportables DEF right
  <2>2. job' = [[job EXCEPT ![j].stage = "report", ![j].status = "SUCCESS"]
                  EXCEPT ![j].passed = @ + 1]
    BY <1>1, <1>5, <2>1
  <2>3. Becomes(j, "report", job[j].box, job[j].case, job[j].passed + 1, "SUCCESS")
    BY <1>0, <2>2, ReportsAll
  <2> QED BY <2>3, <1>5 DEF right, last
<1>6. CASE right /\ ~last
  <2>1. answer \notin Killed
    BY <1>6, Reportables DEF right
  <2>2. job' = [job EXCEPT ![j].case = @ + 1, ![j].passed = @ + 1]
    BY <1>1, <1>6, <2>1
  <2>3. Becomes(j, "run", job[j].box, job[j].case + 1, job[j].passed + 1, job[j].status)
    BY <1>0, <2>2, <1>2, GoesOn
  <2> QED BY <2>3, <1>6 DEF right, last
<1> QED BY <1>3, <1>4, <1>5, <1>6

LEMMA RunCaseType ==
    ASSUME TypeInv, NEW j \in Jobs, RunCase(j)
    PROVE  TypeInv'
<1> DEFINE answer == program[SubOf[j]][InputOf(j)]
<1>1. UNCHANGED given /\ freeBoxes' \in Seq(1..Boxes) /\ rows' \in [Subs -> Row] /\ faults' \in Nat
  BY DEF RunCase, TypeInv, TypeOK
<1>2. "report" \in Stage /\ "run" \in Stage
  BY DEF Stage
<1>3. \A x \in Killed \cup {"SUCCESS"} : x # "none"
  BY Reportables
<1>4. \/ \E x \in Killed \cup {"SUCCESS"}, n \in {job[j].passed, job[j].passed + 1} :
             Becomes(j, "report", job[j].box, job[j].case, n, x)
      \/ Becomes(j, "run", job[j].box, job[j].case + 1, job[j].passed + 1, job[j].status)
  BY RunCaseEffect
<1>5. CASE \E x \in Killed \cup {"SUCCESS"}, n \in {job[j].passed, job[j].passed + 1} :
             Becomes(j, "report", job[j].box, job[j].case, n, x)
  <2>1. PICK x \in Killed \cup {"SUCCESS"}, n \in {job[j].passed, job[j].passed + 1} :
             Becomes(j, "report", job[j].box, job[j].case, n, x)
    BY <1>5
  <2>2. x # "none"
    BY <1>3
  <2> QED BY <2>1, <2>2, <1>1, <1>2, StepType
<1>6. CASE Becomes(j, "run", job[j].box, job[j].case + 1, job[j].passed + 1, job[j].status)
  BY <1>6, <1>1, <1>2, StepType
<1> QED BY <1>4, <1>5, <1>6
LEMMA SavesType ==
    ASSUME TypeInv, NEW j \in Jobs, At(j, "report"), Saves(j)
    PROVE  rows' \in [Subs -> Row]
<1> DEFINE s == SubOf[j]
           row == Finalize(s, job[j].status, job[j].passed, cases[s])
<1>1. s \in Subs
  BY GraderAssumption DEF GraderAssumption
<1>2. job[j].status \in Reported \ {"none"} /\ job[j].passed \in Nat /\ cases[s] \in Nat
  BY <1>1, JobFields DEF TypeInv, TypeOK
<1>3. row \in Row
  BY <1>1, <1>2, FinalizeType
<1>4. rows' = [rows EXCEPT ![s] = row]
  BY DEF Saves
<1> HIDE DEF row
<1> QED BY <1>1, <1>3, <1>4 DEF TypeInv, TypeOK

LEMMA GiveUpType ==
    ASSUME TypeInv, NEW j \in Jobs, GiveUp(j)
    PROVE  TypeInv'
<1> DEFINE s == SubOf[j]
           row == Finalize(s, "SYSTEM_ERROR", rows[s].passed, rows[s].total)
<1>1. s \in Subs
  BY GraderAssumption DEF GraderAssumption
<1>2. rows[s].passed \in Nat /\ rows[s].total \in Nat
  BY <1>1 DEF TypeInv, TypeOK, Row
<1>3. row \in Row
  BY <1>1, <1>2, FinalizeType, Reportables
<1>4. rows' = rows \/ rows' = [rows EXCEPT ![s] = row]
  BY DEF GiveUp
<1>5. rows' \in [Subs -> Row]
  <2> HIDE DEF row
  <2> QED BY <1>1, <1>3, <1>4 DEF TypeInv, TypeOK
<1>6. job' = [job EXCEPT ![j].stage = "done"] /\ UNCHANGED <<given, freeBoxes>> /\ faults' \in Nat
  BY DEF GiveUp, TypeInv, TypeOK
<1>7. "done" \in Stage \ {"report"}
  BY DEF Stage
<1> QED BY <1>5, <1>6, <1>7, StageType

LEMMA TypeStep == ASSUME TypeInv, [Next]_vars PROVE TypeInv'
<1> USE DEF TypeInv, TypeOK
<1>1. ASSUME NEW j \in Jobs, Grades(j) \/ PrepareFails(j) \/ RunFails(j) \/ ReportRaises(j)
      PROVE  TypeInv'
  <2>0. faults \in Nat /\ rows \in [Subs -> Row] /\ freeBoxes \in Seq(1..Boxes)
    OBVIOUS
  <2>1. {"init", "compile", "run", "return", "raise", "failed", "done"} \subseteq Stage \ {"report"}
    BY DEF Stage
  <2>2. {"SUCCESS", "COMPILATION_ERROR", "SYSTEM_ERROR"} \cup Killed \subseteq Reported \ {"none"}
    BY Reportables
  <2> USE DEF At
  <2> HIDE DEF TypeInv, TypeOK
  <2>3. CASE PrepareNative(j)
    BY <2>0, <2>1, <2>3, StageType DEF PrepareNative
  <2>4. CASE TakeBox(j)
    <3>1. TypeOK
      BY DEF TypeInv
    <3>2. freeBoxes' = Tail(freeBoxes) /\ UNCHANGED <<given, rows, faults>>
      BY <2>4 DEF TakeBox
    <3>3. "init" \in Stage
      BY <2>1
    <3> QED BY <2>0, <2>4, <3>1, <3>2, <3>3, TakeBoxEffect, StepType
  <2>5. CASE InitBox(j)
    BY <2>0, <2>1, <2>5, StageType DEF InitBox
  <2>6. CASE Compile(j)
    <3>1. CASE program[SubOf[j]] = <<>>
      BY <2>0, <2>2, <2>6, <3>1, EndsType DEF Compile
    <3>2. CASE program[SubOf[j]] # <<>>
      BY <2>0, <2>1, <2>6, <3>2, StageType DEF Compile
    <3> QED BY <3>1, <3>2
  <2>7. CASE RunCase(j)
    BY <2>7, RunCaseType
  <2>8. CASE RunOnce(j)
    <3> DEFINE answer == program[SubOf[j]][1]
    <3>1. Ends(j, IF answer \in Killed THEN answer ELSE "SUCCESS") /\ UNCHANGED <<given, rows, faults>>
      BY <2>8 DEF RunOnce
    <3>2. (IF answer \in Killed THEN answer ELSE "SUCCESS") \in Reported \ {"none"}
      BY <2>2
    <3> QED BY <2>0, <3>1, <3>2, EndsType
  <2>9. CASE Report(j)
    BY <2>0, <2>1, <2>9, SavesType, StageType DEF Report
  <2>10. CASE Cleanup(j)
    <3>1. TypeOK
      BY DEF TypeInv
    <3>2. PICK stage \in {"failed", "done"} :
             Becomes(j, stage, NoBox, job[j].case, job[j].passed, job[j].status)
      BY <2>10, <3>1, CleanupEffect
    <3>3. freeBoxes' \in Seq(1..Boxes) /\ UNCHANGED <<given, rows, faults>>
      BY <2>10, <3>1, BoxBack DEF Cleanup
    <3>4. stage \in Stage \ {"report"}
      BY <2>1
    <3> QED BY <2>0, <3>2, <3>3, <3>4, StepType
  <2>11. CASE GiveUp(j)
    BY <2>11, GiveUpType
  <2>12. CASE PrepareFails(j)
    <3>1. faults' \in Nat
      BY <2>0, <2>12 DEF PrepareFails, Fault
    <3> QED BY <2>2, <2>12, <3>1, EndsType DEF PrepareFails
  <2>13. CASE RunFails(j)
    <3>1. faults' \in Nat /\ UNCHANGED <<given, rows>>
      BY <2>0, <2>13 DEF RunFails, Fault
    <3>2. CASE /\ job' = [job EXCEPT ![j].stage = "report", ![j].status = "SYSTEM_ERROR"]
               /\ UNCHANGED freeBoxes
      <4>1. Becomes(j, "report", job[j].box, job[j].case, job[j].passed, "SYSTEM_ERROR")
        BY <3>2, <2>2, Reports DEF TypeInv
      <4>2. "report" \in Stage /\ "SYSTEM_ERROR" # "none"
        BY DEF Stage
      <4> QED BY <2>0, <3>1, <3>2, <4>1, <4>2, StepType
    <3>3. CASE Ends(j, "SYSTEM_ERROR")
      BY <2>2, <3>1, <3>3, EndsType
    <3>4. CASE job' = [job EXCEPT ![j].stage = "raise"] /\ UNCHANGED freeBoxes
      BY <2>0, <2>1, <3>1, <3>4, StageType
    <3> QED BY <2>13, <3>2, <3>3, <3>4 DEF RunFails
  <2>14. CASE ReportRaises(j)
    <3>1. faults' \in Nat /\ UNCHANGED <<given, freeBoxes>>
      BY <2>0, <2>14 DEF ReportRaises, Fault
    <3>2. rows' \in [Subs -> Row]
      BY <2>0, <2>14, SavesType DEF ReportRaises
    <3> QED BY <2>1, <2>14, <3>1, <3>2, StageType DEF ReportRaises
  <2> QED BY <1>1, <2>3, <2>4, <2>5, <2>6, <2>7, <2>8, <2>9, <2>10, <2>11, <2>12, <2>13, <2>14
      DEF Grades
<1>2. ASSUME UNCHANGED vars PROVE TypeInv'
  BY <1>2 DEF vars, given, GivenInv, Programs, At
<1> QED BY <1>1, <1>2 DEF Next

\* The variables of a grader keep their types (grader.py, sandbox.py: a job has a
\* status to report whenever it reports), and its submissions keep what they were given.
THEOREM TypeCorrect == Spec => []TypeOK
<1>1. Init => TypeInv
  BY TypeInit
<1>2. TypeInv /\ [Next]_vars => TypeInv'
  BY TypeStep
<1>3. TypeInv => TypeOK
  BY DEF TypeInv
<1> QED BY <1>1, <1>2, <1>3, PTL DEF Spec
-----------------------------------------------------------------------------
(* Boxes.                                                                   *)

LEMMA BoxInit == ASSUME Init PROVE BoxInv
<1>1. DOMAIN freeBoxes = 1..Boxes /\ \A b \in 1..Boxes : freeBoxes[b] = b
  BY DEF Init
<1>2. \A j \in Jobs : job[j].box = NoBox
  BY DEF Init
<1> QED BY <1>1, <1>2 DEF BoxInv, InQueue

\* A job that starts, compiles, runs on or reports keeps what it holds.
LEMMA BoxStays ==
    ASSUME BoxInv, NEW j \in Jobs, NEW stage \in Stage \ {"new"}, NEW case, NEW passed, NEW status,
           Becomes(j, stage, job[j].box, case, passed, status), UNCHANGED freeBoxes
    PROVE  BoxInv'
<1>1. \A k \in Jobs : job'[k].box = job[k].box
  BY DEF Becomes
<1>2. \A k \in Jobs : job'[k].stage = "new" => job[k].stage = "new"
  BY DEF Becomes
<1> QED BY <1>1, <1>2 DEF BoxInv, InQueue, Holds, At

LEMMA BoxTaken ==
    ASSUME TypeOK, BoxInv, NEW j \in Jobs, TakeBox(j)
    PROVE  BoxInv'
<1> DEFINE b == Head(freeBoxes)
           n == Len(freeBoxes)
<1>0. freeBoxes \in Seq(1..Boxes) /\ freeBoxes # <<>> /\ freeBoxes' = Tail(freeBoxes)
      /\ job[j].stage = "new"
  BY DEF TypeOK, TakeBox, At
<1>1. /\ n \in Nat /\ n >= 1 /\ DOMAIN freeBoxes = 1..n /\ freeBoxes[1] = b
      /\ DOMAIN freeBoxes' = 1..(n - 1)
      /\ \A i \in 1..(n - 1) : freeBoxes'[i] = freeBoxes[i + 1]
  BY <1>0, HeadTailProperties, LenProperties, EmptySeq
<1>2. /\ job'[j].box = b /\ job'[j].stage = "init" /\ b \in 1..Boxes
      /\ \A k \in Jobs \ {j} : job'[k] = job[k]
  BY TakeBoxEffect DEF Becomes
<1>3. job[j].box = NoBox
  BY <1>0 DEF BoxInv, At
<1>4. InQueue(b)
  BY <1>1 DEF InQueue
<1>5. b # NoBox /\ b \in Nat
  BY <1>2, GraderAssumption DEF NoBox, GraderAssumption
<1> HIDE DEF b, n
<1>6. \A i, k \in DOMAIN freeBoxes : freeBoxes[i] = freeBoxes[k] => i = k
  BY DEF BoxInv
<1>7. \A i, k \in DOMAIN freeBoxes' : freeBoxes'[i] = freeBoxes'[k] => i = k
  <2>1. ASSUME NEW i \in 1..(n - 1), NEW k \in 1..(n - 1), freeBoxes'[i] = freeBoxes'[k] PROVE i = k
    <3>1. i + 1 \in 1..n /\ k + 1 \in 1..n
      BY <1>1
    <3>2. freeBoxes[i + 1] = freeBoxes[k + 1]
      BY <2>1, <1>1
    <3>3. i + 1 = k + 1
      BY <3>1, <3>2, <1>1, <1>6
    <3> QED BY <3>3
  <2> QED BY <2>1, <1>1
<1>8. \A k \in Jobs : job[k].box # b
  BY <1>4, <1>5 DEF BoxInv
<1>9. \A c : (\E i \in DOMAIN freeBoxes' : freeBoxes'[i] = c) <=> InQueue(c) /\ c # b
  <2>1. ASSUME NEW i \in DOMAIN freeBoxes' PROVE InQueue(freeBoxes'[i]) /\ freeBoxes'[i] # b
    <3>1. i + 1 \in 1..n /\ 1 \in 1..n /\ i + 1 # 1
      BY <1>1
    <3>2. freeBoxes[i + 1] # freeBoxes[1]
      BY <3>1, <1>1, <1>6
    <3> QED BY <3>1, <3>2, <1>1 DEF InQueue
  <2>2. ASSUME NEW c, InQueue(c), c # b PROVE \E i \in DOMAIN freeBoxes' : freeBoxes'[i] = c
    <3>1. PICK k \in 1..n : freeBoxes[k] = c
      BY <2>2, <1>1 DEF InQueue
    <3>2. k # 1
      BY <3>1, <2>2, <1>1
    <3>3. k - 1 \in 1..(n - 1) /\ (k - 1) + 1 = k
      BY <3>1, <3>2, <1>1
    <3>4. freeBoxes'[k - 1] = c
      BY <3>1, <3>3, <1>1
    <3> QED BY <3>3, <3>4, <1>1
  <2> QED BY <2>1, <2>2
<1>10. \A k, l \in Jobs : job'[k].box = job'[l].box /\ job'[k].box # NoBox => k = l
  BY <1>2, <1>8 DEF BoxInv
<1>11. \A k \in Jobs : job'[k].box # NoBox => ~(\E i \in DOMAIN freeBoxes' : freeBoxes'[i] = job'[k].box)
  BY <1>2, <1>9 DEF BoxInv
<1>12. \A c \in 1..Boxes : \/ \E i \in DOMAIN freeBoxes' : freeBoxes'[i] = c
                          \/ \E k \in Jobs : job'[k].box = c
  <2>1. ASSUME NEW c \in 1..Boxes, ~InQueue(c) PROVE \E k \in Jobs : job'[k].box = c
    <3>1. PICK k \in Jobs : job[k].box = c
      BY <2>1 DEF BoxInv, Holds
    <3>2. c # NoBox
      BY <2>1, GraderAssumption DEF NoBox, GraderAssumption
    <3>3. k # j
      BY <3>1, <3>2, <1>3
    <3> QED BY <3>1, <3>3, <1>2
  <2> QED BY <2>1, <1>2, <1>9
<1>13. \A k \in Jobs : job'[k].stage = "new" => job'[k].box = NoBox
  BY <1>2 DEF BoxInv, At
<1> QED BY <1>7, <1>10, <1>11, <1>12, <1>13 DEF BoxInv, InQueue, Holds, At

\* The sandbox or the finally of grade_submission gives it back.
LEMMA BoxGivenBack ==
    ASSUME TypeOK, BoxInv, NEW j \in Jobs, NEW stage \in Stage \ {"new"}, NEW case, NEW passed, NEW status,
           Becomes(j, stage, NoBox, case, passed, status),
           freeBoxes' = IF job[j].box = NoBox THEN freeBoxes ELSE Append(freeBoxes, job[j].box)
    PROVE  BoxInv'
<1>1. CASE job[j].box = NoBox
  <2>1. Becomes(j, stage, job[j].box, case, passed, status) /\ UNCHANGED freeBoxes
    BY <1>1
  <2> QED BY <2>1, BoxStays
<1>2. CASE job[j].box # NoBox
  <2> DEFINE b == job[j].box
             n == Len(freeBoxes)
  <2>1. freeBoxes \in Seq(1..Boxes) /\ b \in 1..Boxes /\ freeBoxes' = Append(freeBoxes, b)
    BY <1>2, JobFields, GraderAssumption DEF TypeOK, NoBox, GraderAssumption
  <2>2. /\ n \in Nat /\ DOMAIN freeBoxes = 1..n /\ DOMAIN freeBoxes' = 1..(n + 1)
        /\ freeBoxes'[n + 1] = b
        /\ \A i \in 1..n : freeBoxes'[i] = freeBoxes[i]
    BY <2>1, AppendProperties, LenProperties
  <2>3. ~InQueue(b) /\ b # NoBox
    BY <1>2 DEF BoxInv
  <2>4. /\ job'[j].box = NoBox /\ job'[j].stage # "new"
        /\ \A k \in Jobs \ {j} : job'[k] = job[k]
    BY DEF Becomes
  <2>5. \A k \in Jobs \ {j} : job[k].box # b
    BY <2>3 DEF BoxInv
  <2>6. \A i, k \in DOMAIN freeBoxes : freeBoxes[i] = freeBoxes[k] => i = k
    BY DEF BoxInv
  <2> HIDE DEF b, n
  <2>7. \A i \in 1..n : freeBoxes[i] # b
    BY <2>2, <2>3 DEF InQueue
  <2>8. \A i, k \in DOMAIN freeBoxes' : freeBoxes'[i] = freeBoxes'[k] => i = k
    <3>1. ASSUME NEW i \in 1..(n + 1), NEW k \in 1..(n + 1), freeBoxes'[i] = freeBoxes'[k] PROVE i = k
      <4>1. (i \in 1..n \/ i = n + 1) /\ (k \in 1..n \/ k = n + 1)
        BY <2>2
      <4> QED BY <4>1, <3>1, <2>2, <2>6, <2>7
    <3> QED BY <3>1, <2>2
  <2>9. \A c : (\E i \in DOMAIN freeBoxes' : freeBoxes'[i] = c) <=> InQueue(c) \/ c = b
    <3>1. \A i \in 1..(n + 1) : i \in 1..n \/ i = n + 1
      BY <2>2
    <3>2. 1..n \subseteq 1..(n + 1) /\ n + 1 \in 1..(n + 1)
      BY <2>2
    <3> QED BY <3>1, <3>2, <2>2 DEF InQueue
  <2>10. \A k, l \in Jobs : job'[k].box = job'[l].box /\ job'[k].box # NoBox => k = l
    BY <2>4 DEF BoxInv
  <2>11. \A k \in Jobs : job'[k].box # NoBox => ~(\E i \in DOMAIN freeBoxes' : freeBoxes'[i] = job'[k].box)
    BY <2>4, <2>5, <2>9 DEF BoxInv
  <2>12. \A c \in 1..Boxes : \/ \E i \in DOMAIN freeBoxes' : freeBoxes'[i] = c
                            \/ \E k \in Jobs : job'[k].box = c
    <3>1. ASSUME NEW c \in 1..Boxes, ~InQueue(c), c # b PROVE \E k \in Jobs : job'[k].box = c
      <4>1. PICK k \in Jobs : job[k].box = c
        BY <3>1 DEF BoxInv, Holds
      <4>2. k # j
        BY <4>1, <3>1 DEF b
      <4> QED BY <4>1, <4>2, <2>4
    <3> QED BY <3>1, <2>9
  <2>13. \A k \in Jobs : job'[k].stage = "new" => job'[k].box = NoBox
    BY <2>4 DEF BoxInv, At
  <2> QED BY <2>8, <2>10, <2>11, <2>12, <2>13 DEF BoxInv, InQueue, Holds, At
<1> QED BY <1>1, <1>2

\* A job whose stage is all that changes.
LEMMA BoxMoves ==
    ASSUME TypeOK, BoxInv, NEW j \in Jobs, NEW stage \in Stage \ {"new"},
           job' = [job EXCEPT ![j].stage = stage], UNCHANGED freeBoxes
    PROVE  BoxInv'
BY StageChanges, BoxStays

LEMMA BoxEnds ==
    ASSUME TypeOK, BoxInv, NEW j \in Jobs, NEW status \in Reported, Ends(j, status)
    PROVE  BoxInv'
<1>1. Becomes(j, "report", NoBox, job[j].case, job[j].passed, status)
  BY EndsEffect
<1>2. "report" \in Stage \ {"new"}
  BY DEF Stage
<1> QED BY <1>1, <1>2, BoxGivenBack DEF Ends

LEMMA BoxStep == ASSUME TypeInv, BoxInv, [Next]_vars PROVE BoxInv'
<1>0. TypeOK
  BY DEF TypeInv
<1>1. ASSUME NEW j \in Jobs, Grades(j) \/ PrepareFails(j) \/ RunFails(j) \/ ReportRaises(j)
      PROVE  BoxInv'
  <2>1. {"init", "compile", "run", "report", "return", "raise", "failed", "done"} \subseteq Stage \ {"new"}
    BY DEF Stage
  <2>2. {"SUCCESS", "COMPILATION_ERROR", "SYSTEM_ERROR"} \cup Killed \subseteq Reported
    BY Reportables
  <2>3. CASE PrepareNative(j)
    BY <1>0, <2>1, <2>3, BoxMoves DEF PrepareNative
  <2>4. CASE TakeBox(j)
    BY <1>0, <2>4, BoxTaken
  <2>5. CASE InitBox(j)
    BY <1>0, <2>1, <2>5, BoxMoves DEF InitBox
  <2>6. CASE Compile(j)
    <3>1. CASE program[SubOf[j]] = <<>>
      BY <1>0, <2>2, <2>6, <3>1, BoxEnds DEF Compile
    <3>2. CASE program[SubOf[j]] # <<>>
      BY <1>0, <2>1, <2>6, <3>2, BoxMoves DEF Compile
    <3> QED BY <3>1, <3>2
  <2>7. CASE RunCase(j)
    <3>1. \E stage \in {"report", "run"} : \E case, passed, status :
              Becomes(j, stage, job[j].box, case, passed, status)
      BY <2>7, RunCaseEffect
    <3>2. UNCHANGED freeBoxes
      BY <2>7 DEF RunCase
    <3> QED BY <2>1, <3>1, <3>2, BoxStays
  <2>8. CASE RunOnce(j)
    <3> DEFINE answer == program[SubOf[j]][1]
    <3>1. Ends(j, IF answer \in Killed THEN answer ELSE "SUCCESS")
      BY <2>8 DEF RunOnce
    <3>2. (IF answer \in Killed THEN answer ELSE "SUCCESS") \in Reported
      BY <2>2
    <3> QED BY <1>0, <3>1, <3>2, BoxEnds
  <2>9. CASE Report(j)
    BY <1>0, <2>1, <2>9, BoxMoves DEF Report
  <2>10. CASE Cleanup(j)
    <3>1. PICK stage \in {"failed", "done"} :
             Becomes(j, stage, NoBox, job[j].case, job[j].passed, job[j].status)
      BY <1>0, <2>10, CleanupEffect
    <3>2. stage \in Stage \ {"new"}
      BY <2>1
    <3> QED BY <1>0, <2>10, <3>1, <3>2, BoxGivenBack DEF Cleanup
  <2>11. CASE GiveUp(j)
    BY <1>0, <2>1, <2>11, BoxMoves DEF GiveUp
  <2>12. CASE PrepareFails(j)
    BY <1>0, <2>2, <2>12, BoxEnds DEF PrepareFails
  <2>13. CASE RunFails(j)
    <3>2. CASE /\ job' = [job EXCEPT ![j].stage = "report", ![j].status = "SYSTEM_ERROR"]
               /\ UNCHANGED freeBoxes
      BY <1>0, <2>1, <2>2, <3>2, Reports, BoxStays
    <3>3. CASE Ends(j, "SYSTEM_ERROR")
      BY <1>0, <2>2, <3>3, BoxEnds
    <3>4. CASE job' = [job EXCEPT ![j].stage = "raise"] /\ UNCHANGED freeBoxes
      BY <1>0, <2>1, <3>4, BoxMoves
    <3> QED BY <2>13, <3>2, <3>3, <3>4 DEF RunFails
  <2>14. CASE ReportRaises(j)
    BY <1>0, <2>1, <2>14, BoxMoves DEF ReportRaises
  <2> QED BY <1>1, <2>3, <2>4, <2>5, <2>6, <2>7, <2>8, <2>9, <2>10, <2>11, <2>12, <2>13, <2>14
      DEF Grades
<1>2. ASSUME UNCHANGED vars PROVE BoxInv'
  BY <1>2 DEF vars, BoxInv, InQueue, Holds, At
<1> QED BY <1>1, <1>2 DEF Next

LEMMA BoxesCounted == ASSUME BoxInv PROVE BoxesConserved
<1> SUFFICES ASSUME NEW b \in 1..Boxes
             PROVE  Cardinality({i \in DOMAIN freeBoxes : freeBoxes[i] = b})
                      + Cardinality({j \in Jobs : job[j].box = b}) = 1
  BY DEF BoxesConserved
<1> DEFINE Q == {i \in DOMAIN freeBoxes : freeBoxes[i] = b}
           H == {j \in Jobs : job[j].box = b}
<1>0. b # NoBox
  BY GraderAssumption DEF NoBox, GraderAssumption
<1>1. CASE InQueue(b)
  <2>1. PICK i \in DOMAIN freeBoxes : freeBoxes[i] = b
    BY <1>1 DEF InQueue
  <2>2. Q = {i}
    BY <2>1 DEF BoxInv
  <2>3. H = {}
    BY <1>0, <1>1 DEF BoxInv
  <2>4. Cardinality(Q) = 1 /\ Cardinality(H) = 0
    <3> HIDE DEF Q, H
    <3> QED BY <2>2, <2>3, FS_Singleton, FS_EmptySet
  <2> QED BY <2>4
<1>2. CASE ~InQueue(b)
  <2>1. PICK j \in Jobs : job[j].box = b
    BY <1>2 DEF BoxInv, Holds
  <2>2. H = {j}
    BY <1>0, <2>1 DEF BoxInv
  <2>3. Q = {}
    BY <1>2 DEF InQueue
  <2>4. Cardinality(Q) = 0 /\ Cardinality(H) = 1
    <3> HIDE DEF Q, H
    <3> QED BY <2>2, <2>3, FS_Singleton, FS_EmptySet
  <2> QED BY <2>4
<1> QED BY <1>1, <1>2

\* Whatever fails in a job, wherever: the pool of isolate boxes (sandbox.py,
\* _BOX_ID_QUEUE, prepare_execution and cleanup) keeps each of its boxes, and
\* gives none of them to two jobs.
THEOREM BoxesAreKept == Spec => []BoxesConserved
<1>1. Init => TypeInv /\ BoxInv
  BY TypeInit, BoxInit
<1>2. (TypeInv /\ BoxInv) /\ [Next]_vars => (TypeInv /\ BoxInv)'
  BY TypeStep, BoxStep
<1>3. TypeInv /\ BoxInv => BoxesConserved
  BY BoxesCounted
<1> QED BY <1>1, <1>2, <1>3, PTL DEF Spec
-----------------------------------------------------------------------------
(* Verdicts.                                                                *)

LEMMA SubsOfJobs ==
    ASSUME TypeInv, NEW j \in Jobs
    PROVE  SubOf[j] \in Subs /\ cases[SubOf[j]] \in Nat /\ cases[SubOf[j]] \in CaseCounts[SubOf[j]]
BY GraderAssumption DEF GraderAssumption, TypeInv, TypeOK, GivenInv

LEMMA MissIsFirst ==
    ASSUME NEW s \in Subs, cases[s] \in Nat, NEW n, Misses(cases[s], program[s], n)
    PROVE  FirstMiss(s) = n
<1> DEFINE P(i) == /\ i <= cases[s] => program[s][i] # "right"
                   /\ \A k \in 1..(i - 1) : program[s][k] = "right"
<1>1. n \in 1..(cases[s] + 1) /\ P(n)
  BY DEF Misses
<1>2. \A i \in 1..(cases[s] + 1) : P(i) => i = n
  <2>1. ASSUME NEW i \in 1..(cases[s] + 1), P(i), NEW k \in 1..(cases[s] + 1), P(k), i < k PROVE FALSE
    <3>1. i <= cases[s] /\ i \in 1..(k - 1)
      BY <2>1
    <3> QED BY <2>1, <3>1
  <2> HIDE DEF P
  <2> QED BY <1>1, <2>1
<1>3. FirstMiss(s) = CHOOSE i \in 1..(cases[s] + 1) : P(i)
  BY DEF FirstMiss
<1> HIDE DEF P
<1> QED BY <1>1, <1>2, <1>3

\* finalize_submission_result makes the verdict of the report.
Earned(s, row) ==
    /\ row.status \notin {"PENDING", "SYSTEM_ERROR"} =>
          /\ row.status = Judged(s).status
          /\ row.passed = Judged(s).passed
          /\ row.total = cases[s]
    /\ row.marks = IF row.status = "PASSED" THEN TotalMarks ELSE 0

LEMMA FinalizeEarns ==
    ASSUME TypeInv, NEW s \in Subs, NEW status \in Reported \ {"none"}, NEW passed,
           Tells(cases[s], program[s], status, passed)
    PROVE  LET row == Finalize(s, status, passed, cases[s])
           IN  row.total = cases[s] /\ Earned(s, row)
<1> DEFINE row == Finalize(s, status, passed, cases[s])
           c == cases[s]
           judged == status = "SUCCESS" /\ s \notin Practice
<1>1. c \in Nat /\ passed \in 0..c /\ (s \notin Practice => c # 0)
  BY GraderAssumption DEF GraderAssumption, TypeInv, TypeOK, GivenInv, Tells
<1>2. /\ row.status = IF ~judged THEN status ELSE IF passed = c THEN "PASSED" ELSE "WRONG_ANSWER"
      /\ row.passed = passed /\ row.total = c
      /\ row.marks = IF judged /\ passed = c THEN TotalMarks ELSE 0
  <2>1. Least(passed, c) = passed
    BY <1>1 DEF Least
  <2> HIDE DEF Least
  <2> QED BY <2>1 DEF Finalize
<1>3. status # "PASSED" /\ status # "WRONG_ANSWER" /\ "SUCCESS" \notin Killed
  BY GraderAssumption DEF GraderAssumption, Reported
<1>4. row.marks = IF row.status = "PASSED" THEN TotalMarks ELSE 0
  BY <1>2, <1>3
<1> HIDE DEF row
<1>5. ASSUME status # "SYSTEM_ERROR" PROVE row.status = Judged(s).status /\ row.passed = Judged(s).passed
  <2>1. CASE program[s] = <<>>
    <3>1. status = "COMPILATION_ERROR" /\ passed = 0
      BY <1>5, <2>1 DEF Tells
    <3>2. Judged(s).status = "COMPILATION_ERROR" /\ Judged(s).passed = 0
      BY <2>1 DEF Judged
    <3> QED BY <3>1, <3>2, <1>2
  <2>2. CASE program[s] # <<>> /\ c = 0
    <3>1. status = IF program[s][1] \in Killed THEN program[s][1] ELSE "SUCCESS"
      BY <1>5, <2>2 DEF Tells
    <3>2. Judged(s).status = status /\ Judged(s).passed = 0
      BY <2>2, <3>1 DEF Judged
    <3>3. ~judged /\ passed = 0
      BY <1>1, <2>2
    <3> QED BY <3>2, <3>3, <1>2
  <2>3. CASE program[s] # <<>> /\ c # 0
    <3>1. /\ Misses(c, program[s], passed + 1)
          /\ status = IF passed < c /\ program[s][passed + 1] \in Killed
                      THEN program[s][passed + 1] ELSE "SUCCESS"
      BY <1>5, <2>3 DEF Tells
    <3>2. FirstMiss(s) = passed + 1
      BY <1>1, <3>1, MissIsFirst
    <3>3. /\ Judged(s).passed = (passed + 1) - 1
          /\ Judged(s).status = IF passed + 1 <= c /\ program[s][passed + 1] \in Killed
                                THEN program[s][passed + 1]
                                ELSE IF s \in Practice THEN "SUCCESS"
                                ELSE IF passed + 1 > c THEN "PASSED" ELSE "WRONG_ANSWER"
      BY <2>3, <3>2 DEF Judged
    <3>4. (passed + 1) - 1 = passed /\ (passed + 1 <= c <=> passed < c) /\ (passed + 1 > c <=> passed = c)
      BY <1>1
    <3> QED BY <3>1, <3>3, <3>4, <1>2, <1>3
  <2> QED BY <2>1, <2>2, <2>3
<1>6. row.status = "SYSTEM_ERROR" => status = "SYSTEM_ERROR"
  BY <1>2
<1>7. status = "SYSTEM_ERROR" => row.status = "SYSTEM_ERROR"
  BY <1>2
<1>8. Earned(s, row)
  BY <1>2, <1>4, <1>5, <1>7 DEF Earned
<1> QED BY <1>2, <1>8 DEF row
LEMMA ProgressMade ==
    ASSUME TypeInv, \A k \in Jobs : Progress(k), NEW j \in Jobs, NEW stage, NEW box, NEW case,
           NEW passed, NEW status, Becomes(j, stage, box, case, passed, status), UNCHANGED given,
           Fits(cases[SubOf[j]], program[SubOf[j]], stage, case, passed, status)
    PROVE  \A k \in Jobs : Progress(k)'
<1>1. cases' = cases /\ program' = program
  BY DEF given
<1>2. Progress(j)'
  BY <1>1 DEF Progress, Becomes
<1>3. ASSUME NEW k \in Jobs \ {j} PROVE Progress(k)'
  <2>1. job'[k] = job[k] /\ Progress(k)
    BY DEF Becomes
  <2> QED BY <1>1, <2>1 DEF Progress
<1> QED BY <1>2, <1>3

RowsEarned == \A s \in Subs : rows[s].total = cases[s] /\ Earned(s, rows[s])

LEMMA RowsAre ==
    VerdictInv <=> TypeInv /\ (\A j \in Jobs : Progress(j)) /\ RowsEarned
BY DEF VerdictInv, VerdictIsEarned, RowsEarned, Earned

LEMMA JudgedAlike ==
    ASSUME UNCHANGED given, NEW s, NEW row
    PROVE  Earned(s, row) <=> Earned(s, row)'
<1>1. cases' = cases /\ program' = program
  BY DEF given
<1> QED BY <1>1 DEF Earned, Judged, FirstMiss
LEMMA RowsStay ==
    ASSUME RowsEarned, UNCHANGED given, UNCHANGED rows
    PROVE  RowsEarned'
<1>1. SUFFICES ASSUME NEW s \in Subs PROVE rows'[s].total = cases'[s] /\ Earned(s, rows[s])'
  BY DEF RowsEarned
<1>2. cases' = cases /\ rows' = rows
  BY DEF given
<1>3. \A row : Earned(s, row) => Earned(s, row)'
  BY JudgedAlike
<1>4. Earned(s, rows[s]) /\ rows[s].total = cases[s]
  BY DEF RowsEarned
<1>5. PICK row : row = rows[s]
  OBVIOUS
<1>6. Earned(s, row)'
  BY <1>3, <1>4, <1>5
<1>7. row = rows'[s]
  BY <1>2, <1>5
<1>8. Earned(s, rows[s])'
  BY <1>6, <1>7 DEF Earned
<1> QED BY <1>2, <1>4, <1>8

LEMMA RowSaved ==
    ASSUME TypeInv, RowsEarned, UNCHANGED given, NEW s \in Subs, NEW row,
           rows' = [rows EXCEPT ![s] = row], row.total = cases[s], Earned(s, row)
    PROVE  RowsEarned'
<1>0. cases' = cases
  BY DEF given
<1>1. SUFFICES ASSUME NEW t \in Subs PROVE rows'[t].total = cases'[t] /\ Earned(t, rows[t])'
  BY DEF RowsEarned
<1>2. PICK new : new = IF t = s THEN row ELSE rows[t]
  OBVIOUS
<1>3. new = rows'[t]
  BY <1>2 DEF TypeInv, TypeOK
<1>4. Earned(t, new) /\ new.total = cases[t]
  BY <1>2 DEF RowsEarned
<1>5. Earned(t, new)'
  BY <1>4, JudgedAlike
<1>6. Earned(t, rows[t])'
  BY <1>3, <1>5 DEF Earned
<1> QED BY <1>0, <1>3, <1>4, <1>6

LEMMA SavesEarned ==
    ASSUME TypeInv, RowsEarned, NEW j \in Jobs, Progress(j), At(j, "report"), Saves(j), UNCHANGED given
    PROVE  RowsEarned'
<1> DEFINE s == SubOf[j]
           row == Finalize(s, job[j].status, job[j].passed, cases[s])
<1>1. s \in Subs
  BY SubsOfJobs
<1>2. job[j].status \in Reported \ {"none"}
  BY JobFields DEF TypeInv
<1>3. Tells(cases[s], program[s], job[j].status, job[j].passed)
  BY DEF Progress, Fits, At
<1>4. row.total = cases[s] /\ Earned(s, row)
  BY <1>1, <1>2, <1>3, FinalizeEarns
<1>5. rows' = [rows EXCEPT ![s] = row]
  BY DEF Saves
<1> HIDE DEF row
<1> QED BY <1>1, <1>4, <1>5, RowSaved

\* The SYSTEM_ERROR of a job given up.
LEMMA GiveUpEarned ==
    ASSUME TypeInv, RowsEarned, NEW j \in Jobs, GiveUp(j)
    PROVE  RowsEarned'
<1> DEFINE s == SubOf[j]
           row == Finalize(s, "SYSTEM_ERROR", rows[s].passed, rows[s].total)
<1>1. s \in Subs /\ UNCHANGED given
  BY SubsOfJobs DEF GiveUp
<1>2. row.status = "SYSTEM_ERROR" /\ row.marks = 0 /\ row.total = rows[s].total
  BY DEF Finalize
<1>3. row.total = cases[s] /\ Earned(s, row)
  BY <1>1, <1>2 DEF RowsEarned, Earned
<1>4. CASE UNCHANGED rows
  BY <1>1, <1>4, RowsStay
<1>5. CASE rows' = [rows EXCEPT ![s] = row]
  <2> HIDE DEF row
  <2> QED BY <1>1, <1>3, <1>5, RowSaved
<1> QED BY <1>4, <1>5 DEF GiveUp

-----------------------------------------------------------------------------
(* The loop over the cases.                                                 *)

LEMMA InputIsOwn ==
    ASSUME InputsAreOwn, TypeInv, NEW j \in Jobs, job[j].case \in 1..cases[SubOf[j]]
    PROVE  InputOf(j) = job[j].case
<1>1. CASE SubOf[j] \in Sql /\ IsNative(j)
  <2>1. j \in Native \cup OnWeb
    BY <1>1 DEF IsNative, TypeInv, TypeOK
  <2>2. cases[SubOf[j]] <= 1
    BY <1>1, <2>1, SubsOfJobs DEF InputsAreOwn
  <2>3. job[j].case = 1
    BY <2>2, SubsOfJobs
  <2> QED BY <2>3 DEF InputOf
<1>2. CASE ~(SubOf[j] \in Sql /\ IsNative(j))
  BY <1>2 DEF InputOf
<1> QED BY <1>1, <1>2

\* What the loop makes of an answer, told of any cases and program.
LEMMA LoopTells ==
    ASSUME NEW c \in Nat \ {0}, NEW p, p # <<>>, NEW case, NEW passed, NEW status,
           Looping(c, p, case, passed)
    PROVE  /\ p[case] \in Killed => Fits(c, p, "report", case, passed, p[case])
           /\ p[case] \notin Killed /\ p[case] # "right" => Fits(c, p, "report", case, passed, "SUCCESS")
           /\ p[case] = "right" /\ case = c => Fits(c, p, "report", case, passed + 1, "SUCCESS")
           /\ p[case] = "right" /\ case # c => Fits(c, p, "run", case + 1, passed + 1, status)
<1>1. /\ case \in 1..c /\ passed = case - 1 /\ passed \in Nat /\ case = passed + 1
      /\ \A k \in 1..passed : p[k] = "right"
  BY DEF Looping
<1>2. passed \in 0..c /\ passed < c /\ (passed + 1) - 1 = passed
  BY <1>1
<1>3. ASSUME p[case] # "right" PROVE Misses(c, p, passed + 1)
  BY <1>1, <1>2, <1>3 DEF Misses
<1>4. ASSUME p[case] \in Killed PROVE Fits(c, p, "report", case, passed, p[case])
  <2>1. p[case] # "right"
    BY <1>4, Reportables
  <2>2. Tells(c, p, p[case], passed)
    BY <1>1, <1>2, <1>3, <1>4, <2>1 DEF Tells
  <2> QED BY <2>2 DEF Fits
<1>5. ASSUME p[case] \notin Killed, p[case] # "right" PROVE Fits(c, p, "report", case, passed, "SUCCESS")
  <2>1. Tells(c, p, "SUCCESS", passed)
    BY <1>1, <1>2, <1>3, <1>5 DEF Tells
  <2> QED BY <2>1 DEF Fits
<1>6. ASSUME p[case] = "right" PROVE \A k \in 1..(passed + 1) : p[k] = "right"
  <2>1. \A k \in 1..(passed + 1) : k \in 1..passed \/ k = case
    BY <1>1
  <2> QED BY <2>1, <1>1, <1>6
<1>7. ASSUME p[case] = "right", case = c PROVE Fits(c, p, "report", case, passed + 1, "SUCCESS")
  <2>1. passed + 1 = c /\ passed + 1 \in 0..c /\ ((passed + 1) + 1) - 1 = passed + 1
        /\ (passed + 1) + 1 \in 1..(c + 1) /\ ~((passed + 1) + 1 <= c)
    BY <1>1, <1>7
  <2>2. Misses(c, p, (passed + 1) + 1)
    BY <2>1, <1>6, <1>7 DEF Misses
  <2>3. Tells(c, p, "SUCCESS", passed + 1)
    BY <2>1, <2>2 DEF Tells
  <2> QED BY <2>3 DEF Fits
<1>8. ASSUME p[case] = "right", case # c PROVE Fits(c, p, "run", case + 1, passed + 1, status)
  <2>1. case + 1 \in 1..c /\ passed + 1 = (case + 1) - 1
    BY <1>1, <1>8
  <2>2. Looping(c, p, case + 1, passed + 1)
    BY <2>1, <1>6, <1>8 DEF Looping
  <2> QED BY <2>2 DEF Fits
<1> QED BY <1>4, <1>5, <1>7, <1>8

LEMMA RunCaseProgress ==
    ASSUME InputsAreOwn, TypeInv, \A k \in Jobs : Progress(k), NEW j \in Jobs, RunCase(j)
    PROVE  \A k \in Jobs : Progress(k)'
<1> DEFINE c == cases[SubOf[j]]
           p == program[SubOf[j]]
           case == job[j].case
           passed == job[j].passed
<1>1. c \in Nat \ {0} /\ UNCHANGED given
  BY SubsOfJobs DEF RunCase
<1>2. Looping(c, p, case, passed)
  BY DEF RunCase, At, Progress, Fits
<1>3. p # <<>> /\ case \in 1..c
  BY <1>1, <1>2 DEF Looping
<1>4. InputOf(j) = case
  BY <1>3, InputIsOwn
<1>5. /\ p[case] \in Killed => Fits(c, p, "report", case, passed, p[case])
      /\ p[case] \notin Killed /\ p[case] # "right" => Fits(c, p, "report", case, passed, "SUCCESS")
      /\ p[case] = "right" /\ case = c => Fits(c, p, "report", case, passed + 1, "SUCCESS")
      /\ p[case] = "right" /\ case # c => Fits(c, p, "run", case + 1, passed + 1, job[j].status)
  BY <1>1, <1>2, <1>3, LoopTells
<1>6. \/ p[case] \in Killed /\ Becomes(j, "report", job[j].box, case, passed, p[case])
      \/ p[case] \notin Killed /\ p[case] # "right" /\ Becomes(j, "report", job[j].box, case, passed, "SUCCESS")
      \/ p[case] = "right" /\ case = c /\ Becomes(j, "report", job[j].box, case, passed + 1, "SUCCESS")
      \/ p[case] = "right" /\ case # c /\ Becomes(j, "run", job[j].box, case + 1, passed + 1, job[j].status)
  BY <1>4, RunCaseEffect
<1>7. \E stage, n, m, status : /\ Becomes(j, stage, job[j].box, n, m, status)
                               /\ Fits(cases[SubOf[j]], program[SubOf[j]], stage, n, m, status)
  BY <1>5, <1>6
<1> QED BY <1>1, <1>7, ProgressMade

\* A job that has been at none of its cases reports a SYSTEM_ERROR or begins with the first.
LEMMA BeginsFits ==
    ASSUME NEW c \in Nat, NEW p, NEW status
    PROVE  /\ \A stage \in {"init", "compile"} : Fits(c, p, stage, 1, 0, status)
           /\ p # <<>> => Fits(c, p, "run", 1, 0, status)
           /\ p = <<>> => Fits(c, p, "report", 1, 0, "COMPILATION_ERROR")
           /\ Fits(c, p, "report", 1, 0, "SYSTEM_ERROR")
BY DEF Fits, Looping, Tells

LEMMA OtherFits ==
    ASSUME NEW c, NEW p, NEW stage \in {"return", "raise", "failed", "done"}, NEW case, NEW passed, NEW status
    PROVE  Fits(c, p, stage, case, passed, status)
BY DEF Fits
LEMMA VerdictInit == ASSUME Init PROVE VerdictInv
<1>1. TypeInv
  BY TypeInit
<1>2. \A j \in Jobs : Progress(j)
  <2>1. ASSUME NEW j \in Jobs PROVE Progress(j)
    <3>1. job[j].stage = "new" /\ job[j].case = 1 /\ job[j].passed = 0
      BY DEF Init
    <3> QED BY <3>1 DEF Progress, Fits
  <2> QED BY <2>1
<1>3. RowsEarned
  <2>1. \A s \in Subs : /\ rows[s].status = "PENDING" /\ rows[s].total = cases[s]
                        /\ rows[s].marks = 0
    BY DEF Init
  <2> QED BY <2>1 DEF RowsEarned, Earned
<1> QED BY <1>1, <1>2, <1>3, RowsAre

LEMMA StageProgress ==
    ASSUME TypeInv, \A k \in Jobs : Progress(k), NEW j \in Jobs, NEW stage \in Stage,
           job' = [job EXCEPT ![j].stage = stage], UNCHANGED given,
           Fits(cases[SubOf[j]], program[SubOf[j]], stage, job[j].case, job[j].passed, job[j].status)
    PROVE  \A k \in Jobs : Progress(k)'
<1>1. Becomes(j, stage, job[j].box, job[j].case, job[j].passed, job[j].status)
  BY StageChanges DEF TypeInv
<1> QED BY <1>1, ProgressMade

LEMMA EndsProgress ==
    ASSUME TypeInv, \A k \in Jobs : Progress(k), NEW j \in Jobs, NEW status \in Reported,
           Ends(j, status), UNCHANGED given,
           Fits(cases[SubOf[j]], program[SubOf[j]], "report", job[j].case, job[j].passed, status)
    PROVE  \A k \in Jobs : Progress(k)'
<1>1. Becomes(j, "report", NoBox, job[j].case, job[j].passed, status)
  BY EndsEffect DEF TypeInv
<1> QED BY <1>1, ProgressMade

LEMMA ProgressStep ==
    ASSUME InputsAreOwn, TypeInv, \A k \in Jobs : Progress(k), NEW j \in Jobs,
           Grades(j) \/ PrepareFails(j) \/ RunFails(j) \/ ReportRaises(j)
    PROVE  \A k \in Jobs : Progress(k)'
<1> DEFINE c == cases[SubOf[j]]
           p == program[SubOf[j]]
<1>0. c \in Nat /\ TypeOK
  BY SubsOfJobs DEF TypeInv
<1>1. {"init", "compile", "run", "report", "return", "raise", "failed", "done"} \subseteq Stage
  BY DEF Stage
<1>2. {"SUCCESS", "COMPILATION_ERROR", "SYSTEM_ERROR"} \cup Killed \subseteq Reported
  BY Reportables
<1>3. job[j].stage \in {"new", "init", "compile"} => job[j].case = 1 /\ job[j].passed = 0
  BY DEF Progress, Fits
<1>4. job[j].stage = "run" => Looping(c, p, job[j].case, job[j].passed)
  BY DEF Progress, Fits
<1> HIDE DEF c, p
<1>5. CASE PrepareNative(j)
  <2>1. Fits(c, p, "compile", job[j].case, job[j].passed, job[j].status)
    BY <1>0, <1>3, <1>5, BeginsFits DEF PrepareNative, At
  <2> QED BY <1>1, <1>5, <2>1, StageProgress DEF PrepareNative, c, p
<1>6. CASE TakeBox(j)
  <2>1. Becomes(j, "init", Head(freeBoxes), job[j].case, job[j].passed, job[j].status)
    BY <1>0, <1>6, TakeBoxEffect
  <2>2. Fits(c, p, "init", job[j].case, job[j].passed, job[j].status) /\ UNCHANGED given
    BY <1>0, <1>3, <1>6, BeginsFits DEF TakeBox, At
  <2> QED BY <2>1, <2>2, ProgressMade DEF c, p
<1>7. CASE InitBox(j)
  <2>1. Fits(c, p, "compile", job[j].case, job[j].passed, job[j].status)
    BY <1>0, <1>3, <1>7, BeginsFits DEF InitBox, At
  <2> QED BY <1>1, <1>7, <2>1, StageProgress DEF InitBox, c, p
<1>8. CASE Compile(j)
  <2>1. job[j].case = 1 /\ job[j].passed = 0 /\ UNCHANGED given
    BY <1>3, <1>8 DEF Compile, At
  <2>2. CASE p = <<>>
    <3>1. Ends(j, "COMPILATION_ERROR")
      BY <1>8, <2>2 DEF Compile, p
    <3>2. Fits(c, p, "report", job[j].case, job[j].passed, "COMPILATION_ERROR")
      BY <1>0, <2>1, <2>2, BeginsFits
    <3> QED BY <1>2, <2>1, <3>1, <3>2, EndsProgress DEF c, p
  <2>3. CASE p # <<>>
    <3>1. job' = [job EXCEPT ![j].stage = "run"]
      BY <1>8, <2>3 DEF Compile, p
    <3>2. Fits(c, p, "run", job[j].case, job[j].passed, job[j].status)
      BY <1>0, <2>1, <2>3, BeginsFits
    <3> QED BY <1>1, <2>1, <3>1, <3>2, StageProgress DEF c, p
  <2> QED BY <2>2, <2>3
<1>9. CASE RunCase(j)
  BY <1>9, RunCaseProgress
<1>10. CASE RunOnce(j)
  <2> DEFINE status == IF p[1] \in Killed THEN p[1] ELSE "SUCCESS"
  <2>1. Ends(j, status) /\ UNCHANGED given /\ c = 0
    BY <1>10 DEF RunOnce, c, p
  <2>2. status \in Reported
    BY <1>2
  <2>3. Looping(0, p, job[j].case, job[j].passed)
    BY <1>4, <1>10, <2>1 DEF RunOnce, At
  <2>4. p # <<>> /\ job[j].passed = 0
    BY <2>3 DEF Looping
  <2>5. Fits(c, p, "report", job[j].case, job[j].passed, status)
    BY <2>1, <2>4 DEF Fits, Tells
  <2> HIDE DEF status
  <2> QED BY <2>1, <2>2, <2>5, EndsProgress DEF c, p
<1>11. CASE Report(j)
  <2>1. job' = [job EXCEPT ![j].stage = "return"] /\ UNCHANGED given
    BY <1>11 DEF Report
  <2> QED BY <1>1, <2>1, OtherFits, StageProgress
<1>12. CASE Cleanup(j)
  <2>1. PICK stage \in {"failed", "done"} :
           Becomes(j, stage, NoBox, job[j].case, job[j].passed, job[j].status)
    BY <1>0, <1>12, CleanupEffect
  <2>2. Fits(c, p, stage, job[j].case, job[j].passed, job[j].status) /\ UNCHANGED given
    BY <1>12, <2>1, OtherFits DEF Cleanup
  <2> QED BY <2>1, <2>2, ProgressMade DEF c, p
<1>13. CASE GiveUp(j)
  <2>1. job' = [job EXCEPT ![j].stage = "done"] /\ UNCHANGED given
    BY <1>13 DEF GiveUp
  <2> QED BY <1>1, <2>1, OtherFits, StageProgress
<1>14. CASE PrepareFails(j)
  <2>1. Ends(j, "SYSTEM_ERROR") /\ UNCHANGED given /\ job[j].case = 1 /\ job[j].passed = 0
    BY <1>3, <1>14 DEF PrepareFails
  <2>2. Fits(c, p, "report", job[j].case, job[j].passed, "SYSTEM_ERROR")
    BY <1>0, <2>1, BeginsFits
  <2> QED BY <1>2, <2>1, <2>2, EndsProgress DEF c, p
<1>15. CASE RunFails(j)
  <2>1. Looping(c, p, job[j].case, job[j].passed) /\ UNCHANGED given
    BY <1>4, <1>15 DEF RunFails, At
  <2>2. job[j].passed \in 0..c
    BY <1>0, <2>1 DEF Looping
  <2>3. Fits(c, p, "report", job[j].case, job[j].passed, "SYSTEM_ERROR")
    BY <2>2 DEF Fits, Tells
  <2>4. CASE job' = [job EXCEPT ![j].stage = "report", ![j].status = "SYSTEM_ERROR"]
    <3>1. Becomes(j, "report", job[j].box, job[j].case, job[j].passed, "SYSTEM_ERROR")
      BY <1>0, <1>2, <2>4, Reports
    <3> QED BY <2>1, <2>3, <3>1, ProgressMade DEF c, p
  <2>5. CASE Ends(j, "SYSTEM_ERROR")
    BY <1>2, <2>1, <2>3, <2>5, EndsProgress DEF c, p
  <2>6. CASE job' = [job EXCEPT ![j].stage = "raise"]
    BY <1>1, <2>1, <2>6, OtherFits, StageProgress
  <2> QED BY <1>15, <2>4, <2>5, <2>6 DEF RunFails
<1>16. CASE ReportRaises(j)
  <2>1. job' = [job EXCEPT ![j].stage = "raise"] /\ UNCHANGED given
    BY <1>16 DEF ReportRaises
  <2> QED BY <1>1, <2>1, OtherFits, StageProgress
<1> QED BY <1>5, <1>6, <1>7, <1>8, <1>9, <1>10, <1>11, <1>12, <1>13, <1>14, <1>15, <1>16 DEF Grades

\* Only a report and a job given up save a row.
LEMMA RowsStep ==
    ASSUME TypeInv, RowsEarned, NEW j \in Jobs, Progress(j),
           Grades(j) \/ PrepareFails(j) \/ RunFails(j) \/ ReportRaises(j)
    PROVE  RowsEarned'
<1>1. CASE Report(j)
  BY <1>1, SavesEarned DEF Report
<1>2. CASE ReportRaises(j)
  <2>1. At(j, "report") /\ UNCHANGED given /\ (Saves(j) \/ UNCHANGED rows)
    BY <1>2 DEF ReportRaises
  <2> QED BY <2>1, SavesEarned, RowsStay
<1>3. CASE GiveUp(j)
  BY <1>3, GiveUpEarned
<1>4. CASE PrepareNative(j) \/ TakeBox(j) \/ InitBox(j) \/ Compile(j) \/ RunCase(j) \/ RunOnce(j)
           \/ Cleanup(j) \/ PrepareFails(j) \/ RunFails(j)
  <2>1. UNCHANGED given /\ UNCHANGED rows
    BY <1>4 DEF PrepareNative, TakeBox, InitBox, Compile, RunCase, RunOnce, Cleanup, PrepareFails, RunFails
  <2> QED BY <2>1, RowsStay
<1> QED BY <1>1, <1>2, <1>3, <1>4 DEF Grades

LEMMA VerdictStep == ASSUME InputsAreOwn, VerdictInv, [Next]_vars PROVE VerdictInv'
<1>1. TypeInv /\ (\A j \in Jobs : Progress(j)) /\ RowsEarned
  BY RowsAre
<1>2. TypeInv'
  BY <1>1, TypeStep
<1>3. (\A j \in Jobs : Progress(j))' /\ RowsEarned'
  <2>1. ASSUME NEW j \in Jobs, Grades(j) \/ PrepareFails(j) \/ RunFails(j) \/ ReportRaises(j)
        PROVE  (\A k \in Jobs : Progress(k))' /\ RowsEarned'
    BY <1>1, <2>1, ProgressStep, RowsStep
  <2>2. ASSUME UNCHANGED vars PROVE (\A k \in Jobs : Progress(k))' /\ RowsEarned'
    <3>1. UNCHANGED given /\ UNCHANGED rows /\ job' = job
      BY <2>2 DEF vars
    <3>2. RowsEarned'
      BY <1>1, <3>1, RowsStay
    <3>3. (\A k \in Jobs : Progress(k))'
      BY <1>1, <3>1 DEF given, Progress
    <3> QED BY <3>2, <3>3
  <2> QED BY <2>1, <2>2 DEF Next
<1> QED BY <1>2, <1>3 DEF VerdictInv, VerdictIsEarned, RowsEarned, Earned

\* Whatever jobs a submission has, in whatever order they report and whatever fails
\* on the way: a verdict that is not SYSTEM_ERROR (grade_submission of grader.py,
\* finalize_submission_result of views.py) is the one its cases give, with its count,
\* and marks come with PASSED only -- as long as every case of a submission in SQL
\* is run on its own setup.sql.
THEOREM VerdictsAreEarned == ASSUME InputsAreOwn PROVE Spec => []VerdictIsEarned
<1>1. Init => VerdictInv
  BY VerdictInit
<1>2. VerdictInv /\ [Next]_vars => VerdictInv'
  BY VerdictStep
<1>3. VerdictInv => VerdictIsEarned
  BY DEF VerdictInv
<1> QED BY <1>1, <1>2, <1>3, PTL DEF Spec
=============================================================================
