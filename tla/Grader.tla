------------------------------- MODULE Grader -------------------------------
(***************************************************************************)
(* What a job of an executor does between the semaphore and the answer of   *)
(* Django: grade_submission of executor_service/grader.py, the sandbox of   *)
(* executor_service/sandbox.py with its pool of isolate boxes, and the      *)
(* verdict finalize_submission_result of core_api/views.py makes of it.     *)
(* (Modules Executor and JudgingPipeline see all of this as one choice.)    *)
(*                                                                          *)
(* Jobs run in one event loop and interleave at its awaits.  A submission   *)
(* may have several jobs: redeliveries of its message.  A practice run is   *)
(* graded by its create request itself where Django's host has the tools of *)
(* its language (execute_submission_inline), and may come without cases, on *)
(* one input of the student's own.  Programs are                            *)
(* deterministic, in time too: program[s] says what submission s does with  *)
(* each input.                                                              *)
(* Every case has an expected output of its own, which a right answer to    *)
(* that case is; case i stands for its input and for its expected output.   *)
(***************************************************************************)
EXTENDS Integers, Sequences, FiniteSets

CONSTANTS
    Subs,           \* submissions
    Jobs,           \* deliveries of their messages, or create requests that grade them
    SubOf,          \* SubOf[j]: the submission of j
    Native,         \* jobs whose executor has EXECUTOR_BACKEND=native
    Sql,            \* submissions in SQL, whose input is the setup.sql of the workspace
    Practice,       \* submissions without a question ("Run Test")
    Killed,         \* how the sandbox may end a program: TLE, MLE, RUNTIME_ERROR
    CaseCounts,     \* CaseCounts[s]: lengths its judge_cases may have
    OnWeb,          \* jobs that may be the create request of a practice run
    Boxes,          \* ISOLATE_BOXES: boxes 1..Boxes
    TotalMarks,     \* ExamQuestion.total_marks
    MaxFaults       \* bound: exceptions

ASSUME GraderAssumption ==
    /\ SubOf \in [Jobs -> Subs]
    /\ Killed \subseteq {"TLE", "MLE", "RUNTIME_ERROR"}
    /\ Native \subseteq Jobs /\ Sql \subseteq Subs /\ Practice \subseteq Subs
    /\ \A s \in Subs :
          CaseCounts[s] \in SUBSET IF s \in Practice THEN Nat ELSE Nat \ {0}
    /\ \A j \in OnWeb : SubOf[j] \in Practice /\ \A k \in Jobs \ {j} : SubOf[k] # SubOf[j]
    /\ Boxes \in Nat \ {0}
    /\ TotalMarks \in Nat \ {0}
    /\ MaxFaults \in Nat

VARIABLES
    cases,      \* cases[s]: length of its judge_cases, 0: it is run once, without cases
    inline,     \* jobs that are create requests
    program,    \* program[s]: its answers, or <<>> when it does not compile
    freeBoxes,  \* _BOX_ID_QUEUE
    job,        \* job[j]: how far delivery j has come
    rows,       \* Submission rows
    faults      \* exceptions so far

given == <<cases, inline, program>>
vars == <<given, freeBoxes, job, rows, faults>>

-----------------------------------------------------------------------------

Answer == {"right", "wrong"} \cup Killed
Status == {"PENDING", "SUCCESS", "PASSED", "WRONG_ANSWER", "COMPILATION_ERROR", "SYSTEM_ERROR"}
          \cup Killed
Reported == {"none", "SUCCESS", "COMPILATION_ERROR", "SYSTEM_ERROR"} \cup Killed

NoBox == 0

\* "failed": grade_submission raised, the job is retried or dead-lettered.
Stage == {"new", "init", "compile", "run", "report", "return", "raise", "failed", "done"}

Job == [stage : Stage, box : 0..Boxes, case : Nat, passed : Nat, status : Reported]

Row == [status : Status, passed : Nat, total : Nat, marks : {0, TotalMarks}]

TypeOK ==
    /\ cases \in [Subs -> Nat]
    /\ inline \subseteq OnWeb
    /\ program \in [Subs -> Seq(Answer)]
    /\ freeBoxes \in Seq(1..Boxes)
    /\ job \in [Jobs -> Job]
    /\ rows \in [Subs -> Row]
    /\ faults \in Nat

\* Without cases there is one execution, and no output is wrong.
Programs(s) ==
    (IF cases[s] = 0 THEN [1..1 -> {"right"} \cup Killed] ELSE [1..cases[s] -> Answer]) \cup {<<>>}

Init ==
    /\ cases \in {f \in [Subs -> UNION {CaseCounts[s] : s \in Subs}] :
                    \A s \in Subs : f[s] \in CaseCounts[s]}
    /\ inline \in SUBSET OnWeb
    /\ program \in {f \in [Subs -> UNION {Programs(s) : s \in Subs}] :
                      \A s \in Subs : f[s] \in Programs(s)}
    /\ freeBoxes = [b \in 1..Boxes |-> b]
    /\ job = [j \in Jobs |-> [stage |-> "new", box |-> NoBox, case |-> 1, passed |-> 0,
                              status |-> "none"]]
    /\ rows = [s \in Subs |-> [status |-> "PENDING", passed |-> 0, total |-> cases[s],
                               marks |-> 0]]
    /\ faults = 0

At(j, stage) == job[j].stage = stage
Fault == faults < MaxFaults /\ faults' = faults + 1

-----------------------------------------------------------------------------
(* prepare_execution: a box, its initialisation, the compiler. *)

IsNative(j) == j \in Native \cup inline

\* Native jobs get a temporary directory of their own.
PrepareNative(j) ==
    /\ At(j, "new") /\ IsNative(j)
    /\ job' = [job EXCEPT ![j].stage = "compile"]
    /\ UNCHANGED <<given, freeBoxes, rows, faults>>

TakeBox(j) ==
    /\ At(j, "new") /\ ~IsNative(j)
    /\ freeBoxes # <<>>
    /\ job' = [job EXCEPT ![j].stage = "init", ![j].box = Head(freeBoxes)]
    /\ freeBoxes' = Tail(freeBoxes)
    /\ UNCHANGED <<given, rows, faults>>

InitBox(j) ==
    /\ At(j, "init")
    /\ job' = [job EXCEPT ![j].stage = "compile"]
    /\ UNCHANGED <<given, freeBoxes, rows, faults>>

\* Mutant: the box is not given back.
EndsAndKeeps(j, status) ==
    /\ job' = [job EXCEPT ![j].stage = "report", ![j].status = status, ![j].box = NoBox]
    /\ UNCHANGED freeBoxes

\* The sandbox is done with the job and keeps nothing of it: prepare_execution returns
\* an error instead of a prepared execution, or run_code_in_sandbox its result.
Ends(j, status) ==
    /\ job' = [job EXCEPT ![j].stage = "report", ![j].status = status, ![j].box = NoBox]
    /\ freeBoxes' = IF job[j].box = NoBox THEN freeBoxes ELSE Append(freeBoxes, job[j].box)

Compile(j) ==
    /\ At(j, "compile")
    /\ IF program[SubOf[j]] = <<>> THEN Ends(j, "COMPILATION_ERROR")
       ELSE job' = [job EXCEPT ![j].stage = "run"] /\ UNCHANGED freeBoxes
    /\ UNCHANGED <<given, rows, faults>>

\* A runtime tool is missing, isolate --init fails, the workspace cannot be written,
\* the compiler not started.
PrepareFails(j) ==
    /\ job[j].stage \in {"new", "init", "compile"}
    /\ Fault
    /\ Ends(j, "SYSTEM_ERROR")
    /\ UNCHANGED <<given, rows>>

-----------------------------------------------------------------------------
(* The loop over judge_cases. *)

\* The case whose input the program reads.  SQL has it in setup.sql, which a
\* native workspace keeps as it was written for the first case.
InputOf(j) == IF SubOf[j] \in Sql /\ IsNative(j) THEN 1 ELSE job[j].case

\* Mutant: a wrong case is counted and does not end the loop.
RunCaseOn(j) ==
    LET answer == program[SubOf[j]][InputOf(j)]
        last == job[j].case = cases[SubOf[j]]
        report(status) == [job EXCEPT ![j].stage = "report", ![j].status = status]
    IN  /\ At(j, "run") /\ cases[SubOf[j]] > 0
        /\ job' = IF answer \in Killed THEN report(answer)
                  ELSE IF last THEN [report("SUCCESS") EXCEPT ![j].passed = @ + 1]
                  ELSE [job EXCEPT ![j].case = @ + 1, ![j].passed = @ + 1]
        /\ UNCHANGED <<given, freeBoxes, rows, faults>>

\* One execute_prepared and what the loop makes of its result: the first case
\* that is killed or answered wrongly ends it.
RunCase(j) ==
    LET answer == program[SubOf[j]][InputOf(j)]
        matches == answer = "right" /\ InputOf(j) = job[j].case
        last == job[j].case = cases[SubOf[j]]
        report(status) == [job EXCEPT ![j].stage = "report", ![j].status = status]
    IN  /\ At(j, "run") /\ cases[SubOf[j]] > 0
        /\ job' = IF answer \in Killed THEN report(answer)
                  ELSE IF ~matches THEN report("SUCCESS")
                  ELSE IF last THEN [report("SUCCESS") EXCEPT ![j].passed = @ + 1]
                  ELSE [job EXCEPT ![j].case = @ + 1, ![j].passed = @ + 1]
        /\ UNCHANGED <<given, freeBoxes, rows, faults>>

\* run_code_in_sandbox on the student's own input: any output is a success.
RunOnce(j) ==
    LET answer == program[SubOf[j]][1]
    IN  /\ At(j, "run") /\ cases[SubOf[j]] = 0
        /\ Ends(j, IF answer \in Killed THEN answer ELSE "SUCCESS")
        /\ UNCHANGED <<given, rows, faults>>

\* isolate reports an error of its own and a native execution catches every
\* exception; but nobody catches the timeout of the wait for an isolate that hangs.
RunFails(j) ==
    /\ At(j, "run")
    /\ Fault
    /\ \/ /\ cases[SubOf[j]] > 0
          /\ job' = [job EXCEPT ![j].stage = "report", ![j].status = "SYSTEM_ERROR"]
          /\ UNCHANGED freeBoxes
       \/ /\ cases[SubOf[j]] = 0
          /\ Ends(j, "SYSTEM_ERROR")
       \/ /\ ~IsNative(j)
          /\ job' = [job EXCEPT ![j].stage = "raise"]
          /\ UNCHANGED freeBoxes
    /\ UNCHANGED <<given, rows>>

-----------------------------------------------------------------------------
(* update_submission and finalize_submission_result. *)

Least(m, n) == IF m <= n THEN m ELSE n

\* Mutant: marks in proportion.
FinalizeInProportion(s, status, passed, total) ==
    LET p == Least(passed, total)
        judged == status = "SUCCESS" /\ s \notin Practice
    IN  [status |-> IF ~judged THEN status ELSE IF p = total THEN "PASSED" ELSE "WRONG_ANSWER",
         passed |-> p, total |-> total,
         marks |-> IF judged THEN (TotalMarks * p) \div total ELSE 0]

\* The counts are those of the payload, or of the row when it has none (a run without
\* cases); total is never 0 for the answer to a question.
Finalize(s, status, passed, total) ==
    LET p == Least(passed, total)
        judged == status = "SUCCESS" /\ s \notin Practice
    IN  [status |-> IF ~judged THEN status ELSE IF p = total THEN "PASSED" ELSE "WRONG_ANSWER",
         passed |-> p, total |-> total,
         marks |-> IF judged /\ p = total THEN TotalMarks ELSE 0]

Saves(j) ==
    LET s == SubOf[j]
    IN  rows' = [rows EXCEPT ![s] = Finalize(s, job[j].status, job[j].passed, cases[s])]

Report(j) ==
    /\ At(j, "report")
    /\ Saves(j)
    /\ job' = [job EXCEPT ![j].stage = "return"]
    /\ UNCHANGED <<given, freeBoxes, faults>>

\* Before the row was saved, or after it: the answer was lost, an event not recorded.
ReportRaises(j) ==
    /\ At(j, "report")
    /\ Fault
    /\ Saves(j) \/ UNCHANGED rows
    /\ job' = [job EXCEPT ![j].stage = "raise"]
    /\ UNCHANGED <<given, freeBoxes>>

\* Mutant: prepared.cleanup() gives the box back whenever there was one.
CleanupTwice(j) ==
    /\ job[j].stage \in {"return", "raise"}
    /\ job' = [job EXCEPT ![j].stage = IF @ = "raise" THEN "failed" ELSE "done"]
    /\ freeBoxes' = IF job[j].box = NoBox THEN freeBoxes ELSE Append(freeBoxes, job[j].box)
    /\ UNCHANGED <<given, rows, faults>>

\* finally: prepared.cleanup() -- for a job whose sandbox has not ended before.
Cleanup(j) ==
    /\ job[j].stage \in {"return", "raise"}
    /\ job' = [job EXCEPT ![j].stage = IF @ = "raise" THEN "failed" ELSE "done", ![j].box = NoBox]
    /\ freeBoxes' = IF job[j].box = NoBox THEN freeBoxes ELSE Append(freeBoxes, job[j].box)
    /\ UNCHANGED <<given, rows, faults>>

\* run_grade_task retries (a job of its own here) or, at the last attempt,
\* reports SYSTEM_ERROR without counts.  A create request just ends.
GiveUp(j) ==
    LET s == SubOf[j]
    IN  /\ At(j, "failed")
        /\ \/ UNCHANGED rows
           \/ j \notin inline
              /\ rows' = [rows EXCEPT ![s] = Finalize(s, "SYSTEM_ERROR", rows[s].passed, rows[s].total)]
        /\ job' = [job EXCEPT ![j].stage = "done"]
        /\ UNCHANGED <<given, freeBoxes, faults>>

-----------------------------------------------------------------------------

Grades(j) ==
    PrepareNative(j) \/ TakeBox(j) \/ InitBox(j) \/ Compile(j) \/ RunCase(j)
        \/ RunOnce(j) \/ Report(j) \/ Cleanup(j) \/ GiveUp(j)

Next == \E j \in Jobs : Grades(j) \/ PrepareFails(j) \/ RunFails(j) \/ ReportRaises(j)

\* The event loop comes back to every job whose await has ended.  The queue of
\* boxes serves its waiters in turn, so a job that waits gets one again and again.
Spec == Init /\ [][Next]_vars
FairSpec == Spec /\ \A j \in Jobs : SF_vars(Grades(j))

-----------------------------------------------------------------------------

\* What a teacher expects: cases in order up to the first that is not answered
\* rightly, which decides; marks only for all of them.
FirstMiss(s) ==
    CHOOSE i \in 1..(cases[s] + 1) :
        /\ i <= cases[s] => program[s][i] # "right"
        /\ \A k \in 1..(i - 1) : program[s][k] = "right"

Judged(s) ==
    LET miss == FirstMiss(s)
    IN  IF program[s] = <<>> THEN [status |-> "COMPILATION_ERROR", passed |-> 0]
        ELSE IF cases[s] = 0
        THEN [status |-> IF program[s][1] \in Killed THEN program[s][1] ELSE "SUCCESS", passed |-> 0]
        ELSE [passed |-> miss - 1,
              status |-> IF miss <= cases[s] /\ program[s][miss] \in Killed THEN program[s][miss]
                         ELSE IF s \in Practice THEN "SUCCESS"
                         ELSE IF miss > cases[s] THEN "PASSED" ELSE "WRONG_ANSWER"]

\* Whatever job reports it, first or again and in whatever order, a verdict that
\* is not SYSTEM_ERROR is the one the cases give, with its count ("Add one
\* testcase card per judge case", teacher-dashboard.html:205), and the marks are
\* those of the last verdict, of a SYSTEM_ERROR too.
VerdictIsEarned ==
    \A s \in Subs :
        /\ rows[s].status \notin {"PENDING", "SYSTEM_ERROR"} =>
              /\ rows[s].status = Judged(s).status
              /\ rows[s].passed = Judged(s).passed
              /\ rows[s].total = cases[s]
        /\ rows[s].marks = IF rows[s].status = "PASSED" THEN TotalMarks ELSE 0

\* No way out of a job loses a box or gives one back twice: each is in the queue
\* once or with one job.
BoxesConserved ==
    \A b \in 1..Boxes :
        Cardinality({i \in DOMAIN freeBoxes : freeBoxes[i] = b})
          + Cardinality({j \in Jobs : job[j].box = b}) = 1

\* Every job comes to its end, though there are fewer boxes than jobs: whoever
\* holds one gives it back.
EveryJobEnds == \A j \in Jobs : <>(job[j].stage = "done")
=============================================================================
