------------------------------ MODULE Executor ------------------------------
(***************************************************************************)
(* The executor service: start_worker and run_grade_task of                 *)
(* executor_service/main.py with the callback of executor_service/grader.py.*)
(*                                                                          *)
(* A worker polls messages into jobs, at most MaxConcurrent of which run at *)
(* a time.  A job grades, PATCHes the verdict back to Django and calls      *)
(* mark_completed.  When something raises, the message is published again   *)
(* with a higher delivery attempt or, after MaxAttempts, dead-lettered and  *)
(* reported as SYSTEM_ERROR; then the job calls mark_completed.             *)
(*                                                                          *)
(* The offset accounting is module CommitTracker, whose tasks are these     *)
(* jobs: every action here that a tracker sees is conjoined with the        *)
(* tracker's action.  Django is the environment: a PATCH may succeed, raise *)
(* or be refused because the row is gone (module JudgingPipeline has it).   *)
(***************************************************************************)
EXTENDS Integers, Sequences, FiniteSets

CONSTANTS
    Workers, Partitions, InitCommitted, NoWorker,   \* as in CommitTracker
    Subs,           \* submissions
    Outcomes,       \* Outcomes[s]: what the sandbox may say of submission s
    Misrouted,      \* submissions in a language this executor does not support
    MaxConcurrent,  \* MAX_CONCURRENT_EXECUTIONS, also max_poll_records
    MaxAttempts,    \* MAX_DELIVERY_ATTEMPTS
    MaxOffset,      \* bound: messages ever appended to a partition
    MaxGeneration,  \* bound: rebalances that are not forced by a crash
    MaxFaults,      \* bound: crashes and exceptions that are not a refused PATCH
    MaxRefusals     \* bound: PATCHes answered 404 in all

Verdict == {"PASSED", "WRONG_ANSWER", "SYSTEM_ERROR"}

\* Assumed where workers are run: in JudgingPipeline.
ExecutorAssumption ==
    /\ Outcomes \in [Subs -> SUBSET Verdict]
    /\ Misrouted \subseteq Subs
    /\ MaxConcurrent \in Nat \ {0, 1}
    /\ MaxAttempts \in Nat \ {0}
    /\ MaxRefusals \in Nat

VARIABLES
    contents,       \* contents[p]: the messages appended to p, in order
    deadLetters,    \* messages published to the dead-letter topic
    committed, owner, position, generation,                 \* as in CommitTracker
    nextCommitOffsets, completedOffsets, committing, settled, faults,
    jobs,           \* jobs[w]: run_grade_task coroutines outside a commit
    isPaused,       \* is_paused of each worker
    paused,         \* partitions whose consumer has paused them
    refusals,       \* PATCHes refused so far
    answered        \* history: submissions whose callback has returned

brokerVars == <<contents, deadLetters, committed, owner, position, generation>>
trackerVars == <<nextCommitOffsets, completedOffsets, committing, settled>>
workerVars == <<jobs, isPaused, paused>>
vars == <<brokerVars, trackerVars, workerVars, faults, refusals, answered>>

-----------------------------------------------------------------------------

Message == [sub : Subs, attempt : 1..MaxAttempts]

\* Inside the try block, then inside its "except Exception" block.
TryStages == {"waiting", "grading", "callback", "graded"}
ExceptStages == {"failed", "errorCallback", "handled"}

Job == [part : Partitions, offset : Nat, generation : Nat,
        stage : TryStages \cup ExceptStages, verdict : Verdict \cup {"none"}]

TaskOf(j) == [part |-> j.part, offset |-> j.offset, generation |-> j.generation,
              failing |-> j.stage \in ExceptStages]

FirstOffset(p) == IF InitCommitted[p] = -1 THEN 0 ELSE InitCommitted[p]

Tracker == INSTANCE CommitTracker WITH
    log <- [p \in Partitions |-> FirstOffset(p) + Len(contents[p])],
    tasks <- [w \in Workers |-> {TaskOf(j) : j \in jobs[w]}],
    MaxFaults <- MaxFaults + MaxRefusals

MessageAt(p, o) == contents[p][o - FirstOffset(p) + 1]
MessageOf(j) == MessageAt(j.part, j.offset)

TypeOK ==
    /\ Tracker!TypeOK
    /\ contents \in [Partitions -> Seq(Message)]
    /\ deadLetters \subseteq Message
    /\ jobs \in [Workers -> SUBSET Job]
    /\ isPaused \in [Workers -> BOOLEAN]
    /\ paused \subseteq Partitions
    /\ refusals \in Nat
    /\ answered \subseteq Subs

Init ==
    /\ contents = [p \in Partitions |-> <<>>]
    /\ jobs = [w \in Workers |-> {}]
    /\ Tracker!Init
    /\ deadLetters = {}
    /\ isPaused = [w \in Workers |-> FALSE]
    /\ paused = {}
    /\ refusals = 0
    /\ answered = {}

-----------------------------------------------------------------------------
(* The topic and the main loop. *)

Append1(p, m) ==
    /\ FirstOffset(p) + Len(contents[p]) < MaxOffset
    /\ contents' = [contents EXCEPT ![p] = Append(@, m)]

Messages == UNION {{contents[p][i] : i \in DOMAIN contents[p]} : p \in Partitions}

\* Django publishes a submission, once.
Enqueue(s, p) ==
    /\ \A m \in Messages : m.sub # s
    /\ Append1(p, [sub |-> s, attempt |-> 1])
    /\ UNCHANGED <<deadLetters, committed, owner, position, generation, trackerVars,
                   workerVars, faults, refusals, answered>>

Active(w) == Cardinality(jobs[w]) + Cardinality(committing[w])
Running(w) == Cardinality({j \in jobs[w] : j.stage # "waiting"}) + Cardinality(committing[w])
Mine(w) == {p \in Partitions : owner[p] = w}

\* Mutant: the pause comes one job late.
PauseOrResumeLate(w) ==
    LET full == Active(w) > MaxConcurrent
    IN  IF full /\ Mine(w) # {} /\ ~isPaused[w]
        THEN isPaused' = [isPaused EXCEPT ![w] = TRUE] /\ paused' = paused \cup Mine(w)
        ELSE IF ~full /\ isPaused[w]
        THEN isPaused' = [isPaused EXCEPT ![w] = FALSE] /\ paused' = paused \ Mine(w)
        ELSE UNCHANGED <<isPaused, paused>>

\* Mutant: the flag is cleared, the partitions are not resumed.
PauseForever(w) ==
    LET full == Active(w) >= MaxConcurrent
    IN  IF full /\ Mine(w) # {} /\ ~isPaused[w]
        THEN isPaused' = [isPaused EXCEPT ![w] = TRUE] /\ paused' = paused \cup Mine(w)
        ELSE IF ~full /\ isPaused[w]
        THEN isPaused' = [isPaused EXCEPT ![w] = FALSE] /\ UNCHANGED paused
        ELSE UNCHANGED <<isPaused, paused>>

\* The top of the loop: pause everything at the limit, resume below it.
PauseOrResume(w) ==
    LET full == Active(w) >= MaxConcurrent
    IN  IF full /\ Mine(w) # {} /\ ~isPaused[w]
        THEN isPaused' = [isPaused EXCEPT ![w] = TRUE] /\ paused' = paused \cup Mine(w)
        ELSE IF ~full /\ isPaused[w]
        THEN isPaused' = [isPaused EXCEPT ![w] = FALSE] /\ paused' = paused \ Mine(w)
        ELSE UNCHANGED <<isPaused, paused>>

NewJobs(upto) ==
    UNION {{[part |-> p, offset |-> o, generation |-> generation,
             stage |-> "waiting", verdict |-> "none"] :
               o \in Tracker!FetchFrom(p)..(upto[p] - 1)} : p \in DOMAIN upto}

\* One iteration whose poll returns messages, of partitions that are not paused.
PollMessages(w, upto) ==
    /\ PauseOrResume(w)
    /\ jobs' = [jobs EXCEPT ![w] = @ \cup NewJobs(upto)]
    /\ Cardinality(NewJobs(upto)) <= MaxConcurrent
    /\ \A p \in DOMAIN upto \cap paused' : upto[p] = Tracker!FetchFrom(p)
    /\ UNCHANGED contents
    /\ Tracker!Poll(w, upto)
    /\ UNCHANGED <<deadLetters, refusals, answered>>

\* One iteration whose poll returns nothing.
PollNothing(w) ==
    /\ PauseOrResume(w)
    /\ UNCHANGED <<brokerVars, trackerVars, jobs, faults, refusals, answered>>

Rebalance(assignment) ==
    /\ UNCHANGED <<contents, jobs>>
    /\ Tracker!Rebalance(assignment)
    /\ paused' = {}
    /\ UNCHANGED <<deadLetters, isPaused, refusals, answered>>

\* Injected faults: the budget leaves out what a refused PATCH raised.
MayFail == faults - refusals < MaxFaults

Crash(w) ==
    /\ MayFail
    /\ UNCHANGED contents
    /\ jobs' = [jobs EXCEPT ![w] = {}]
    /\ Tracker!Crash(w)
    /\ isPaused' = [isPaused EXCEPT ![w] = FALSE]
    /\ paused' = paused \ Mine(w)
    /\ UNCHANGED <<deadLetters, refusals, answered>>

-----------------------------------------------------------------------------
(* run_grade_task. *)

\* The job goes on to a stage of the same block: no tracker notices.
Goes(w, j, next) ==
    /\ jobs' = [jobs EXCEPT ![w] = (@ \ {j}) \cup {next}]
    /\ UNCHANGED <<isPaused, paused, committed, owner, position, generation,
                   trackerVars, faults>>

\* The job raises: to the except block, or out of it and away.
Raises(w, j) ==
    /\ jobs' = [jobs EXCEPT ![w] = (@ \ {j}) \cup
          IF j.stage \in ExceptStages THEN {} ELSE {[j EXCEPT !.stage = "failed"]}]
    /\ Tracker!Raise(w, TaskOf(j))
    /\ UNCHANGED <<isPaused, paused>>

\* async with gatekeeper.
Acquire(w, j) ==
    /\ j.stage = "waiting"
    /\ Running(w) < MaxConcurrent
    /\ Goes(w, j, [j EXCEPT !.stage = "grading"])
    /\ UNCHANGED <<contents, deadLetters, refusals, answered>>

\* What a job may report: a language that is not ours is refused unseen.
PossibleVerdicts(s) == IF s \in Misrouted THEN {"SYSTEM_ERROR"} ELSE Outcomes[s]

\* The sandbox has run, or the route was checked: the verdict is known.
Grade(w, j) ==
    /\ j.stage = "grading"
    /\ \E v \in PossibleVerdicts(MessageOf(j).sub) :
          Goes(w, j, [j EXCEPT !.stage = "callback", !.verdict = v])
    /\ UNCHANGED <<contents, deadLetters, refusals, answered>>

GradeRaises(w, j) ==
    /\ j.stage = "grading"
    /\ MayFail
    /\ UNCHANGED contents
    /\ Raises(w, j)
    /\ UNCHANGED <<deadLetters, refusals, answered>>

\* update_submission: of the verdict, or of the error of a dead-lettered job.
InCallback(j) == j.stage \in {"callback", "errorCallback"}

CallbackReturns(w, j) ==
    /\ InCallback(j)
    /\ Goes(w, j, [j EXCEPT !.stage = IF j.stage = "callback" THEN "graded" ELSE "handled"])
    /\ answered' = answered \cup {MessageOf(j).sub}
    /\ UNCHANGED <<contents, deadLetters, refusals>>

CallbackRaises(w, j) ==
    /\ InCallback(j)
    /\ MayFail
    /\ UNCHANGED contents
    /\ Raises(w, j)
    /\ UNCHANGED <<deadLetters, refusals, answered>>

\* Every try was answered 404.
CallbackRefused(w, j) ==
    /\ InCallback(j)
    /\ refusals < MaxRefusals
    /\ refusals' = refusals + 1
    /\ UNCHANGED contents
    /\ Raises(w, j)
    /\ UNCHANGED <<deadLetters, answered>>

\* Mutant: the retried job goes on as if it were graded.
PublishRetryAsGraded(w, j, p) ==
    LET m == MessageOf(j)
    IN  /\ j.stage = "failed"
        /\ m.attempt < MaxAttempts
        /\ Append1(p, [m EXCEPT !.attempt = @ + 1])
        /\ Goes(w, j, [j EXCEPT !.stage = "graded"])
        /\ UNCHANGED <<deadLetters, refusals, answered>>

\* Mutant: SYSTEM_ERROR is reported although the message is retried.
PublishRetryReported(w, j, p) ==
    LET m == MessageOf(j)
    IN  /\ j.stage = "failed"
        /\ m.attempt < MaxAttempts
        /\ Append1(p, [m EXCEPT !.attempt = @ + 1])
        /\ Goes(w, j, [j EXCEPT !.stage = "errorCallback", !.verdict = "SYSTEM_ERROR"])
        /\ UNCHANGED <<deadLetters, refusals, answered>>

\* _publish_retry: the next attempt, in whatever partition the producer picks.
PublishRetry(w, j, p) ==
    LET m == MessageOf(j)
    IN  /\ j.stage = "failed"
        /\ m.attempt < MaxAttempts
        /\ Append1(p, [m EXCEPT !.attempt = @ + 1])
        /\ Goes(w, j, [j EXCEPT !.stage = "handled"])
        /\ UNCHANGED <<deadLetters, refusals, answered>>

\* Mutant: dead-lettered one attempt early.
PublishDeadLetterEarly(w, j) ==
    LET m == MessageOf(j)
    IN  /\ j.stage = "failed"
        /\ m.attempt >= MaxAttempts - 1
        /\ deadLetters' = deadLetters \cup {m}
        /\ Goes(w, j, [j EXCEPT !.stage = "errorCallback", !.verdict = "SYSTEM_ERROR"])
        /\ UNCHANGED <<contents, refusals, answered>>

\* _publish_dead_letter.
PublishDeadLetter(w, j) ==
    LET m == MessageOf(j)
    IN  /\ j.stage = "failed"
        /\ m.attempt >= MaxAttempts
        /\ deadLetters' = deadLetters \cup {m}
        /\ Goes(w, j, [j EXCEPT !.stage = "errorCallback", !.verdict = "SYSTEM_ERROR"])
        /\ UNCHANGED <<contents, refusals, answered>>

\* The publication raises, its message lost.
PublishRaises(w, j) ==
    /\ j.stage = "failed"
    /\ MayFail
    /\ UNCHANGED contents
    /\ Raises(w, j)
    /\ UNCHANGED <<deadLetters, refusals, answered>>

\* What raises once the callback or the publication has taken effect: the
\* acknowledgement of the retry is late, or mark_completed cannot read the
\* committed offset.
MarkRaises(w, j) ==
    /\ j.stage \in {"graded", "handled"}
    /\ MayFail
    /\ UNCHANGED contents
    /\ Raises(w, j)
    /\ UNCHANGED <<deadLetters, refusals, answered>>

\* Mutant: the offset is given up before the callback has returned.
MarkCompletedEarly(w, j) ==
    /\ j.stage \in {"callback", "graded", "handled"}
    /\ UNCHANGED contents
    /\ jobs' = [jobs EXCEPT ![w] = @ \ {j}]
    /\ Tracker!MarkCompleted(w, TaskOf(j))
    /\ UNCHANGED <<deadLetters, isPaused, paused, refusals, answered>>

\* commit_tracker.mark_completed, once the result is persisted or handed on.
MarkCompleted(w, j) ==
    /\ j.stage \in {"graded", "handled"}
    /\ UNCHANGED contents
    /\ jobs' = [jobs EXCEPT ![w] = @ \ {j}]
    /\ Tracker!MarkCompleted(w, TaskOf(j))
    /\ UNCHANGED <<deadLetters, isPaused, paused, refusals, answered>>

BrokerCommit(w, k) ==
    /\ UNCHANGED <<contents, deadLetters, workerVars, refusals, answered>>
    /\ Tracker!BrokerCommit(w, k)

FinishCommit(w, k) ==
    /\ UNCHANGED <<contents, deadLetters, workerVars, refusals, answered>>
    /\ Tracker!FinishCommit(w, k)

\* commit() raises inside mark_completed: a graded job fails after all.
CommitFails(w, k) ==
    /\ MayFail
    /\ UNCHANGED contents
    /\ jobs' = [jobs EXCEPT ![w] = @ \cup
          IF k.task.failing THEN {}
          ELSE {[part |-> k.task.part, offset |-> k.task.offset, generation |-> k.task.generation,
                 stage |-> "failed", verdict |-> "none"]}]
    /\ Tracker!CommitFails(w, k)
    /\ UNCHANGED <<deadLetters, isPaused, paused, refusals, answered>>

-----------------------------------------------------------------------------

\* A worker that runs.
Polls(w) == \E upto \in [Mine(w) -> 0..MaxOffset] : PollMessages(w, upto)
Sandbox(w) == \E j \in jobs[w] : Acquire(w, j) \/ Grade(w, j)
Republishes(w) ==
    \E j \in jobs[w] : PublishDeadLetter(w, j) \/ \E p \in Partitions : PublishRetry(w, j, p)
Marks(w) == \E j \in jobs[w] : MarkCompleted(w, j)
Commits(w) == \E k \in committing[w] : BrokerCommit(w, k) \/ FinishCommit(w, k)
Rebalances == \E assignment \in [Partitions -> Workers] : Rebalance(assignment)
Orphaned == \E p \in Partitions : owner[p] = NoWorker

\* What goes wrong without Django.
Fails(w) ==
    \/ Crash(w)
    \/ \E j \in jobs[w] : GradeRaises(w, j) \/ PublishRaises(w, j) \/ MarkRaises(w, j)
    \/ \E k \in committing[w] : CommitFails(w, k)

Works(w) == Polls(w) \/ PollNothing(w) \/ Sandbox(w) \/ Republishes(w) \/ Marks(w) \/ Commits(w)

Calls(w) == \E j \in jobs[w] : CallbackReturns(w, j)
CallsFail(w) == \E j \in jobs[w] : CallbackRaises(w, j) \/ CallbackRefused(w, j)

Next ==
    \/ \E s \in Subs, p \in Partitions : Enqueue(s, p)
    \/ Rebalances
    \/ \E w \in Workers : Works(w) \/ Fails(w) \/ Calls(w) \/ CallsFail(w)

Spec == Init /\ [][Next]_vars

-----------------------------------------------------------------------------

\* Back-pressure: a worker holds less than two polls' worth of messages.  True
\* as long as its partitions are not handed out again while it is paused.
ActiveBound == \A w \in Workers : Active(w) <= 2 * MaxConcurrent - 1

\* A submission Django published is answered, or one of its messages is still
\* at or above the committed offset, so that a restart delivers it.
NoSubmissionLost ==
    \A m \in Messages :
        \/ m.sub \in answered
        \/ \E p \in Partitions : \E i \in DOMAIN contents[p] :
              /\ FirstOffset(p) + i - 1 >= committed[p]
              /\ contents[p][i].sub = m.sub

\* The jobs are the tasks of the trackers.
ImplementsTracker == Tracker!Spec
=============================================================================
