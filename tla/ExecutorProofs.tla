--------------------------- MODULE ExecutorProofs ---------------------------
(***************************************************************************)
(* The theorems about Executor, for any workers, partitions, submissions and *)
(* bounds.                                                                  *)
(***************************************************************************)
EXTENDS Executor, FiniteSetTheorems, TLAPS

\* The theorems about CommitTracker, of the trackers of these workers.
TP == INSTANCE CommitTrackerProofs WITH
    log <- [p \in Partitions |-> FirstOffset(p) + Len(contents[p])],
    tasks <- [w \in Workers |-> {TaskOf(j) : j \in jobs[w]}],
    MaxFaults <- MaxFaults + MaxRefusals

\* What is assumed of the constants.
Constants == ExecutorAssumption /\ Tracker!TrackerAssumption

-----------------------------------------------------------------------------
(* TP speaks of the tracker Executor is conjoined with.                     *)

LEMMA SameAssumption == Tracker!TrackerAssumption <=> TP!TrackerAssumption
BY DEF Tracker!TrackerAssumption, TP!TrackerAssumption, Tracker!NoOffset, TP!NoOffset

LEMMA SameType == Tracker!TypeOK <=> TP!TypeOK
BY DEF Tracker!TypeOK, TP!TypeOK, Tracker!NoOffset, TP!NoOffset, Tracker!Task, TP!Task,
       Tracker!Commit, TP!Commit

LEMMA SameTypeAfter == (Tracker!TypeOK)' <=> (TP!TypeOK)'
BY DEF Tracker!TypeOK, TP!TypeOK, Tracker!NoOffset, TP!NoOffset, Tracker!Task, TP!Task,
       Tracker!Commit, TP!Commit

LEMMA SameInit == Tracker!Init <=> TP!Init
BY DEF Tracker!Init, TP!Init, Tracker!NoOffset, TP!NoOffset, Tracker!FirstOffset, TP!FirstOffset

LEMMA SameNext == [Tracker!Next]_Tracker!vars <=> [TP!Next]_TP!vars
BY DEF Tracker!Next, TP!Next, Tracker!vars, TP!vars, Tracker!brokerVars, TP!brokerVars,
       Tracker!trackerVars, TP!trackerVars, Tracker!NoOffset, TP!NoOffset,
       Tracker!Produce, TP!Produce, Tracker!Rebalances, TP!Rebalances,
       Tracker!Rebalance, TP!Rebalance, Tracker!Polls, TP!Polls, Tracker!Poll, TP!Poll,
       Tracker!FetchFrom, TP!FetchFrom, Tracker!Crash, TP!Crash, Tracker!Marks, TP!Marks,
       Tracker!MarkCompleted, TP!MarkCompleted, Tracker!NextCommitOffset, TP!NextCommitOffset,
       Tracker!RunEndsAt, TP!RunEndsAt, Tracker!Raise, TP!Raise,
       Tracker!AfterException, TP!AfterException, Tracker!BrokerCommit, TP!BrokerCommit,
       Tracker!FinishCommit, TP!FinishCommit, Tracker!CommitFails, TP!CommitFails

-----------------------------------------------------------------------------
(* The jobs are the tasks of the trackers: what a job does between two calls *)
(* the tracker sees leaves its task as it is.                               *)

\* A job goes on within its block.
LEMMA GoesKeepsTasks ==
    ASSUME NEW w \in Workers, NEW j \in jobs[w], NEW next, Goes(w, j, next),
           jobs \in [Workers -> SUBSET Job], TaskOf(next) = TaskOf(j)
    PROVE  [u \in Workers |-> {TaskOf(i) : i \in jobs'[u]}] = [u \in Workers |-> {TaskOf(i) : i \in jobs[u]}]
<1>1. jobs'[w] = (jobs[w] \ {j}) \cup {next} /\ \A u \in Workers : u # w => jobs'[u] = jobs[u]
  BY DEF Goes
<1>2. {TaskOf(i) : i \in jobs'[w]} = {TaskOf(i) : i \in jobs[w]}
  BY <1>1
<1> QED  BY <1>1, <1>2

\* ... and a stage of the block it is in.
LEMMA StageKeepsTask ==
    ASSUME NEW j \in Job, NEW s \in TryStages \cup ExceptStages,
           s \in ExceptStages <=> j.stage \in ExceptStages
    PROVE  TaskOf([j EXCEPT !.stage = s]) = TaskOf(j)
BY DEF TaskOf, Job

LEMMA VerdictKeepsTask ==
    ASSUME NEW j \in Job, NEW s \in TryStages \cup ExceptStages, NEW v,
           s \in ExceptStages <=> j.stage \in ExceptStages
    PROVE  TaskOf([j EXCEPT !.stage = s, !.verdict = v]) = TaskOf(j)
BY DEF TaskOf, Job

LEMMA RunningImplements ==
    ASSUME TypeOK, NEW w \in Workers, NEW j \in jobs[w],
           Acquire(w, j) \/ Grade(w, j) \/ CallbackReturns(w, j) \/ PublishDeadLetter(w, j)
    PROVE  UNCHANGED Tracker!vars
<1>1. j \in Job /\ jobs \in [Workers -> SUBSET Job]
  BY DEF TypeOK
<1>2. \E next : Goes(w, j, next) /\ TaskOf(next) = TaskOf(j)
  <2> USE DEF TryStages, ExceptStages
  <2>1. CASE Acquire(w, j)
    <3>1. Goes(w, j, [j EXCEPT !.stage = "grading"]) /\ j.stage = "waiting"
      BY <2>1 DEF Acquire
    <3> QED  BY <1>1, <3>1, StageKeepsTask
  <2>2. CASE Grade(w, j)
    <3>1. PICK v : Goes(w, j, [j EXCEPT !.stage = "callback", !.verdict = v]) /\ j.stage = "grading"
      BY <2>2 DEF Grade
    <3>2. TaskOf([j EXCEPT !.stage = "callback", !.verdict = v]) = TaskOf(j)
      BY <1>1, <3>1, VerdictKeepsTask
    <3> QED  BY <3>1, <3>2
  <2>3. CASE CallbackReturns(w, j)
    <3>1. CASE j.stage = "callback"
      <4>1. Goes(w, j, [j EXCEPT !.stage = "graded"])
        BY <2>3, <3>1 DEF CallbackReturns
      <4> QED  BY <1>1, <3>1, <4>1, StageKeepsTask
    <3>2. CASE j.stage = "errorCallback"
      <4>1. Goes(w, j, [j EXCEPT !.stage = "handled"])
        BY <2>3, <3>2 DEF CallbackReturns
      <4> QED  BY <1>1, <3>2, <4>1, StageKeepsTask
    <3> QED  BY <2>3, <3>1, <3>2 DEF CallbackReturns, InCallback
  <2>4. CASE PublishDeadLetter(w, j)
    <3>1. /\ Goes(w, j, [j EXCEPT !.stage = "errorCallback", !.verdict = "SYSTEM_ERROR"])
          /\ j.stage = "failed"
      BY <2>4 DEF PublishDeadLetter
    <3>2. TaskOf([j EXCEPT !.stage = "errorCallback", !.verdict = "SYSTEM_ERROR"]) = TaskOf(j)
      BY <1>1, <3>1, VerdictKeepsTask
    <3> QED  BY <3>1, <3>2
  <2> QED  BY <2>1, <2>2, <2>3, <2>4
<1>3. [u \in Workers |-> {TaskOf(i) : i \in jobs'[u]}] = [u \in Workers |-> {TaskOf(i) : i \in jobs[u]}]
  BY <1>1, <1>2, GoesKeepsTasks
<1>4. UNCHANGED <<contents, committed, owner, position, generation, trackerVars, faults>>
  BY <1>2 DEF Goes, Acquire, Grade, CallbackReturns, PublishDeadLetter
<1> QED  BY <1>3, <1>4 DEF Tracker!vars, Tracker!brokerVars, Tracker!trackerVars, trackerVars

\* One message more at the end of p is one offset more.
LEMMA AppendProduces ==
    ASSUME Constants, contents \in [Partitions -> Seq(Message)], NEW p \in Partitions, NEW m \in Message,
           Append1(p, m)
    PROVE  /\ FirstOffset(p) + Len(contents[p]) < MaxOffset
           /\ [q \in Partitions |-> FirstOffset(q) + Len(contents'[q])] =
              [[q \in Partitions |-> FirstOffset(q) + Len(contents[q])] EXCEPT ![p] = @ + 1]
<1>1. /\ contents'[p] = Append(contents[p], m)
      /\ \A q \in Partitions : q # p => contents'[q] = contents[q]
  BY DEF Append1
<1>2. Len(contents'[p]) = Len(contents[p]) + 1
  BY <1>1
<1>3. FirstOffset(p) \in Nat /\ Len(contents[p]) \in Nat
  BY DEF Constants, Tracker!TrackerAssumption, Tracker!NoOffset, FirstOffset
<1> DEFINE f == [q \in Partitions |-> FirstOffset(q) + Len(contents[q])]
<1>4. [q \in Partitions |-> FirstOffset(q) + Len(contents'[q])] =
      [q \in Partitions |-> IF q = p THEN f[p] + 1 ELSE f[q]]
  <2>1. FirstOffset(p) + Len(contents'[p]) = f[p] + 1
    BY <1>2, <1>3
  <2>2. ASSUME NEW q \in Partitions
        PROVE  FirstOffset(q) + Len(contents'[q]) = IF q = p THEN f[p] + 1 ELSE f[q]
    <3>1. CASE q = p
      BY <2>1, <3>1
    <3>2. CASE q # p
      BY <1>1, <3>2
    <3> QED  BY <3>1, <3>2
  <2> HIDE DEF f
  <2> QED  BY <2>2
<1>5. [f EXCEPT ![p] = @ + 1] = [q \in Partitions |-> IF q = p THEN f[p] + 1 ELSE f[q]]
  <2> HIDE DEF f
  <2>1. ASSUME NEW g, g = [q \in Partitions |-> g[q]]
        PROVE  [g EXCEPT ![p] = @ + 1] = [q \in Partitions |-> IF q = p THEN g[p] + 1 ELSE g[q]]
    BY <2>1
  <2>2. f = [q \in Partitions |-> f[q]]
    BY DEF f
  <2> QED  BY <2>1, <2>2
<1>6. [q \in Partitions |-> FirstOffset(q) + Len(contents'[q])] = [f EXCEPT ![p] = @ + 1]
  <2> HIDE DEF f
  <2> QED  BY <1>4, <1>5
<1>7. FirstOffset(p) + Len(contents[p]) < MaxOffset
  BY DEF Append1
<1> QED  BY <1>6, <1>7

\* The message of a job is in the topic.
LEMMA JobMessage ==
    ASSUME Constants, TypeOK, TP!InLog, NEW w \in Workers, NEW j \in jobs[w]
    PROVE  /\ j \in Job /\ j.part \in Partitions /\ j.offset \in Nat
           /\ TaskOf(j) \in {TaskOf(i) : i \in jobs[w]}
           /\ FirstOffset(j.part) \in Nat
           /\ j.offset - FirstOffset(j.part) + 1 \in DOMAIN contents[j.part]
           /\ MessageOf(j) \in Message
<1>1. j \in Job /\ j.part \in Partitions /\ j.offset \in Nat
  BY DEF TypeOK, Job
<1>2. TaskOf(j) \in {TaskOf(i) : i \in jobs[w]} /\ TaskOf(j).part = j.part /\ TaskOf(j).offset = j.offset
  BY DEF TaskOf
<1>3. FirstOffset(j.part) = TP!FirstOffset(j.part) /\ FirstOffset(j.part) \in Nat
  BY <1>1 DEF FirstOffset, TP!FirstOffset, TP!NoOffset, Constants, Tracker!TrackerAssumption,
     Tracker!NoOffset
<1>4. FirstOffset(j.part) <= j.offset /\ j.offset < FirstOffset(j.part) + Len(contents[j.part])
  <2>1. /\ TP!FirstOffset(TaskOf(j).part) <= TaskOf(j).offset
        /\ TaskOf(j).offset < [p \in Partitions |-> FirstOffset(p) + Len(contents[p])][TaskOf(j).part]
    BY <1>2 DEF TP!InLog, TP!TasksInLog
  <2> QED  BY <1>1, <1>2, <1>3, <2>1
<1>5. contents[j.part] \in Seq(Message)
  BY <1>1 DEF TypeOK
<1>6. j.offset - FirstOffset(j.part) + 1 \in DOMAIN contents[j.part]
  BY <1>1, <1>3, <1>4, <1>5
<1> QED  BY <1>1, <1>2, <1>3, <1>5, <1>6 DEF MessageOf, MessageAt

LEMMA PublishImplements ==
    ASSUME Constants, TypeOK, TP!InLog, NEW p \in Partitions,
           \/ \E s \in Subs : Enqueue(s, p)
           \/ \E w \in Workers : \E j \in jobs[w] : PublishRetry(w, j, p)
    PROVE  Tracker!Produce(p)
<1>1. contents \in [Partitions -> Seq(Message)] /\ jobs \in [Workers -> SUBSET Job]
  BY DEF TypeOK
<1>2. \E m \in Message : Append1(p, m)
  <2>1. ASSUME NEW s \in Subs, Enqueue(s, p) PROVE \E m \in Message : Append1(p, m)
    BY <2>1 DEF Enqueue, Message, Constants, ExecutorAssumption
  <2>2. ASSUME NEW w \in Workers, NEW j \in jobs[w], PublishRetry(w, j, p)
        PROVE  \E m \in Message : Append1(p, m)
    <3>1. MessageOf(j) \in Message
      BY JobMessage
    <3>2. [MessageOf(j) EXCEPT !.attempt = @ + 1] \in Message
      BY <2>2, <3>1 DEF PublishRetry, Message, Constants, ExecutorAssumption
    <3> QED  BY <2>2, <3>2 DEF PublishRetry
  <2> QED  BY <2>1, <2>2
<1>3. [u \in Workers |-> {TaskOf(i) : i \in jobs'[u]}] = [u \in Workers |-> {TaskOf(i) : i \in jobs[u]}]
  <2>1. ASSUME NEW w \in Workers, NEW j \in jobs[w], PublishRetry(w, j, p)
        PROVE  [u \in Workers |-> {TaskOf(i) : i \in jobs'[u]}] = [u \in Workers |-> {TaskOf(i) : i \in jobs[u]}]
    <3>1. Goes(w, j, [j EXCEPT !.stage = "handled"]) /\ j.stage = "failed"
      BY <2>1 DEF PublishRetry
    <3>2. TaskOf([j EXCEPT !.stage = "handled"]) = TaskOf(j)
      BY <1>1, <3>1, StageKeepsTask DEF TryStages, ExceptStages
    <3> QED  BY <1>1, <3>1, <3>2, GoesKeepsTasks
  <2>2. ASSUME NEW s \in Subs, Enqueue(s, p) PROVE UNCHANGED jobs
    BY <2>2 DEF Enqueue, workerVars
  <2> QED  BY <2>1, <2>2
<1>4. UNCHANGED <<committed, owner, position, generation, trackerVars, faults>>
  BY DEF Enqueue, PublishRetry, Goes
<1> QED
  BY <1>1, <1>2, <1>3, <1>4, AppendProduces DEF Tracker!Produce, Tracker!trackerVars, trackerVars

LEMMA StepImplements ==
    ASSUME Constants, TypeOK, TP!InLog, [Next]_vars PROVE [Tracker!Next]_Tracker!vars
<1> DEFINE tasks == [w \in Workers |-> {TaskOf(j) : j \in jobs[w]}]
<1>1. \A w \in Workers : \A j \in jobs[w] : TaskOf(j) \in tasks[w]
  OBVIOUS
<1>2. ASSUME NEW w \in Workers, NEW j \in jobs[w], Raises(w, j) PROVE Tracker!Next
  BY <1>1, <1>2 DEF Raises, Tracker!Next
<1>3. ASSUME NEW w \in Workers, NEW j \in jobs[w], MarkCompleted(w, j) PROVE Tracker!Next
  <2>1. TaskOf(j) \in tasks[w] /\ Tracker!MarkCompleted(w, TaskOf(j))
    BY <1>1, <1>3 DEF MarkCompleted
  <2> QED  BY <2>1 DEF Tracker!Next, Tracker!Marks
<1>4. ASSUME NEW w \in Workers, Polls(w) PROVE Tracker!Next
  <2>1. PICK upto \in [Mine(w) -> 0..MaxOffset] : Tracker!Poll(w, upto)
    BY <1>4 DEF Polls, PollMessages
  <2> QED  BY <2>1 DEF Tracker!Next, Tracker!Polls, Mine
<1>5. ASSUME Rebalances PROVE Tracker!Next
  BY <1>5 DEF Rebalances, Rebalance, Tracker!Next, Tracker!Rebalances
<1>6. ASSUME NEW w \in Workers, Crash(w) PROVE Tracker!Next
  BY <1>6 DEF Crash, Tracker!Next
<1>7. ASSUME NEW w \in Workers, NEW k \in committing[w],
             BrokerCommit(w, k) \/ FinishCommit(w, k) \/ CommitFails(w, k)
      PROVE  Tracker!Next
  BY <1>7 DEF BrokerCommit, FinishCommit, CommitFails, Tracker!Next
<1>8. ASSUME NEW w \in Workers, NEW j \in jobs[w],
             \/ GradeRaises(w, j) \/ PublishRaises(w, j) \/ MarkRaises(w, j)
             \/ CallbackRaises(w, j) \/ CallbackRefused(w, j)
      PROVE  Raises(w, j)
  BY <1>8 DEF GradeRaises, PublishRaises, MarkRaises, CallbackRaises, CallbackRefused
<1>9. ASSUME NEW p \in Partitions, Tracker!Produce(p) PROVE Tracker!Next
  BY <1>9 DEF Tracker!Next
<1>10. ASSUME \/ UNCHANGED vars
              \/ \E w \in Workers : PollNothing(w)
       PROVE  UNCHANGED Tracker!vars
  BY <1>10 DEF vars, PollNothing, brokerVars, trackerVars, workerVars, Tracker!vars,
     Tracker!brokerVars, Tracker!trackerVars
<1> HIDE DEF tasks
<1> QED
  BY <1>2, <1>3, <1>4, <1>5, <1>6, <1>7, <1>8, <1>9, <1>10, RunningImplements, PublishImplements
     DEF Next, Works, Sandbox, Republishes, Marks, Commits, Fails, Calls, CallsFail

-----------------------------------------------------------------------------
(* Type correctness.                                                        *)

LEMMA TypeInit == ASSUME Constants, Init PROVE TypeOK /\ TP!InLog
<1>1. TP!TypeOK /\ TP!InLog
  BY SameAssumption, SameInit, TP!TypeInit, TP!InLogInit DEF Constants, Init
<1>2. Tracker!TypeOK
  BY <1>1, SameType
<1>3. /\ contents \in [Partitions -> Seq(Message)] /\ jobs \in [Workers -> SUBSET Job]
      /\ deadLetters = {} /\ isPaused \in [Workers -> BOOLEAN] /\ paused = {}
      /\ refusals = 0 /\ answered = {}
  BY DEF Init
<1> QED  BY <1>1, <1>2, <1>3 DEF TypeOK

\* The jobs of one poll are jobs.
LEMMA NewJobsType ==
    ASSUME TypeOK, NEW w \in Workers, NEW upto \in [Mine(w) -> 0..MaxOffset], MaxOffset \in Nat
    PROVE  NewJobs(upto) \in SUBSET Job
<1>1. \A p \in Mine(w) : p \in Partitions /\ Tracker!FetchFrom(p) \in Nat /\ upto[p] \in Nat
  BY DEF Mine, TypeOK, Tracker!TypeOK, Tracker!FetchFrom, Tracker!NoOffset
<1>2. generation \in Nat /\ DOMAIN upto = Mine(w)
  BY DEF TypeOK, Tracker!TypeOK
<1>3. ASSUME NEW p \in Mine(w), NEW o \in Tracker!FetchFrom(p)..(upto[p] - 1)
      PROVE  [part |-> p, offset |-> o, generation |-> generation,
              stage |-> "waiting", verdict |-> "none"] \in Job
  <2>1. o \in Nat
    BY <1>1
  <2> QED  BY <1>1, <1>2, <2>1 DEF Job, TryStages
<1> QED  BY <1>2, <1>3 DEF NewJobs

\* A job that goes on is a job.
LEMMA JobGoes ==
    ASSUME NEW j \in Job, NEW s \in TryStages \cup ExceptStages
    PROVE  /\ [j EXCEPT !.stage = s] \in Job
           /\ \A v \in Verdict : [j EXCEPT !.stage = s, !.verdict = v] \in Job
<1>1. [j EXCEPT !.stage = s] \in Job
  BY DEF Job
<1>2. ASSUME NEW i \in Job, NEW v \in Verdict PROVE [i EXCEPT !.verdict = v] \in Job
  BY <1>2 DEF Job
<1> QED  BY <1>1, <1>2

\* Jobs are replaced by jobs.
LEMMA JobsStep ==
    ASSUME Constants, TypeOK, TP!InLog, [Next]_vars PROVE jobs' \in [Workers -> SUBSET Job]
<1>1. jobs \in [Workers -> SUBSET Job]
  BY DEF TypeOK
<1>2. ASSUME NEW w \in Workers, NEW left \in SUBSET jobs[w], NEW more \in SUBSET Job,
             jobs' = [jobs EXCEPT ![w] = left \cup more]
      PROVE  jobs' \in [Workers -> SUBSET Job]
  BY <1>1, <1>2
<1>3. ASSUME NEW w \in Workers, NEW j \in jobs[w], NEW next \in Job, Goes(w, j, next)
      PROVE  jobs' \in [Workers -> SUBSET Job]
  BY <1>2, <1>3 DEF Goes
<1>4. ASSUME NEW w \in Workers, NEW j \in jobs[w], Raises(w, j)
      PROVE  jobs' \in [Workers -> SUBSET Job]
  <2> DEFINE more == IF j.stage \in ExceptStages THEN {} ELSE {[j EXCEPT !.stage = "failed"]}
  <2>1. j \in Job
    BY <1>1
  <2>2. [j EXCEPT !.stage = "failed"] \in Job
    BY <2>1, JobGoes DEF ExceptStages
  <2>3. more \in SUBSET Job
    BY <2>2
  <2>4. jobs' = [jobs EXCEPT ![w] = (@ \ {j}) \cup more]
    BY <1>4 DEF Raises
  <2> HIDE DEF more
  <2>5. jobs' = [jobs EXCEPT ![w] = (jobs[w] \ {j}) \cup more]
    BY <2>4
  <2> QED  BY <1>2, <2>3, <2>5
<1>5. ASSUME NEW w \in Workers, Polls(w) PROVE jobs' \in [Workers -> SUBSET Job]
  <2>1. PICK upto \in [Mine(w) -> 0..MaxOffset] : jobs' = [jobs EXCEPT ![w] = @ \cup NewJobs(upto)]
    BY <1>5 DEF Polls, PollMessages
  <2>2. NewJobs(upto) \in SUBSET Job
    BY NewJobsType DEF Constants, Tracker!TrackerAssumption
  <2> QED  BY <1>2, <2>1, <2>2
<1>6. ASSUME NEW w \in Workers, Sandbox(w) \/ Republishes(w) \/ Calls(w)
      PROVE  jobs' \in [Workers -> SUBSET Job]
  <2> USE DEF TryStages, ExceptStages
  <2>1. ASSUME NEW j \in jobs[w], NEW s \in TryStages \cup ExceptStages
        PROVE  /\ [j EXCEPT !.stage = s] \in Job
               /\ \A v \in Verdict : [j EXCEPT !.stage = s, !.verdict = v] \in Job
    BY <1>1, JobGoes
  <2>2. ASSUME NEW j \in jobs[w], Acquire(w, j) PROVE jobs' \in [Workers -> SUBSET Job]
    BY <1>3, <2>1, <2>2 DEF Acquire
  <2>3. ASSUME NEW j \in jobs[w], Grade(w, j) PROVE jobs' \in [Workers -> SUBSET Job]
    <3>1. MessageOf(j).sub \in Subs
      BY JobMessage DEF Message
    <3>2. PossibleVerdicts(MessageOf(j).sub) \subseteq Verdict
      BY <3>1 DEF PossibleVerdicts, Constants, ExecutorAssumption, Verdict
    <3>3. PICK v \in PossibleVerdicts(MessageOf(j).sub) :
             Goes(w, j, [j EXCEPT !.stage = "callback", !.verdict = v])
      BY <2>3 DEF Grade
    <3>4. v \in Verdict
      BY <3>2, <3>3
    <3>5. [j EXCEPT !.stage = "callback", !.verdict = v] \in Job
      BY <2>1, <3>4
    <3> QED  BY <1>3, <3>3, <3>5
  <2>4. ASSUME NEW j \in jobs[w], CallbackReturns(w, j) PROVE jobs' \in [Workers -> SUBSET Job]
    <3>1. PICK s \in TryStages \cup ExceptStages : Goes(w, j, [j EXCEPT !.stage = s])
      BY <2>4 DEF CallbackReturns
    <3> QED  BY <1>3, <2>1, <3>1
  <2>5. ASSUME NEW j \in jobs[w], NEW p \in Partitions, PublishRetry(w, j, p)
        PROVE  jobs' \in [Workers -> SUBSET Job]
    BY <1>3, <2>1, <2>5 DEF PublishRetry
  <2>6. ASSUME NEW j \in jobs[w], PublishDeadLetter(w, j) PROVE jobs' \in [Workers -> SUBSET Job]
    <3>1. [j EXCEPT !.stage = "errorCallback", !.verdict = "SYSTEM_ERROR"] \in Job
      BY <2>1 DEF Verdict
    <3> QED  BY <1>3, <2>6, <3>1 DEF PublishDeadLetter
  <2> QED  BY <1>6, <2>2, <2>3, <2>4, <2>5, <2>6 DEF Sandbox, Republishes, Calls
<1>7. ASSUME NEW w \in Workers, Marks(w) \/ Crash(w) PROVE jobs' \in [Workers -> SUBSET Job]
  BY <1>1, <1>7 DEF Marks, MarkCompleted, Crash
<1>8. ASSUME NEW w \in Workers, NEW k \in committing[w], CommitFails(w, k)
      PROVE  jobs' \in [Workers -> SUBSET Job]
  <2>1. k.task.part \in Partitions /\ k.task.offset \in Nat /\ k.task.generation \in Nat
    BY DEF TypeOK, Tracker!TypeOK, Tracker!Commit, Tracker!Task
  <2>2. [part |-> k.task.part, offset |-> k.task.offset, generation |-> k.task.generation,
         stage |-> "failed", verdict |-> "none"] \in Job
    BY <2>1 DEF Job, ExceptStages
  <2>3. \E more \in SUBSET Job : jobs' = [jobs EXCEPT ![w] = jobs[w] \cup more]
    <3>1. CASE k.task.failing
      BY <1>8, <3>1 DEF CommitFails
    <3>2. CASE ~k.task.failing
      BY <1>8, <2>2, <3>2 DEF CommitFails
    <3> QED  BY <3>1, <3>2
  <2> QED  BY <1>2, <2>3
<1>9. CASE UNCHANGED jobs
  BY <1>1, <1>9
<1> QED
  BY <1>4, <1>5, <1>6, <1>7, <1>8, <1>9 DEF Next, Enqueue, Rebalances, Rebalance, Works, PollNothing,
     Commits, BrokerCommit, FinishCommit, Fails, GradeRaises, PublishRaises, MarkRaises, Calls,
     CallsFail, CallbackRaises, CallbackRefused, vars, workerVars

LEMMA ContentsStep ==
    ASSUME Constants, TypeOK, TP!InLog, [Next]_vars
    PROVE  \/ UNCHANGED contents
           \/ \E p \in Partitions, m \in Message : contents' = [contents EXCEPT ![p] = Append(@, m)]
<1>1. ASSUME NEW s \in Subs, NEW p \in Partitions, Enqueue(s, p)
      PROVE  \E m \in Message : contents' = [contents EXCEPT ![p] = Append(@, m)]
  <2>1. [sub |-> s, attempt |-> 1] \in Message
    BY DEF Message, Constants, ExecutorAssumption
  <2>2. contents' = [contents EXCEPT ![p] = Append(@, [sub |-> s, attempt |-> 1])]
    BY <1>1 DEF Enqueue, Append1
  <2> QED  BY <2>1, <2>2
<1>2. ASSUME NEW w \in Workers, NEW j \in jobs[w], NEW p \in Partitions, PublishRetry(w, j, p)
      PROVE  \E m \in Message : contents' = [contents EXCEPT ![p] = Append(@, m)]
  <2>1. [MessageOf(j) EXCEPT !.attempt = @ + 1] \in Message
    BY <1>2, JobMessage DEF PublishRetry, Message, Constants, ExecutorAssumption
  <2> QED  BY <1>2, <2>1 DEF PublishRetry, Append1
<1>3. ASSUME NEW w \in Workers, Polls(w) \/ PollNothing(w) \/ Sandbox(w) \/ Marks(w) \/ Commits(w)
      PROVE  UNCHANGED contents
  <2>1. CASE Polls(w)
    BY <2>1 DEF Polls, PollMessages
  <2>2. CASE PollNothing(w)
    BY <2>2 DEF PollNothing, brokerVars
  <2>3. CASE Sandbox(w)
    BY <2>3 DEF Sandbox, Acquire, Grade
  <2>4. CASE Marks(w)
    BY <2>4 DEF Marks, MarkCompleted
  <2>5. CASE Commits(w)
    BY <2>5 DEF Commits, BrokerCommit, FinishCommit
  <2> QED  BY <1>3, <2>1, <2>2, <2>3, <2>4, <2>5
<1>4. ASSUME NEW w \in Workers, Fails(w) \/ Calls(w) \/ CallsFail(w) PROVE UNCHANGED contents
  BY <1>4 DEF Fails, Crash, GradeRaises, PublishRaises, MarkRaises, CommitFails, Calls,
     CallbackReturns, CallsFail, CallbackRaises, CallbackRefused
<1>5. ASSUME NEW w \in Workers, Republishes(w)
      PROVE  \/ UNCHANGED contents
             \/ \E p \in Partitions, m \in Message : contents' = [contents EXCEPT ![p] = Append(@, m)]
  BY <1>2, <1>5 DEF Republishes, PublishDeadLetter
<1>6. CASE Rebalances \/ UNCHANGED vars
  BY <1>6 DEF Rebalances, Rebalance, vars, brokerVars
<1> QED  BY <1>1, <1>3, <1>4, <1>5, <1>6 DEF Next, Works

LEMMA PauseType ==
    ASSUME TypeOK, NEW w \in Workers, PauseOrResume(w)
    PROVE  isPaused' \in [Workers -> BOOLEAN] /\ paused' \subseteq Partitions
BY DEF PauseOrResume, TypeOK, Mine

LEMMA TypeStep == ASSUME Constants, TypeOK, TP!InLog, [Next]_vars PROVE TypeOK' /\ TP!InLog'
<1>1. TP!TrackerAssumption /\ TP!TypeOK /\ [TP!Next]_TP!vars
  BY SameAssumption, SameType, SameNext, StepImplements DEF Constants, TypeOK
<1>2. TP!TypeOK'
  BY <1>1, TP!TypeStep
<1>3. TP!InLog'
  BY <1>1, <1>2, TP!InLogStep
<1>4. Tracker!TypeOK'
  BY <1>2, SameTypeAfter
<1>5. contents' \in [Partitions -> Seq(Message)]
  <2>1. contents \in [Partitions -> Seq(Message)]
    BY DEF TypeOK
  <2>2. ASSUME NEW p \in Partitions, NEW m \in Message, contents' = [contents EXCEPT ![p] = Append(@, m)]
        PROVE  contents' \in [Partitions -> Seq(Message)]
    <3>1. Append(contents[p], m) \in Seq(Message)
      BY <2>1
    <3> QED  BY <2>1, <2>2, <3>1
  <2> QED  BY <2>1, <2>2, ContentsStep
<1>6. ASSUME NEW w \in Workers, NEW j \in jobs[w], MessageOf(j) \in Message,
             Sandbox(w) \/ PublishDeadLetter(w, j) \/ CallbackReturns(w, j) \/ CallbackRefused(w, j)
             \/ \E p \in Partitions : PublishRetry(w, j, p)
      PROVE  /\ deadLetters' \subseteq Message /\ refusals' \in Nat /\ answered' \subseteq Subs
             /\ UNCHANGED <<isPaused, paused>>
  <2>1. CASE PublishDeadLetter(w, j)
    BY <1>6, <2>1 DEF PublishDeadLetter, Goes, TypeOK
  <2>2. CASE CallbackReturns(w, j)
    BY <1>6, <2>2 DEF CallbackReturns, Goes, TypeOK, Message
  <2>3. CASE CallbackRefused(w, j)
    BY <2>3 DEF CallbackRefused, Raises, TypeOK
  <2>4. CASE Sandbox(w) \/ \E p \in Partitions : PublishRetry(w, j, p)
    BY <2>4 DEF Sandbox, Acquire, Grade, PublishRetry, Goes, TypeOK
  <2> QED  BY <1>6, <2>1, <2>2, <2>3, <2>4
<1>7. ASSUME NEW w \in Workers, Crash(w)
      PROVE  isPaused' \in [Workers -> BOOLEAN] /\ paused' \subseteq Partitions
  BY <1>7 DEF Crash, TypeOK
<1>8. ASSUME NEW w \in Workers, Polls(w) \/ PollNothing(w)
      PROVE  isPaused' \in [Workers -> BOOLEAN] /\ paused' \subseteq Partitions
  BY <1>8, PauseType DEF Polls, PollMessages, PollNothing
<1>9. ASSUME NEW w \in Workers, Sandbox(w) \/ Republishes(w) \/ Calls(w) \/ CallsFail(w)
      PROVE  \/ \E j \in jobs[w] : \/ Sandbox(w) \/ PublishDeadLetter(w, j) \/ CallbackReturns(w, j)
                                  \/ CallbackRefused(w, j)
                                  \/ \E p \in Partitions : PublishRetry(w, j, p)
             \/ \E j \in jobs[w] : CallbackRaises(w, j)
  BY <1>9 DEF Sandbox, Republishes, Calls, CallsFail
<1>10. isPaused' \in [Workers -> BOOLEAN] /\ paused' \subseteq Partitions
  <2>1. CASE UNCHANGED <<isPaused, paused>>
    BY <2>1 DEF TypeOK
  <2> QED
    BY <1>6, <1>7, <1>8, <1>9, <2>1, JobMessage DEF Next, Enqueue, Rebalances, Rebalance, Works, Marks,
       MarkCompleted, Commits, BrokerCommit, FinishCommit, Fails, GradeRaises, PublishRaises,
       MarkRaises, CommitFails, CallbackRaises, Raises, TypeOK, vars, workerVars
<1>11. deadLetters' \subseteq Message /\ refusals' \in Nat /\ answered' \subseteq Subs
  <2>1. CASE UNCHANGED <<deadLetters, refusals, answered>>
    BY <2>1 DEF TypeOK
  <2> QED
    BY <1>6, <1>9, <2>1, JobMessage DEF Next, Enqueue, Rebalances, Rebalance, Works, Polls,
       PollMessages, PollNothing, Marks, MarkCompleted, Commits, BrokerCommit, FinishCommit, Fails,
       Crash, GradeRaises, PublishRaises, MarkRaises, CommitFails, CallbackRaises, vars, brokerVars
<1> QED  BY <1>3, <1>4, <1>5, JobsStep, <1>10, <1>11 DEF TypeOK

\* The state of the executors is well typed, and every job's message is in the topic.
THEOREM TypeCorrect == Constants => (Spec => [](TypeOK /\ TP!InLog))
<1> SUFFICES ASSUME Constants PROVE Spec => [](TypeOK /\ TP!InLog)
  OBVIOUS
<1>1. Init => TypeOK /\ TP!InLog
  BY TypeInit
<1>2. (TypeOK /\ TP!InLog) /\ [Next]_vars => (TypeOK /\ TP!InLog)'
  BY TypeStep
<1> QED  BY <1>1, <1>2, PTL DEF Spec

-----------------------------------------------------------------------------
(* The executors implement the trackers.                                    *)

\* The jobs of the executors are the tasks of the trackers: what a job does
\* between its calls of mark_completed no tracker notices.
THEOREM ExecutorImplementsTracker == Constants => (Spec => ImplementsTracker)
<1> SUFFICES ASSUME Constants PROVE Spec => Tracker!Spec
  BY DEF ImplementsTracker
<1>1. TypeOK /\ TP!InLog /\ [Next]_vars => [Tracker!Next]_Tracker!vars
  BY StepImplements
<1>2. Init => Tracker!Init
  BY DEF Init
<1> QED  BY <1>1, <1>2, TypeCorrect, PTL DEF Spec, Tracker!Spec

-----------------------------------------------------------------------------
(* No submission is lost.  NoSubmissionLost speaks of the committed offsets, *)
(* which move over settled ones; so it is messages nobody settled that must  *)
(* be left, and a job may only settle its message when the submission is     *)
(* answered, or has a later one.                                            *)

\* A message of s with more than a delivery attempts that no worker settled.
Unsettled(s, a) ==
    \E p \in Partitions : \E i \in DOMAIN contents[p] :
        /\ contents[p][i].sub = s
        /\ contents[p][i].attempt > a
        /\ FirstOffset(p) + i - 1 \notin settled[p]

MessagesNotLost == \A m \in Messages : m.sub \in answered \/ Unsettled(m.sub, 0)

\* What allows a job to call mark_completed.
DoneJobsNotLost ==
    \A w \in Workers : \A j \in jobs[w] :
        /\ j.stage = "graded" => MessageOf(j).sub \in answered
        /\ j.stage = "handled" =>
              MessageOf(j).sub \in answered \/ Unsettled(MessageOf(j).sub, MessageOf(j).attempt)

NotLost == MessagesNotLost /\ DoneJobsNotLost

\* The types the lemmas below need.
LEMMA TopicTypes ==
    ASSUME Constants, TypeOK
    PROVE  /\ \A p \in Partitions : /\ contents[p] \in Seq(Message) /\ Len(contents[p]) \in Nat
                                   /\ DOMAIN contents[p] = 1..Len(contents[p])
                                   /\ FirstOffset(p) \in Nat /\ settled[p] \in SUBSET Nat
           /\ \A p \in Partitions : \A i \in DOMAIN contents[p] :
                 i \in Nat /\ contents[p][i] \in Message /\ contents[p][i].attempt \in Nat
<1>1. \A p \in Partitions : /\ contents[p] \in Seq(Message) /\ Len(contents[p]) \in Nat
                             /\ DOMAIN contents[p] = 1..Len(contents[p])
  BY DEF TypeOK
<1>2. \A p \in Partitions : FirstOffset(p) \in Nat /\ settled[p] \in SUBSET Nat
  BY DEF TypeOK, Tracker!TypeOK, Constants, Tracker!TrackerAssumption, Tracker!NoOffset, FirstOffset
<1>3. \A m \in Message : m.attempt \in Nat
  BY DEF Message
<1>4. \A p \in Partitions : \A i \in DOMAIN contents[p] : i \in Nat /\ contents[p][i] \in Message
  BY <1>1
<1> QED  BY <1>1, <1>2, <1>3, <1>4

\* A message stays where it is, and its job goes on finding it.
LEMMA MessagesStay ==
    ASSUME Constants, TypeOK, TP!InLog, [Next]_vars
    PROVE  /\ \A p \in Partitions : \A i \in DOMAIN contents[p] :
                 i \in DOMAIN contents'[p] /\ contents'[p][i] = contents[p][i]
           /\ \A w \in Workers : \A j \in jobs[w] : MessageOf(j)' = MessageOf(j)
<1>1. ASSUME NEW q \in Partitions, NEW m \in Message, contents' = [contents EXCEPT ![q] = Append(@, m)],
             NEW p \in Partitions, NEW i \in DOMAIN contents[p]
      PROVE  i \in DOMAIN contents'[p] /\ contents'[p][i] = contents[p][i]
  <2>1. contents[p] \in Seq(Message) /\ i \in 1..Len(contents[p])
    BY TopicTypes
  <2>2. CASE p = q
    <3>1. contents'[p] = Append(contents[p], m)
      BY <1>1, <2>2 DEF TypeOK
    <3> QED  BY <2>1, <3>1
  <2>3. CASE p # q
    BY <1>1, <2>3 DEF TypeOK
  <2> QED  BY <2>2, <2>3
<1>2. \A p \in Partitions : \A i \in DOMAIN contents[p] :
         i \in DOMAIN contents'[p] /\ contents'[p][i] = contents[p][i]
  BY <1>1, ContentsStep
<1>3. ASSUME NEW w \in Workers, NEW j \in jobs[w] PROVE MessageOf(j)' = MessageOf(j)
  BY <1>2, JobMessage DEF MessageOf, MessageAt
<1> QED  BY <1>2, <1>3

\* As long as nothing is settled, what is unsettled stays so.
LEMMA UnsettledStays ==
    ASSUME Constants, TypeOK, TP!InLog, [Next]_vars, UNCHANGED settled, NEW s, NEW a, Unsettled(s, a)
    PROVE  Unsettled(s, a)'
BY MessagesStay DEF Unsettled

\* Steps that publish nothing, settle nothing and complete no job.
LEMMA QuietStep ==
    ASSUME Constants, TypeOK, TP!InLog, [Next]_vars, NotLost,
           UNCHANGED <<contents, settled>>, answered \subseteq answered',
           \A w \in Workers : \A j \in jobs'[w] :
              j.stage \in {"graded", "handled"} => j \in jobs[w] \/ MessageOf(j).sub \in answered'
    PROVE  NotLost'
<1>1. \A s, a : Unsettled(s, a) => Unsettled(s, a)'
  BY UnsettledStays
<1>2. MessagesNotLost'
  BY <1>1 DEF NotLost, MessagesNotLost, Messages
<1>3. \A j : MessageOf(j)' = MessageOf(j)
  BY DEF MessageOf, MessageAt
<1>4. DoneJobsNotLost'
  <2> SUFFICES ASSUME NEW w \in Workers, NEW j \in jobs'[w], NEW m, m = MessageOf(j)
               PROVE  /\ j.stage = "graded" => m.sub \in answered'
                      /\ j.stage = "handled" => m.sub \in answered' \/ Unsettled(m.sub, m.attempt)'
    BY <1>3 DEF DoneJobsNotLost
  <2> QED  BY <1>1 DEF NotLost, DoneJobsNotLost
<1> QED  BY <1>2, <1>4 DEF NotLost

\* A published message is not settled.
LEMMA AppendNotLost ==
    ASSUME Constants, TypeOK, TP!InLog, [Next]_vars, NotLost, NEW p \in Partitions, NEW m \in Message,
           contents' = [contents EXCEPT ![p] = Append(@, m)], UNCHANGED <<settled, answered>>
    PROVE  MessagesNotLost' /\ \A a \in Nat : a < m.attempt => Unsettled(m.sub, a)'
<1> DEFINE n == Len(contents[p]) + 1
<1>1. contents[p] \in Seq(Message) /\ FirstOffset(p) \in Nat /\ Len(contents[p]) \in Nat
  BY TopicTypes
<1>2. contents'[p] = Append(contents[p], m)
  BY DEF TypeOK
<1>3. n \in DOMAIN contents'[p] /\ contents'[p][n] = m
  BY <1>1, <1>2
<1>4. FirstOffset(p) + n - 1 \notin settled'[p]
  BY <1>1 DEF TP!InLog, TP!BrokerInLog
<1>5. \A a \in Nat : a < m.attempt => Unsettled(m.sub, a)'
  <2> HIDE DEF n
  <2> QED  BY <1>3, <1>4 DEF Unsettled, Message
<1>6. \A k \in Messages' : k = m \/ k \in Messages
  <2>1. ASSUME NEW q \in Partitions, NEW i \in DOMAIN contents'[q]
        PROVE  contents'[q][i] = m \/ \E j \in DOMAIN contents[q] : contents'[q][i] = contents[q][j]
    <3>1. CASE q = p
      BY <1>1, <1>2, <3>1
    <3>2. CASE q # p
      BY <3>2 DEF TypeOK
    <3> QED  BY <3>1, <3>2
  <2> QED  BY <2>1 DEF Messages
<1>7. \A s : Unsettled(s, 0) => Unsettled(s, 0)'
  BY UnsettledStays
<1>8. MessagesNotLost'
  BY <1>5, <1>6, <1>7 DEF NotLost, MessagesNotLost, Message
<1> QED  BY <1>5, <1>8

LEMMA EnqueueNotLost ==
    ASSUME Constants, TypeOK, TP!InLog, [Next]_vars, NotLost,
           NEW s \in Subs, NEW p \in Partitions, Enqueue(s, p)
    PROVE  NotLost'
<1> DEFINE m == [sub |-> s, attempt |-> 1]
<1>1. /\ m \in Message /\ contents' = [contents EXCEPT ![p] = Append(@, m)]
      /\ UNCHANGED <<settled, answered, jobs>>
  BY DEF Enqueue, Append1, Message, Constants, ExecutorAssumption, trackerVars, workerVars
<1> HIDE DEF m
<1>2. MessagesNotLost'
  BY <1>1, AppendNotLost
<1>3. \A w \in Workers : \A j \in jobs[w] : MessageOf(j)' = MessageOf(j)
  BY MessagesStay
<1>4. \A r, a : Unsettled(r, a) => Unsettled(r, a)'
  BY <1>1, UnsettledStays
<1>5. DoneJobsNotLost'
  <2> SUFFICES ASSUME NEW w \in Workers, NEW j \in jobs[w], NEW k, k = MessageOf(j)
               PROVE  /\ j.stage = "graded" => k.sub \in answered
                      /\ j.stage = "handled" => k.sub \in answered \/ Unsettled(k.sub, k.attempt)'
    BY <1>1, <1>3 DEF DoneJobsNotLost
  <2> QED  BY <1>4 DEF NotLost, DoneJobsNotLost
<1> QED  BY <1>2, <1>5 DEF NotLost

LEMMA PublishRetryNotLost ==
    ASSUME Constants, TypeOK, TP!InLog, [Next]_vars, NotLost,
           NEW w \in Workers, NEW j \in jobs[w], NEW p \in Partitions, PublishRetry(w, j, p)
    PROVE  NotLost'
<1> DEFINE old == MessageOf(j)
           new == [old EXCEPT !.attempt = @ + 1]
           gone == [j EXCEPT !.stage = "handled"]
<1>1. /\ j \in Job /\ jobs \in [Workers -> SUBSET Job] /\ gone.part = j.part /\ gone.offset = j.offset
  BY DEF TypeOK, Job
<1>2. old \in Message /\ MessageOf(j)' = old
  BY JobMessage, MessagesStay
<1>3. new \in Message /\ new.sub = old.sub /\ new.attempt = old.attempt + 1 /\ old.attempt \in Nat
  BY <1>2 DEF PublishRetry, Message, Constants, ExecutorAssumption
<1>4. /\ contents' = [contents EXCEPT ![p] = Append(@, new)]
      /\ UNCHANGED <<settled, answered>>
      /\ jobs' = [jobs EXCEPT ![w] = (@ \ {j}) \cup {gone}]
  BY DEF PublishRetry, Append1, Goes, trackerVars
<1>5. MessageOf(gone)' = MessageOf(j)'
  BY <1>1 DEF MessageOf, MessageAt
<1> HIDE DEF old, new, gone
<1>6. ASSUME NEW n \in Message, n = new, NEW o, o = old
      PROVE  MessagesNotLost' /\ Unsettled(o.sub, o.attempt)'
  <2>1. contents' = [contents EXCEPT ![p] = Append(@, n)] /\ UNCHANGED <<settled, answered>>
    BY <1>4, <1>6
  <2>2. n.sub = o.sub /\ o.attempt < n.attempt /\ o.attempt \in Nat
    BY <1>3, <1>6
  <2>3. MessagesNotLost' /\ \A a \in Nat : a < n.attempt => Unsettled(n.sub, a)'
    BY <2>1, AppendNotLost
  <2>4. Unsettled(n.sub, o.attempt)'
    BY <2>2, <2>3
  <2> QED  BY <2>2, <2>3, <2>4
<1>7. \A r, a : Unsettled(r, a) => Unsettled(r, a)'
  BY <1>4, UnsettledStays
<1>8. DoneJobsNotLost'
  <2> SUFFICES ASSUME NEW u \in Workers, NEW i \in jobs'[u], NEW k, k = MessageOf(i)'
               PROVE  /\ i.stage = "graded" => k.sub \in answered
                      /\ i.stage = "handled" => k.sub \in answered \/ Unsettled(k.sub, k.attempt)'
    BY <1>4 DEF DoneJobsNotLost
  <2>1. CASE i \in jobs[u]
    <3>1. k = MessageOf(i)
      BY <2>1, MessagesStay
    <3> QED  BY <2>1, <3>1, <1>7 DEF NotLost, DoneJobsNotLost
  <2>2. CASE i = gone
    <3>1. k = old /\ i.stage = "handled"
      BY <2>2, <1>1, <1>2, <1>5 DEF gone, Job
    <3>2. Unsettled(k.sub, k.attempt)'
      BY <1>3, <1>6, <3>1
    <3> QED  BY <3>1, <3>2
  <2> QED  BY <1>1, <1>4, <2>1, <2>2
<1>9. MessagesNotLost'
  BY <1>3, <1>6
<1> QED  BY <1>8, <1>9 DEF NotLost

LEMMA MarkCompletedNotLost ==
    ASSUME Constants, TypeOK, TP!InLog, [Next]_vars, NotLost,
           NEW w \in Workers, NEW j \in jobs[w], MarkCompleted(w, j)
    PROVE  NotLost'
<1> DEFINE m == MessageOf(j)
<1>1. /\ UNCHANGED <<contents, answered>>
      /\ \A u \in Workers : jobs'[u] \subseteq jobs[u]
      /\ settled' = [settled EXCEPT ![TaskOf(j).part] = @ \cup {TaskOf(j).offset}]
  BY DEF MarkCompleted, Tracker!MarkCompleted, TypeOK
<1>2. TaskOf(j).part = j.part /\ TaskOf(j).offset = j.offset
  BY DEF TaskOf
<1>3. m \in Message /\ j.offset \in Nat /\ j.part \in Partitions
  BY JobMessage
<1>4. \A s, a : Unsettled(s, a) => Unsettled(s, a)' \/ (s = m.sub /\ m.attempt > a)
  <2> SUFFICES ASSUME NEW s, NEW a, NEW p \in Partitions, NEW i \in DOMAIN contents[p],
                      contents[p][i].sub = s, contents[p][i].attempt > a,
                      FirstOffset(p) + i - 1 \notin settled[p]
               PROVE  Unsettled(s, a)' \/ (s = m.sub /\ m.attempt > a)
    BY DEF Unsettled
  <2>1. CASE FirstOffset(p) + i - 1 \notin settled'[p]
    BY <1>1, <2>1 DEF Unsettled
  <2>2. CASE FirstOffset(p) + i - 1 \in settled'[p]
    <3>1. p = j.part /\ FirstOffset(p) + i - 1 = j.offset
      BY <1>1, <1>2, <1>3, <2>2 DEF TypeOK, Tracker!TypeOK
    <3>2. i = j.offset - FirstOffset(p) + 1
      BY <3>1, <1>3, TopicTypes
    <3>3. m = contents[p][i]
      BY <3>1, <3>2 DEF MessageOf, MessageAt
    <3> QED  BY <3>3
  <2> QED  BY <2>1, <2>2
<1>5. m.sub \in answered \/ Unsettled(m.sub, m.attempt)
  BY DEF MarkCompleted, NotLost, DoneJobsNotLost
<1>6. ASSUME NEW s, NEW a, Unsettled(s, a), a \in Nat PROVE s \in answered \/ Unsettled(s, a)'
  <2>1. ASSUME NEW k \in Message, k = m, s = k.sub, k.attempt > a, Unsettled(k.sub, k.attempt)'
        PROVE  Unsettled(s, a)'
    <3>1. /\ contents' = contents
          /\ k.attempt \in Nat
      BY <1>1 DEF Message
    <3>2. \A p \in Partitions : \A i \in DOMAIN contents[p] : contents[p][i].attempt \in Nat
      BY TopicTypes
    <3> QED  BY <1>6, <2>1, <3>1, <3>2 DEF Unsettled
  <2>2. ASSUME NEW k \in Message, k = m, s = k.sub, k.attempt > a, s \notin answered
        PROVE  Unsettled(k.sub, k.attempt)'
    <3>1. k.attempt \in Nat /\ ~(k.attempt > k.attempt)
      BY DEF Message
    <3>2. Unsettled(k.sub, k.attempt)
      BY <1>5, <2>2
    <3> HIDE DEF m
    <3> QED  BY <1>4, <2>2, <3>1, <3>2
  <2> HIDE DEF m
  <2> QED  BY <1>3, <1>4, <1>6, <2>1, <2>2
<1>7. MessagesNotLost'
  <2>1. Messages' = Messages
    BY <1>1 DEF Messages
  <2> QED  BY <1>1, <1>6, <2>1 DEF NotLost, MessagesNotLost
<1>8. DoneJobsNotLost'
  <2> SUFFICES ASSUME NEW u \in Workers, NEW i \in jobs'[u], NEW k, k = MessageOf(i)'
               PROVE  /\ i.stage = "graded" => k.sub \in answered
                      /\ i.stage = "handled" => k.sub \in answered \/ Unsettled(k.sub, k.attempt)'
    BY <1>1 DEF DoneJobsNotLost
  <2>1. i \in jobs[u] /\ k = MessageOf(i) /\ k \in Message
    BY <1>1, MessagesStay, JobMessage
  <2>2. k.attempt \in Nat
    BY <2>1 DEF Message
  <2> QED  BY <1>6, <2>1, <2>2 DEF NotLost, DoneJobsNotLost
<1> QED  BY <1>7, <1>8 DEF NotLost

LEMMA NotLostStep ==
    ASSUME Constants, TypeOK, TP!InLog, [Next]_vars, NotLost PROVE NotLost'
<1> DEFINE Done(j) == j.stage \in {"graded", "handled"}
           Quiet == /\ UNCHANGED <<contents, settled, answered>>
                    /\ \A u \in Workers : \A i \in jobs'[u] : Done(i) => i \in jobs[u]
<1>1. Quiet => NotLost'
  BY QuietStep
<1>2. \A w \in Workers : \A j \in jobs[w] : j \in Job
  BY DEF TypeOK
<1>3. ASSUME NEW w \in Workers, NEW more, \A j \in more : ~Done(j), NEW left \in SUBSET jobs[w],
             jobs' = [jobs EXCEPT ![w] = left \cup more], UNCHANGED <<contents, settled, answered>>
      PROVE  NotLost'
  <2>1. \A u \in Workers : \A i \in jobs'[u] : i \in jobs[u] \/ i \in more
    BY <1>3 DEF TypeOK
  <2> QED  BY <1>1, <1>3, <2>1
<1>4. ASSUME NEW w \in Workers, NEW j \in jobs[w], NEW next, Goes(w, j, next), ~Done(next),
             UNCHANGED <<contents, answered>>
      PROVE  NotLost'
  <2>1. jobs' = [jobs EXCEPT ![w] = (jobs[w] \ {j}) \cup {next}] /\ UNCHANGED settled
    BY <1>4 DEF Goes, trackerVars
  <2>2. (jobs[w] \ {j}) \in SUBSET jobs[w] /\ \A i \in {next} : ~Done(i)
    BY <1>4
  <2> HIDE DEF Done
  <2> QED  BY <1>3, <1>4, <2>1, <2>2
<1>5. ASSUME NEW w \in Workers, NEW j \in jobs[w], Raises(w, j), UNCHANGED <<contents, answered>>
      PROVE  NotLost'
  <2> DEFINE more == IF j.stage \in ExceptStages THEN {} ELSE {[j EXCEPT !.stage = "failed"]}
  <2>1. \A i \in more : ~Done(i)
    BY <1>2 DEF Job
  <2>2. jobs' = [jobs EXCEPT ![w] = (jobs[w] \ {j}) \cup more] /\ UNCHANGED settled
    BY <1>5 DEF Raises, Tracker!Raise, Tracker!trackerVars
  <2>3. (jobs[w] \ {j}) \in SUBSET jobs[w]
    OBVIOUS
  <2> HIDE DEF more, Done
  <2> QED  BY <1>3, <1>5, <2>1, <2>2, <2>3
<1>6. ASSUME NEW w \in Workers, Sandbox(w) PROVE NotLost'
  <2>1. PICK j \in jobs[w] : Acquire(w, j) \/ Grade(w, j)
    BY <1>6 DEF Sandbox
  <2>2. j \in Job
    BY <1>2
  <2>3. CASE Acquire(w, j)
    <3>1. ~Done([j EXCEPT !.stage = "grading"])
      BY <2>2 DEF Job
    <3> QED  BY <1>4, <2>3, <3>1 DEF Acquire
  <2>4. CASE Grade(w, j)
    <3>1. \A v : ~Done([j EXCEPT !.stage = "callback", !.verdict = v])
      BY <2>2 DEF Job
    <3> HIDE DEF Done
    <3> QED  BY <1>4, <2>4, <3>1 DEF Grade
  <2> QED  BY <2>1, <2>3, <2>4
<1>7. ASSUME NEW w \in Workers, Republishes(w) PROVE NotLost'
  <2>1. ASSUME NEW j \in jobs[w], PublishDeadLetter(w, j) PROVE NotLost'
    <3>1. j \in Job
      BY <1>2
    <3>2. ~Done([j EXCEPT !.stage = "errorCallback", !.verdict = "SYSTEM_ERROR"])
      BY <3>1 DEF Job
    <3> HIDE DEF Done
    <3> QED  BY <1>4, <2>1, <3>2 DEF PublishDeadLetter
  <2> QED  BY <1>7, <2>1, PublishRetryNotLost DEF Republishes
<1>8. ASSUME NEW w \in Workers, NEW j \in jobs[w], CallbackReturns(w, j) PROVE NotLost'
  <2> DEFINE next == [j EXCEPT !.stage = IF j.stage = "callback" THEN "graded" ELSE "handled"]
  <2>1. /\ jobs' = [jobs EXCEPT ![w] = (@ \ {j}) \cup {next}]
        /\ UNCHANGED <<contents, settled>> /\ answered' = answered \cup {MessageOf(j).sub}
    BY <1>8 DEF CallbackReturns, Goes, trackerVars
  <2>2. MessageOf(next) = MessageOf(j)
    <3>1. j \in Job
      BY <1>2
    <3>2. next.part = j.part /\ next.offset = j.offset
      BY <3>1 DEF Job
    <3> HIDE DEF next
    <3> QED  BY <3>2 DEF MessageOf, MessageAt
  <2> HIDE DEF next
  <2>3. \A u \in Workers : \A i \in jobs'[u] : i \in jobs[u] \/ MessageOf(i).sub \in answered'
    BY <2>1, <2>2 DEF TypeOK
  <2> QED  BY <2>1, <2>3, QuietStep
<1>9. ASSUME NEW w \in Workers, Polls(w) PROVE NotLost'
  <2>1. PICK upto \in [Mine(w) -> 0..MaxOffset] : PollMessages(w, upto)
    BY <1>9 DEF Polls
  <2>2. /\ jobs' = [jobs EXCEPT ![w] = jobs[w] \cup NewJobs(upto)]
        /\ UNCHANGED <<contents, settled, answered>>
    BY <2>1 DEF PollMessages, Tracker!Poll
  <2>3. \A j \in NewJobs(upto) : ~Done(j)
    BY DEF NewJobs
  <2> HIDE DEF Done
  <2> QED  BY <1>3, <2>2, <2>3
<1>10. ASSUME NEW w \in Workers, Crash(w) PROVE NotLost'
  <2>1. jobs' = [jobs EXCEPT ![w] = {}] /\ UNCHANGED <<contents, settled, answered>>
    BY <1>10 DEF Crash, Tracker!Crash
  <2>2. Quiet
    BY <2>1 DEF TypeOK
  <2> QED  BY <1>1, <2>2
<1>11. ASSUME NEW w \in Workers, NEW k \in committing[w], CommitFails(w, k) PROVE NotLost'
  <2> DEFINE again == [part |-> k.task.part, offset |-> k.task.offset,
                       generation |-> k.task.generation, stage |-> "failed", verdict |-> "none"]
             more == IF k.task.failing THEN {} ELSE {again}
  <2>1. jobs' = [jobs EXCEPT ![w] = jobs[w] \cup more] /\ UNCHANGED <<contents, answered>>
    BY <1>11 DEF CommitFails
  <2>2. UNCHANGED settled
    BY <1>11 DEF CommitFails, Tracker!CommitFails
  <2>3. \A i \in more : ~Done(i)
    OBVIOUS
  <2> HIDE DEF more, Done
  <2> QED  BY <1>3, <2>1, <2>2, <2>3
<1>12. ASSUME \/ UNCHANGED vars \/ Rebalances
              \/ \E w \in Workers : PollNothing(w)
              \/ \E w \in Workers : \E k \in committing[w] : BrokerCommit(w, k) \/ FinishCommit(w, k)
       PROVE  NotLost'
  <2>1. UNCHANGED <<contents, jobs, settled, answered>>
    <3>1. CASE UNCHANGED vars \/ \E w \in Workers : PollNothing(w)
      BY <3>1 DEF vars, brokerVars, trackerVars, workerVars, PollNothing
    <3>2. CASE Rebalances
      BY <3>2 DEF Rebalances, Rebalance, Tracker!Rebalance
    <3>3. ASSUME NEW w \in Workers, NEW k \in committing[w], BrokerCommit(w, k)
          PROVE  UNCHANGED <<contents, jobs, settled, answered>>
      BY <3>3 DEF BrokerCommit, workerVars, Tracker!BrokerCommit
    <3>4. ASSUME NEW w \in Workers, NEW k \in committing[w], FinishCommit(w, k)
          PROVE  UNCHANGED <<contents, jobs, settled, answered>>
      BY <3>4 DEF FinishCommit, workerVars, Tracker!FinishCommit
    <3> QED  BY <1>12, <3>1, <3>2, <3>3, <3>4
  <2> QED  BY <1>1, <2>1
<1>13. ASSUME NEW w \in Workers, NEW j \in jobs[w],
              \/ GradeRaises(w, j) \/ PublishRaises(w, j) \/ MarkRaises(w, j)
              \/ CallbackRaises(w, j) \/ CallbackRefused(w, j)
       PROVE  NotLost'
  <2>1. Raises(w, j) /\ UNCHANGED <<contents, answered>>
    BY <1>13 DEF GradeRaises, PublishRaises, MarkRaises, CallbackRaises, CallbackRefused
  <2> QED  BY <1>5, <2>1
<1> HIDE DEF Quiet, Done
<1>14. ASSUME NEW w \in Workers, Works(w) PROVE NotLost'
  BY <1>6, <1>7, <1>9, <1>12, <1>14, MarkCompletedNotLost DEF Works, Marks, Commits
<1>15. ASSUME NEW w \in Workers, Fails(w) PROVE NotLost'
  BY <1>10, <1>11, <1>13, <1>15 DEF Fails
<1>16. ASSUME NEW w \in Workers, Calls(w) \/ CallsFail(w) PROVE NotLost'
  BY <1>8, <1>13, <1>16 DEF Calls, CallsFail
<1> QED  BY <1>12, <1>14, <1>15, <1>16, EnqueueNotLost DEF Next

\* In a group that has committed before, a message the group's commits do not
\* cover is left of every submission that is not answered.
LEMMA UncommittedIsLeft ==
    ASSUME Constants, TypeOK, TP!InLog, NotLost, TP!CommittedIsSettled PROVE NoSubmissionLost
<1> SUFFICES ASSUME NEW m \in Messages, NEW p \in Partitions, NEW i \in DOMAIN contents[p],
                    contents[p][i].sub = m.sub, FirstOffset(p) + i - 1 \notin settled[p]
             PROVE  FirstOffset(p) + i - 1 >= committed[p]
  BY DEF NoSubmissionLost, NotLost, MessagesNotLost, Unsettled
<1>1. FirstOffset(p) \in Nat /\ i \in Nat /\ i >= 1
  BY TopicTypes
<1>2. committed[p] \in Int
  BY DEF TypeOK, Tracker!TypeOK, Tracker!NoOffset
<1>3. 0..(committed[p] - 1) \subseteq settled[p]
  BY DEF TP!CommittedIsSettled
<1> QED  BY <1>1, <1>2, <1>3

LEMMA SameSpec == Tracker!Spec => TP!Spec
BY SameInit, SameNext, PTL DEF Tracker!Spec, TP!Spec

\* A published submission is answered, or a message of it is still to be
\* delivered: whatever raises, is refused, crashes or is handed to another worker.
THEOREM NoneLost == Constants /\ TP!KnownStart => (Spec => []NoSubmissionLost)
<1> SUFFICES ASSUME Constants, TP!KnownStart PROVE Spec => []NoSubmissionLost
  OBVIOUS
<1>1. Init => NotLost
  BY DEF Init, NotLost, MessagesNotLost, DoneJobsNotLost, Messages
<1>2. TypeOK /\ TP!InLog /\ NotLost /\ [Next]_vars => NotLost'
  BY NotLostStep
<1>3. TypeOK /\ TP!InLog /\ NotLost /\ TP!CommittedIsSettled => NoSubmissionLost
  BY UncommittedIsLeft
<1>4. Spec => []TP!CommittedIsSettled
  <2>1. TP!Spec => []TP!CommittedIsSettled
    BY SameAssumption, TP!CommittedSettled DEF Constants
  <2>2. Spec => Tracker!Spec
    BY ExecutorImplementsTracker DEF ImplementsTracker
  <2> QED  BY <2>1, <2>2, SameSpec, PTL
<1>5. Spec => [](TypeOK /\ TP!InLog)
  BY TypeCorrect
<1> QED  BY <1>1, <1>2, <1>3, <1>4, <1>5, PTL DEF Spec

-----------------------------------------------------------------------------
(* Back-pressure, in a group with one worker whose partitions are only handed *)
(* out when it has none: a rebalance resumes partitions, and the flag of a    *)
(* worker that is paused does not notice.                                     *)

OneWorkerStays ==
    /\ TP!OneWorker
    /\ MaxGeneration <= 1
    /\ IsFiniteSet(Partitions)

\* A worker that is paused has paused all its partitions.
PausedIsPaused == \A w \in Workers : isPaused[w] => Mine(w) \subseteq paused

\* A worker without a partition has nothing to do, and this is where every
\* rebalance starts.
IdleWithoutPartitions ==
    /\ (\E p \in Partitions : owner[p] = NoWorker) =>
          /\ \A p \in Partitions : owner[p] = NoWorker
          /\ \A w \in Workers : jobs[w] = {} /\ committing[w] = {} /\ ~isPaused[w]
    /\ generation = 0 => \A p \in Partitions : owner[p] = NoWorker

\* The jobs can be counted, and one commit holds the lock.
Countable ==
    \A w \in Workers :
        /\ IsFiniteSet(jobs[w])
        /\ committing[w] = {} \/ \E k : committing[w] = {k}

BackPressure == PausedIsPaused /\ IdleWithoutPartitions /\ Countable /\ ActiveBound

\* Adding a job, taking one away, and putting one in its place.
LEMMA AddOne ==
    ASSUME NEW S, IsFiniteSet(S), NEW y
    PROVE  IsFiniteSet(S \cup {y}) /\ Cardinality(S \cup {y}) <= Cardinality(S) + 1
<1>1. Cardinality(S) \in Nat
  BY FS_CardinalityType
<1> QED  BY <1>1, FS_AddElement

LEMMA TakeOne ==
    ASSUME NEW S, IsFiniteSet(S), NEW x \in S
    PROVE  /\ Cardinality(S) \in Nat
           /\ IsFiniteSet(S \ {x}) /\ Cardinality(S \ {x}) = Cardinality(S) - 1
BY FS_RemoveElement, FS_CardinalityType

LEMMA ReplaceOne ==
    ASSUME NEW S, IsFiniteSet(S), NEW x \in S, NEW y
    PROVE  IsFiniteSet((S \ {x}) \cup {y}) /\ Cardinality((S \ {x}) \cup {y}) <= Cardinality(S)
<1> DEFINE R == S \ {x}
<1>1. Cardinality(S) \in Nat /\ IsFiniteSet(R) /\ Cardinality(R) = Cardinality(S) - 1
  BY TakeOne
<1> HIDE DEF R
<1>2. IsFiniteSet(R \cup {y}) /\ Cardinality(R \cup {y}) <= Cardinality(R) + 1 /\ Cardinality(R \cup {y}) \in Nat
  BY <1>1, AddOne, FS_CardinalityType
<1>3. IsFiniteSet(R \cup {y}) /\ Cardinality(R \cup {y}) <= Cardinality(S)
  BY <1>1, <1>2
<1> QED  BY <1>3 DEF R

\* A poll starts finitely many jobs: they differ in partition or offset.
LEMMA NewJobsFinite ==
    ASSUME TypeOK, MaxOffset \in Nat, IsFiniteSet(Partitions), NEW w \in Workers,
           NEW upto \in [Mine(w) -> 0..MaxOffset]
    PROVE  IsFiniteSet(NewJobs(upto))
<1> DEFINE f == [j \in NewJobs(upto) |-> <<j.part, j.offset>>]
           T == Partitions \X (0..MaxOffset)
<1>1. \A p \in Mine(w) : p \in Partitions /\ Tracker!FetchFrom(p) \in Nat /\ upto[p] \in 0..MaxOffset
  BY DEF Mine, TypeOK, Tracker!TypeOK, Tracker!FetchFrom, Tracker!NoOffset
<1>2. \A j \in NewJobs(upto) : \E p \in Mine(w), o \in 0..MaxOffset :
         j = [part |-> p, offset |-> o, generation |-> generation, stage |-> "waiting", verdict |-> "none"]
  <2>1. \A p \in Mine(w) : \A o \in Tracker!FetchFrom(p)..(upto[p] - 1) : o \in 0..MaxOffset
    BY <1>1
  <2> QED  BY <2>1 DEF NewJobs
<1>3. \A j \in NewJobs(upto) :
         /\ j.part \in Partitions /\ j.offset \in 0..MaxOffset
         /\ j = [part |-> j.part, offset |-> j.offset, generation |-> generation,
                 stage |-> "waiting", verdict |-> "none"]
  BY <1>1, <1>2
<1>4. IsFiniteSet(T)
  <2>1. IsFiniteSet(0..MaxOffset)
    BY FS_Interval
  <2> QED  BY <2>1, FS_Product
<1>5. f \in Injection(NewJobs(upto), T)
  <2>1. f \in [NewJobs(upto) -> T]
    BY <1>3
  <2>2. ASSUME NEW i \in NewJobs(upto), NEW j \in NewJobs(upto), f[i] = f[j] PROVE i = j
    <3>1. i.part = j.part /\ i.offset = j.offset
      BY <2>2
    <3> QED  BY <1>3, <3>1
  <2> HIDE DEF f, T
  <2> QED  BY <2>1, <2>2 DEF Injection, IsInjective
<1> QED  BY <1>4, <1>5, FS_Injection

LEMMA CountsAreNat ==
    ASSUME Countable, NEW w \in Workers
    PROVE  /\ Cardinality(jobs[w]) \in Nat /\ Cardinality(committing[w]) \in {0, 1}
           /\ Active(w) \in Nat
<1>1. Cardinality(jobs[w]) \in Nat
  BY FS_CardinalityType DEF Countable
<1>2. Cardinality(committing[w]) \in {0, 1}
  BY FS_EmptySet, FS_Singleton DEF Countable
<1> QED  BY <1>1, <1>2 DEF Active

\* Only a poll that found room starts jobs.
LEMMA PollHasRoom ==
    ASSUME Constants, OneWorkerStays, TypeOK, BackPressure, NEW w \in Workers,
           NEW upto \in [Mine(w) -> 0..MaxOffset], PollMessages(w, upto)
    PROVE  Active(w) < MaxConcurrent
<1> SUFFICES ASSUME Active(w) >= MaxConcurrent PROVE FALSE
  <2> QED  BY CountsAreNat DEF Constants, ExecutorAssumption, BackPressure
<1>1. PICK p \in Mine(w) : Tracker!FetchFrom(p) < upto[p]
  BY DEF PollMessages, Tracker!Poll, Mine
<1>2. p \in paused'
  BY <1>1 DEF PollMessages, PauseOrResume, BackPressure, PausedIsPaused
<1>3. upto[p] = Tracker!FetchFrom(p)
  BY <1>1, <1>2 DEF PollMessages
<1>4. Tracker!FetchFrom(p) \in Nat
  BY <1>1 DEF Mine, TypeOK, Tracker!TypeOK, Tracker!FetchFrom, Tracker!NoOffset
<1> QED  BY <1>1, <1>3, <1>4

\* A step of a worker that has something to do keeps the limit when it leaves no
\* more to do than it found.
LEMMA WorkKeepsPressure ==
    ASSUME Constants, TypeOK, BackPressure, NEW w \in Workers, Workers = {w},
           UNCHANGED <<owner, generation, isPaused, paused>>,
           jobs[w] # {} \/ committing[w] # {},
           IsFiniteSet(jobs'[w]), committing'[w] = {} \/ \E k : committing'[w] = {k},
           Cardinality(jobs'[w]) + Cardinality(committing'[w]) <= Cardinality(jobs[w]) + Cardinality(committing[w])
    PROVE  BackPressure'
<1>1. \A p \in Partitions : owner[p] # NoWorker
  BY DEF BackPressure, IdleWithoutPartitions
<1>2. PausedIsPaused' /\ IdleWithoutPartitions'
  BY <1>1 DEF BackPressure, PausedIsPaused, IdleWithoutPartitions, Mine
<1>3. Countable'
  BY DEF Countable
<1>4. ActiveBound'
  <2>1. Cardinality(jobs'[w]) \in Nat /\ Cardinality(committing'[w]) \in {0, 1}
    BY FS_CardinalityType, FS_EmptySet, FS_Singleton
  <2>2. /\ Cardinality(jobs[w]) \in Nat /\ Cardinality(committing[w]) \in {0, 1}
        /\ Cardinality(jobs[w]) + Cardinality(committing[w]) <= 2 * MaxConcurrent - 1
        /\ MaxConcurrent \in Nat
    BY CountsAreNat DEF BackPressure, ActiveBound, Active, Constants, ExecutorAssumption
  <2>3. Cardinality(jobs'[w]) + Cardinality(committing'[w]) <= 2 * MaxConcurrent - 1
    BY <2>1, <2>2
  <2> QED  BY <2>3 DEF ActiveBound, Active
<1> QED  BY <1>2, <1>3, <1>4 DEF BackPressure

\* A job that goes on or ends.
LEMMA JobsKeepPressure ==
    ASSUME Constants, TypeOK, BackPressure, NEW w \in Workers, Workers = {w}, NEW j \in jobs[w],
           UNCHANGED <<owner, generation, isPaused, paused, committing>>,
           \/ jobs' = [jobs EXCEPT ![w] = @ \ {j}]
           \/ \E i : jobs' = [jobs EXCEPT ![w] = (@ \ {j}) \cup {i}]
    PROVE  BackPressure'
<1>1. \/ jobs'[w] = jobs[w] \ {j}
      \/ \E i : jobs'[w] = (jobs[w] \ {j}) \cup {i}
  BY DEF TypeOK
<1>2. IsFiniteSet(jobs[w]) /\ (committing[w] = {} \/ \E k : committing[w] = {k})
  BY DEF BackPressure, Countable
<1>3. IsFiniteSet(jobs'[w]) /\ Cardinality(jobs'[w]) <= Cardinality(jobs[w])
  <2>1. IsFiniteSet(jobs[w] \ {j}) /\ Cardinality(jobs[w] \ {j}) <= Cardinality(jobs[w])
    BY <1>2, TakeOne
  <2>2. \A i : /\ IsFiniteSet((jobs[w] \ {j}) \cup {i})
               /\ Cardinality((jobs[w] \ {j}) \cup {i}) <= Cardinality(jobs[w])
    BY <1>2, ReplaceOne
  <2> QED  BY <1>1, <2>1, <2>2
<1>4. /\ Cardinality(jobs[w]) \in Nat /\ Cardinality(jobs'[w]) \in Nat
      /\ Cardinality(committing[w]) \in {0, 1} /\ committing'[w] = committing[w]
  BY <1>3, CountsAreNat, FS_CardinalityType DEF BackPressure
<1>5. Cardinality(jobs'[w]) + Cardinality(committing'[w]) <= Cardinality(jobs[w]) + Cardinality(committing[w])
  BY <1>3, <1>4
<1> QED  BY <1>2, <1>3, <1>4, <1>5, WorkKeepsPressure

\* mark_completed: the job is gone, and at most one commit takes its place.
LEMMA MarkKeepsPressure ==
    ASSUME Constants, TypeOK, BackPressure, NEW w \in Workers, Workers = {w}, NEW j \in jobs[w],
           MarkCompleted(w, j)
    PROVE  BackPressure'
<1>1. /\ UNCHANGED <<owner, generation, isPaused, paused>>
      /\ jobs'[w] = jobs[w] \ {j}
      /\ committing[w] = {}
  BY DEF MarkCompleted, Tracker!MarkCompleted, Tracker!brokerVars, TypeOK
<1>2. committing'[w] = {} \/ \E k : committing'[w] = {k}
  <2>1. committing \in [Workers -> SUBSET Tracker!Commit]
    BY DEF TypeOK, Tracker!TypeOK
  <2>2. CASE UNCHANGED committing
    BY <1>1, <2>2
  <2>3. CASE \E ks : (ks = {} \/ \E k : ks = {k}) /\ committing' = [committing EXCEPT ![w] = ks]
    BY <2>1, <2>3
  <2>4. \/ UNCHANGED committing
        \/ \E c, next : committing' = [committing EXCEPT ![w] =
              IF c = next THEN {}
              ELSE {[task |-> TaskOf(j), from |-> next, to |-> c, applied |-> FALSE]}]
    BY DEF MarkCompleted, Tracker!MarkCompleted
  <2>5. ASSUME NEW c, NEW next, NEW ks,
               ks = IF c = next THEN {}
                    ELSE {[task |-> TaskOf(j), from |-> next, to |-> c, applied |-> FALSE]}
        PROVE  ks = {} \/ \E k : ks = {k}
    BY <2>5
  <2> QED  BY <2>2, <2>3, <2>4, <2>5
<1>3. IsFiniteSet(jobs[w])
  BY DEF BackPressure, Countable
<1>4. IsFiniteSet(jobs'[w]) /\ Cardinality(jobs'[w]) = Cardinality(jobs[w]) - 1 /\ Cardinality(jobs[w]) \in Nat
  BY <1>1, <1>3, TakeOne
<1>5. Cardinality(committing[w]) = 0 /\ Cardinality(committing'[w]) \in {0, 1}
  BY <1>1, <1>2, FS_EmptySet, FS_Singleton
<1>6. Cardinality(jobs'[w]) + Cardinality(committing'[w]) <= Cardinality(jobs[w]) + Cardinality(committing[w])
  BY <1>4, <1>5
<1> QED  BY <1>1, <1>2, <1>4, <1>6, WorkKeepsPressure

\* The commit goes on, ends, or is a job again.
LEMMA CommitKeepsPressure ==
    ASSUME Constants, TypeOK, BackPressure, NEW w \in Workers, Workers = {w}, NEW k \in committing[w],
           BrokerCommit(w, k) \/ FinishCommit(w, k) \/ CommitFails(w, k)
    PROVE  BackPressure'
<1>1. /\ committing \in [Workers -> SUBSET Tracker!Commit] /\ jobs \in [Workers -> SUBSET Job]
      /\ committing[w] = {k} /\ Cardinality(committing[w]) = 1
      /\ IsFiniteSet(jobs[w]) /\ Cardinality(jobs[w]) \in Nat
  BY FS_Singleton, CountsAreNat DEF TypeOK, Tracker!TypeOK, BackPressure, Countable
<1>2. UNCHANGED <<owner, generation, isPaused, paused>>
  <2>1. CASE BrokerCommit(w, k)
    BY <2>1 DEF BrokerCommit, workerVars, Tracker!BrokerCommit
  <2>2. CASE FinishCommit(w, k)
    BY <2>2 DEF FinishCommit, workerVars, Tracker!FinishCommit, Tracker!brokerVars
  <2>3. CASE CommitFails(w, k)
    BY <2>3 DEF CommitFails, Tracker!CommitFails, Tracker!brokerVars
  <2> QED  BY <2>1, <2>2, <2>3
<1>3. CASE BrokerCommit(w, k) \/ FinishCommit(w, k)
  <2>1. UNCHANGED jobs /\ (committing'[w] = {} \/ \E i : committing'[w] = {i})
    BY <1>1, <1>3 DEF BrokerCommit, FinishCommit, workerVars, Tracker!BrokerCommit, Tracker!FinishCommit
  <2>2. Cardinality(committing'[w]) \in {0, 1}
    BY <2>1, FS_EmptySet, FS_Singleton
  <2>3. Cardinality(jobs'[w]) + Cardinality(committing'[w]) <= Cardinality(jobs[w]) + Cardinality(committing[w])
    BY <1>1, <2>1, <2>2
  <2> QED  BY <1>1, <1>2, <2>1, <2>3, WorkKeepsPressure
<1>4. CASE CommitFails(w, k)
  <2>1. committing'[w] = {} /\ Cardinality(committing'[w]) = 0
    BY <1>1, <1>4, FS_EmptySet DEF CommitFails, Tracker!CommitFails
  <2>2. jobs'[w] = jobs[w] \/ \E i : jobs'[w] = jobs[w] \cup {i}
    <3>1. CASE k.task.failing
      BY <1>1, <1>4, <3>1 DEF CommitFails
    <3>2. CASE ~k.task.failing
      BY <1>1, <1>4, <3>2 DEF CommitFails
    <3> QED  BY <3>1, <3>2
  <2>3. IsFiniteSet(jobs'[w]) /\ Cardinality(jobs'[w]) <= Cardinality(jobs[w]) + 1 /\ Cardinality(jobs'[w]) \in Nat
    <3>1. \A i : /\ IsFiniteSet(jobs[w] \cup {i})
                 /\ Cardinality(jobs[w] \cup {i}) <= Cardinality(jobs[w]) + 1
      BY <1>1, AddOne
    <3>2. IsFiniteSet(jobs[w]) /\ Cardinality(jobs[w]) <= Cardinality(jobs[w]) + 1
      BY <1>1
    <3>3. IsFiniteSet(jobs'[w]) /\ Cardinality(jobs'[w]) <= Cardinality(jobs[w]) + 1
      BY <2>2, <3>1, <3>2, Zenon
    <3> QED  BY <3>3, FS_CardinalityType
  <2>4. Cardinality(jobs'[w]) + Cardinality(committing'[w]) <= Cardinality(jobs[w]) + Cardinality(committing[w])
    BY <1>1, <2>1, <2>3
  <2> QED  BY <1>1, <1>2, <2>1, <2>3, <2>4, WorkKeepsPressure
<1> QED  BY <1>3, <1>4

\* An iteration of the main loop.
LEMMA LoopKeepsPressure ==
    ASSUME Constants, OneWorkerStays, TypeOK, BackPressure, NEW w \in Workers, Workers = {w},
           Polls(w) \/ PollNothing(w)
    PROVE  BackPressure'
<1>1. PauseOrResume(w) /\ UNCHANGED <<owner, generation, committing>>
  BY DEF Polls, PollMessages, PollNothing, Tracker!Poll, Tracker!trackerVars, brokerVars, trackerVars
<1>2. Mine(w)' = Mine(w)
  BY <1>1 DEF Mine
<1>3. PausedIsPaused'
  BY <1>1, <1>2 DEF PauseOrResume, BackPressure, PausedIsPaused, TypeOK
<1>4. CASE PollNothing(w)
  <2>1. UNCHANGED jobs
    BY <1>4 DEF PollNothing
  <2>2. ASSUME NEW p \in Partitions, owner[p] = NoWorker PROVE ~isPaused'[w]
    <3>1. Mine(w) = {} /\ ~isPaused[w]
      BY <2>2 DEF BackPressure, IdleWithoutPartitions, Mine, Constants, Tracker!TrackerAssumption
    <3> QED  BY <1>1, <3>1 DEF PauseOrResume
  <2>3. IdleWithoutPartitions'
    BY <1>1, <2>1, <2>2 DEF BackPressure, IdleWithoutPartitions
  <2>4. Countable' /\ ActiveBound'
    BY <1>1, <2>1 DEF BackPressure, Countable, ActiveBound, Active
  <2> QED  BY <1>3, <2>3, <2>4 DEF BackPressure
<1>5. CASE Polls(w)
  <2> PICK upto \in [Mine(w) -> 0..MaxOffset] : PollMessages(w, upto)
    BY <1>5 DEF Polls
  <2> DEFINE new == NewJobs(upto)
  <2>1. jobs'[w] = jobs[w] \cup new /\ Cardinality(new) <= MaxConcurrent
    BY DEF PollMessages, TypeOK
  <2>2. Mine(w) # {}
    BY DEF PollMessages, Tracker!Poll, Mine
  <2>3. \A p \in Partitions : owner[p] # NoWorker
    BY <2>2 DEF Mine, BackPressure, IdleWithoutPartitions, Constants, Tracker!TrackerAssumption
  <2>4. IdleWithoutPartitions'
    BY <1>1, <2>2, <2>3 DEF BackPressure, IdleWithoutPartitions, Mine
  <2>5. IsFiniteSet(new) /\ Cardinality(new) \in Nat
    BY NewJobsFinite, FS_CardinalityType DEF OneWorkerStays, Constants, Tracker!TrackerAssumption
  <2> HIDE DEF new
  <2>6. /\ IsFiniteSet(jobs[w]) /\ Cardinality(jobs[w]) \in Nat
        /\ Cardinality(committing[w]) \in {0, 1}
    BY CountsAreNat DEF BackPressure, Countable
  <2>7. /\ IsFiniteSet(jobs[w] \cup new)
        /\ Cardinality(jobs[w] \cup new) <= Cardinality(jobs[w]) + Cardinality(new)
        /\ Cardinality(jobs[w] \cup new) \in Nat
    <3>1. IsFiniteSet(jobs[w] \cap new) /\ Cardinality(jobs[w] \cap new) \in Nat
      BY <2>6, FS_Subset, FS_CardinalityType
    <3>2. /\ IsFiniteSet(jobs[w] \cup new)
          /\ Cardinality(jobs[w] \cup new) =
                Cardinality(jobs[w]) + Cardinality(new) - Cardinality(jobs[w] \cap new)
      BY <2>5, <2>6, FS_Union
    <3>3. Cardinality(jobs[w] \cup new) \in Nat
      BY <3>2, FS_CardinalityType
    <3> QED  BY <2>5, <2>6, <3>1, <3>2, <3>3
  <2>8. Countable'
    BY <1>1, <2>1, <2>7 DEF BackPressure, Countable
  <2>9. Cardinality(jobs[w]) + Cardinality(committing[w]) < MaxConcurrent
    BY PollHasRoom DEF Active
  <2>10. Cardinality(jobs'[w]) + Cardinality(committing'[w]) <= 2 * MaxConcurrent - 1
    <3>1. MaxConcurrent \in Nat
      BY DEF Constants, ExecutorAssumption
    <3>2. Cardinality(jobs[w] \cup new) + Cardinality(committing[w]) <= 2 * MaxConcurrent - 1
      BY <2>1, <2>5, <2>6, <2>7, <2>9, <3>1
    <3> QED  BY <1>1, <2>1, <3>2
  <2>11. ActiveBound'
    BY <2>10 DEF ActiveBound, Active
  <2> QED  BY <1>3, <2>4, <2>8, <2>11 DEF BackPressure
<1> QED  BY <1>4, <1>5

LEMMA BoundIsNotNegative ==
    ASSUME Constants PROVE 0 <= 2 * MaxConcurrent - 1
<1>1. MaxConcurrent \in Nat /\ MaxConcurrent # 0
  BY DEF Constants, ExecutorAssumption
<1> QED  BY <1>1

LEMMA BackPressureStep ==
    ASSUME Constants, OneWorkerStays, TypeOK, BackPressure, [Next]_vars PROVE BackPressure'
<1> PICK w \in Workers : Workers = {w}
  BY DEF OneWorkerStays, TP!OneWorker
<1>1. CASE UNCHANGED <<workerVars, owner, generation, committing>>
  BY <1>1 DEF BackPressure, PausedIsPaused, IdleWithoutPartitions, Countable, ActiveBound, Active,
     Mine, workerVars
<1>2. ASSUME NEW j \in jobs[w], NEW next, Goes(w, j, next) PROVE BackPressure'
  BY <1>2, JobsKeepPressure DEF Goes, trackerVars
<1>3. ASSUME NEW j \in jobs[w], Raises(w, j) PROVE BackPressure'
  <2>1. UNCHANGED <<owner, generation, isPaused, paused, committing>>
    BY <1>3 DEF Raises, Tracker!Raise, Tracker!brokerVars, Tracker!trackerVars
  <2>2. \/ jobs' = [jobs EXCEPT ![w] = @ \ {j}]
        \/ \E i : jobs' = [jobs EXCEPT ![w] = (@ \ {j}) \cup {i}]
    <3>1. CASE j.stage \in ExceptStages
      <4>1. jobs' = [jobs EXCEPT ![w] = (@ \ {j}) \cup {}]
        BY <1>3, <3>1 DEF Raises
      <4>2. (jobs[w] \ {j}) \cup {} = jobs[w] \ {j}
        OBVIOUS
      <4> QED  BY <4>1, <4>2
    <3>2. CASE j.stage \notin ExceptStages
      BY <1>3, <3>2 DEF Raises
    <3> QED  BY <3>1, <3>2
  <2> QED  BY <2>1, <2>2, JobsKeepPressure
<1>4. ASSUME Rebalances PROVE BackPressure'
  <2>1. PICK assignment \in [Partitions -> Workers] : Rebalance(assignment)
    BY <1>4 DEF Rebalances
  <2>2. /\ generation < MaxGeneration \/ \E p \in Partitions : owner[p] = NoWorker
        /\ owner' = assignment /\ generation' = generation + 1
        /\ UNCHANGED <<jobs, isPaused, committing>>
    BY <2>1 DEF Rebalance, Tracker!Rebalance, Tracker!trackerVars
  <2>3. generation \in Nat /\ MaxGeneration \in Nat
    BY DEF TypeOK, Tracker!TypeOK, Constants, Tracker!TrackerAssumption
  <2>4. \A p \in Partitions : owner[p] = NoWorker
    <3>1. generation = 0 \/ \E p \in Partitions : owner[p] = NoWorker
      BY <2>2, <2>3 DEF OneWorkerStays
    <3> QED  BY <3>1 DEF BackPressure, IdleWithoutPartitions
  <2>5. PausedIsPaused'
    <3>1. CASE Partitions = {}
      BY <3>1 DEF PausedIsPaused, Mine
    <3>2. CASE Partitions # {}
      BY <2>2, <2>4, <3>2 DEF BackPressure, IdleWithoutPartitions, PausedIsPaused
    <3> QED  BY <3>1, <3>2
  <2>6. IdleWithoutPartitions'
    BY <2>2, <2>3 DEF IdleWithoutPartitions, Constants, Tracker!TrackerAssumption
  <2>7. Countable' /\ ActiveBound'
    BY <2>2 DEF BackPressure, Countable, ActiveBound, Active
  <2> QED  BY <2>5, <2>6, <2>7 DEF BackPressure
<1>5. ASSUME Crash(w) PROVE BackPressure'
  <2>1. /\ jobs'[w] = {} /\ committing'[w] = {} /\ isPaused'[w] = FALSE /\ UNCHANGED generation
        /\ owner' = [p \in Partitions |-> IF owner[p] = w THEN NoWorker ELSE owner[p]]
    BY <1>5 DEF Crash, Tracker!Crash, TypeOK, Tracker!TypeOK
  <2>2. \A p \in Partitions : owner'[p] = NoWorker
    BY <2>1 DEF TypeOK, Tracker!TypeOK
  <2>3. PausedIsPaused' /\ IdleWithoutPartitions'
    BY <2>1, <2>2 DEF PausedIsPaused, IdleWithoutPartitions
  <2>4. IsFiniteSet(jobs'[w]) /\ Cardinality(jobs'[w]) = 0 /\ Cardinality(committing'[w]) = 0
    BY <2>1, FS_EmptySet
  <2>5. Countable'
    BY <2>1, <2>4 DEF Countable
  <2>6. Active(w)' = 0
    BY <2>4 DEF Active
  <2>7. ActiveBound'
    BY <2>6, BoundIsNotNegative DEF ActiveBound
  <2> QED  BY <2>3, <2>5, <2>7 DEF BackPressure
<1>6. ASSUME Works(w) PROVE BackPressure'
  <2>1. ASSUME Sandbox(w) PROVE BackPressure'
    <3>1. ASSUME NEW j \in jobs[w], Acquire(w, j) PROVE BackPressure'
      BY <1>2, <3>1 DEF Acquire
    <3>2. ASSUME NEW j \in jobs[w], Grade(w, j) PROVE BackPressure'
      BY <1>2, <3>2 DEF Grade
    <3> QED  BY <2>1, <3>1, <3>2 DEF Sandbox
  <2>2. ASSUME Republishes(w) PROVE BackPressure'
    <3>1. ASSUME NEW j \in jobs[w], PublishDeadLetter(w, j) PROVE BackPressure'
      BY <1>2, <3>1 DEF PublishDeadLetter
    <3>2. ASSUME NEW j \in jobs[w], NEW p \in Partitions, PublishRetry(w, j, p) PROVE BackPressure'
      BY <1>2, <3>2 DEF PublishRetry
    <3> QED  BY <2>2, <3>1, <3>2 DEF Republishes
  <2>3. ASSUME Marks(w) PROVE BackPressure'
    BY <2>3, MarkKeepsPressure DEF Marks
  <2>4. ASSUME Commits(w) PROVE BackPressure'
    BY <2>4, CommitKeepsPressure DEF Commits
  <2> QED  BY <1>6, <2>1, <2>2, <2>3, <2>4, LoopKeepsPressure DEF Works
<1>7. ASSUME Fails(w) \/ Calls(w) \/ CallsFail(w) PROVE BackPressure'
  <2>1. ASSUME NEW j \in jobs[w], CallbackReturns(w, j) PROVE BackPressure'
    BY <1>2, <2>1 DEF CallbackReturns
  <2>2. ASSUME NEW j \in jobs[w],
               \/ GradeRaises(w, j) \/ PublishRaises(w, j) \/ MarkRaises(w, j)
               \/ CallbackRaises(w, j) \/ CallbackRefused(w, j)
        PROVE  BackPressure'
    BY <1>3, <2>2 DEF GradeRaises, PublishRaises, MarkRaises, CallbackRaises, CallbackRefused
  <2> QED  BY <1>5, <1>7, <2>1, <2>2, CommitKeepsPressure DEF Fails, Calls, CallsFail
<1>8. ASSUME UNCHANGED vars \/ \E s \in Subs, p \in Partitions : Enqueue(s, p)
      PROVE  UNCHANGED <<workerVars, owner, generation, committing>>
  BY <1>8 DEF vars, Enqueue, brokerVars, trackerVars
<1> QED  BY <1>1, <1>4, <1>6, <1>7, <1>8 DEF Next

\* A worker that is alone in its group, and gets its partitions when it has none,
\* holds less than two polls' worth of messages.
THEOREM ActiveIsBounded == Constants /\ OneWorkerStays => (Spec => []ActiveBound)
<1> SUFFICES ASSUME Constants, OneWorkerStays PROVE Spec => []ActiveBound
  OBVIOUS
<1>1. Init => BackPressure
  <2> SUFFICES ASSUME Init PROVE BackPressure
    OBVIOUS
  <2>1. \A w \in Workers : jobs[w] = {} /\ committing[w] = {} /\ isPaused[w] = FALSE
    BY DEF Init, Tracker!Init
  <2>2. \A p \in Partitions : owner[p] = NoWorker
    BY DEF Init, Tracker!Init
  <2>3. ASSUME NEW w \in Workers PROVE Active(w) = 0
    <3>1. Cardinality(jobs[w]) = 0 /\ Cardinality(committing[w]) = 0
      BY <2>1, FS_EmptySet
    <3> QED  BY <3>1 DEF Active
  <2>4. ActiveBound
    BY <2>3, BoundIsNotNegative DEF ActiveBound
  <2> QED
    BY <2>1, <2>2, <2>4, FS_EmptySet DEF BackPressure, PausedIsPaused, IdleWithoutPartitions, Countable
<1>2. TypeOK /\ BackPressure /\ [Next]_vars => BackPressure'
  BY BackPressureStep
<1>3. BackPressure => ActiveBound
  BY DEF BackPressure
<1>4. Spec => []TypeOK
  BY TypeCorrect, PTL
<1> QED  BY <1>1, <1>2, <1>3, <1>4, PTL DEF Spec

-----------------------------------------------------------------------------

\* The executors of a group with one worker never take a commit back.
THEOREM ExecutorCommitsNeverMoveBack ==
    Constants /\ TP!OneWorker => (Spec => Tracker!CommittedMonotone)
<1> SUFFICES ASSUME Constants, TP!OneWorker PROVE Spec => Tracker!CommittedMonotone
  OBVIOUS
<1>1. TP!Spec => TP!CommittedMonotone
  BY SameAssumption, TP!CommitsNeverMoveBack DEF Constants
<1>2. TP!CommittedMonotone => Tracker!CommittedMonotone
  BY DEF TP!CommittedMonotone, Tracker!CommittedMonotone
<1>3. Spec => Tracker!Spec
  BY ExecutorImplementsTracker DEF ImplementsTracker
<1> QED  BY <1>1, <1>2, <1>3, SameSpec, PTL

-----------------------------------------------------------------------------
(* A delivery attempt is a fault's: the next one is published by a job that  *)
(* has raised, so that a message is not dead-lettered unless as many things  *)
(* went wrong as it has attempts.                                           *)

FaultsPaid ==
    /\ faults <= MaxFaults + MaxRefusals
    /\ \A m \in Messages : m.attempt <= faults + 1
    /\ \A w \in Workers : \A j \in jobs[w] : j.stage \in ExceptStages => MessageOf(j).attempt <= faults

\* The tracker counts the faults.
LEMMA FaultsStep ==
    ASSUME Constants, TypeOK, TP!InLog, [Next]_vars
    PROVE  \/ faults' = faults
           \/ faults' = faults + 1 /\ faults < MaxFaults + MaxRefusals
<1>1. [Tracker!Next]_Tracker!vars
  BY StepImplements
<1> QED
  BY <1>1 DEF Tracker!Next, Tracker!vars, Tracker!Produce, Tracker!Rebalances, Tracker!Rebalance,
     Tracker!Polls, Tracker!Poll, Tracker!Crash, Tracker!Marks, Tracker!MarkCompleted, Tracker!Raise,
     Tracker!BrokerCommit, Tracker!FinishCommit, Tracker!CommitFails

\* A job in its except block was in it, or raised just now.
LEMMA ExceptJobs ==
    ASSUME Constants, TypeOK, TP!InLog, [Next]_vars,
           NEW w \in Workers, NEW j \in jobs'[w], j \notin jobs[w], j.stage \in ExceptStages
    PROVE  \/ \E i \in jobs[w] : /\ j.part = i.part /\ j.offset = i.offset
                                 /\ i.stage \in ExceptStages \/ faults' = faults + 1
           \/ \E k \in committing[w] : /\ j.part = k.task.part /\ j.offset = k.task.offset
                                       /\ faults' = faults + 1
<1>1. jobs \in [Workers -> SUBSET Job]
  BY DEF TypeOK
<1>2. ASSUME NEW u \in Workers, NEW i \in jobs[u], NEW next, Goes(u, i, next)
      PROVE  u = w /\ j = next
  BY <1>1, <1>2 DEF Goes
<1>3. ASSUME NEW u \in Workers, Polls(u) \/ PollNothing(u) PROVE FALSE
  <2>1. \A upto, i : i \in NewJobs(upto) => i.stage = "waiting"
    BY DEF NewJobs
  <2>2. PICK N : /\ jobs' = [jobs EXCEPT ![u] = @ \cup N] \/ UNCHANGED jobs
                 /\ \A i \in N : i.stage = "waiting"
    BY <1>3, <2>1 DEF Polls, PollMessages, PollNothing
  <2> QED  BY <1>1, <2>2 DEF ExceptStages
<1>4. ASSUME NEW u \in Workers, NEW i \in jobs[u], Acquire(u, i) \/ Grade(u, i) PROVE FALSE
  <2>1. \/ j = [i EXCEPT !.stage = "grading"]
        \/ \E v : j = [i EXCEPT !.stage = "callback", !.verdict = v]
    BY <1>2, <1>4 DEF Acquire, Grade
  <2>2. i \in Job
    BY <1>1
  <2> QED  BY <2>1, <2>2 DEF ExceptStages, Job
<1>5. ASSUME NEW u \in Workers, NEW i \in jobs[u],
             \/ CallbackReturns(u, i) \/ PublishDeadLetter(u, i)
             \/ \E p \in Partitions : PublishRetry(u, i, p)
      PROVE  u = w /\ j.part = i.part /\ j.offset = i.offset /\ i.stage \in ExceptStages
  <2>1. i \in Job
    BY <1>1
  <2>2. CASE CallbackReturns(u, i)
    <3>1. u = w /\ j = [i EXCEPT !.stage = IF i.stage = "callback" THEN "graded" ELSE "handled"]
      BY <1>2, <2>2 DEF CallbackReturns
    <3> QED  BY <2>1, <2>2, <3>1 DEF CallbackReturns, InCallback, ExceptStages, Job
  <2>3. CASE PublishDeadLetter(u, i)
    <3>1. u = w /\ j = [i EXCEPT !.stage = "errorCallback", !.verdict = "SYSTEM_ERROR"]
      BY <1>2, <2>3 DEF PublishDeadLetter
    <3> QED  BY <2>1, <2>3, <3>1 DEF PublishDeadLetter, ExceptStages, Job
  <2>4. CASE \E p \in Partitions : PublishRetry(u, i, p)
    <3>1. u = w /\ j = [i EXCEPT !.stage = "handled"] /\ i.stage = "failed"
      BY <1>2, <2>4 DEF PublishRetry
    <3> QED  BY <2>1, <3>1 DEF ExceptStages, Job
  <2> QED  BY <1>5, <2>2, <2>3, <2>4
<1>6. ASSUME NEW u \in Workers, NEW i \in jobs[u], Raises(u, i)
      PROVE  u = w /\ j.part = i.part /\ j.offset = i.offset /\ faults' = faults + 1
  <2>1. u = w /\ j = [i EXCEPT !.stage = "failed"]
    BY <1>1, <1>6 DEF Raises
  <2>2. faults' = faults + 1
    BY <1>6 DEF Raises, Tracker!Raise
  <2> QED  BY <1>1, <2>1, <2>2 DEF Job
<1>7. ASSUME NEW u \in Workers, NEW k \in committing[u], CommitFails(u, k)
      PROVE  u = w /\ j.part = k.task.part /\ j.offset = k.task.offset /\ faults' = faults + 1
  BY <1>1, <1>7 DEF CommitFails, Tracker!CommitFails
<1>8. ASSUME NEW u \in Workers, Marks(u) \/ Commits(u) \/ Crash(u) PROVE FALSE
  BY <1>1, <1>8 DEF Marks, MarkCompleted, Commits, BrokerCommit, FinishCommit, Crash, workerVars
<1>9. jobs' # jobs
  OBVIOUS
<1>10. ~UNCHANGED vars /\ ~Rebalances /\ \A s \in Subs, p \in Partitions : ~Enqueue(s, p)
  BY <1>9 DEF vars, workerVars, Rebalances, Rebalance, Enqueue
<1>11. PICK u \in Workers : Works(u) \/ Fails(u) \/ Calls(u) \/ CallsFail(u)
  BY <1>10 DEF Next
<1>12. CASE Works(u)
  BY <1>3, <1>4, <1>5, <1>8, <1>12 DEF Works, Sandbox, Republishes
<1>13. CASE Fails(u)
  BY <1>6, <1>7, <1>8, <1>13 DEF Fails, GradeRaises, PublishRaises, MarkRaises
<1>14. CASE Calls(u)
  BY <1>5, <1>14 DEF Calls
<1>15. CASE CallsFail(u)
  BY <1>6, <1>15 DEF CallsFail, CallbackRaises, CallbackRefused
<1> QED  BY <1>11, <1>12, <1>13, <1>14, <1>15

LEMMA AttemptsAreNat ==
    ASSUME Constants, TypeOK
    PROVE  faults \in Nat /\ Messages \subseteq Message /\ \A m \in Message : m.attempt \in Nat
<1>1. faults \in Nat
  BY DEF TypeOK, Tracker!TypeOK
<1>2. Messages \subseteq Message
  BY TopicTypes DEF Messages
<1>3. \A m \in Message : m.attempt \in Nat
  BY DEF Message
<1> QED  BY <1>1, <1>2, <1>3

\* A message of the topic was there, or is a first attempt, or the next one of a job
\* that failed.
LEMMA NewMessages ==
    ASSUME Constants, TypeOK, TP!InLog, [Next]_vars, NEW n \in Messages', n \notin Messages
    PROVE  \/ n.attempt = 1
           \/ \E w \in Workers : \E j \in jobs[w] :
                 j.stage = "failed" /\ n.attempt = MessageOf(j).attempt + 1
<1>1. ASSUME NEW p \in Partitions, NEW m, contents' = [contents EXCEPT ![p] = Append(@, m)]
      PROVE  n = m
  <2>1. contents[p] \in Seq(Message) /\ contents'[p] = Append(contents[p], m)
    BY <1>1 DEF TypeOK
  <2>2. \A q \in Partitions : q # p => contents'[q] = contents[q]
    BY <1>1 DEF TypeOK
  <2>3. PICK q \in Partitions : \E i \in DOMAIN contents'[q] : n = contents'[q][i]
    BY DEF Messages
  <2>4. PICK i \in DOMAIN contents'[q] : n = contents'[q][i]
    BY <2>3
  <2>5. ~(\E k \in DOMAIN contents[q] : n = contents[q][k])
    BY DEF Messages
  <2>6. q = p
    BY <2>2, <2>4, <2>5
  <2> QED  BY <2>1, <2>4, <2>5, <2>6
<1>2. contents' # contents
  BY DEF Messages
<1>3. ASSUME NEW s \in Subs, NEW p \in Partitions, Enqueue(s, p) PROVE n.attempt = 1
  <2>1. n = [sub |-> s, attempt |-> 1]
    BY <1>1, <1>3 DEF Enqueue, Append1
  <2> QED  BY <2>1
<1>4. ASSUME NEW w \in Workers, NEW j \in jobs[w], NEW p \in Partitions, PublishRetry(w, j, p)
      PROVE  j.stage = "failed" /\ n.attempt = MessageOf(j).attempt + 1
  <2>1. n = [MessageOf(j) EXCEPT !.attempt = @ + 1] /\ j.stage = "failed"
    BY <1>1, <1>4 DEF PublishRetry, Append1
  <2>2. MessageOf(j) \in Message
    BY JobMessage
  <2> QED  BY <2>1, <2>2 DEF Message
<1>5. ASSUME NEW w \in Workers, Polls(w) \/ PollNothing(w) \/ Sandbox(w) \/ Marks(w) \/ Commits(w)
      PROVE  FALSE
  <2>1. CASE Polls(w) \/ PollNothing(w)
    BY <1>2, <2>1 DEF Polls, PollMessages, PollNothing, brokerVars
  <2>2. CASE Sandbox(w) \/ Marks(w) \/ Commits(w)
    BY <1>2, <2>2 DEF Sandbox, Acquire, Grade, Marks, MarkCompleted, Commits, BrokerCommit, FinishCommit
  <2> QED  BY <1>5, <2>1, <2>2
<1>6. ASSUME NEW w \in Workers, Fails(w) \/ Calls(w) \/ CallsFail(w) PROVE FALSE
  BY <1>2, <1>6 DEF Fails, Crash, GradeRaises, PublishRaises, MarkRaises, CommitFails, Calls,
     CallbackReturns, CallsFail, CallbackRaises, CallbackRefused
<1>7. ~Rebalances /\ ~UNCHANGED vars
  BY <1>2 DEF Rebalances, Rebalance, vars, brokerVars
<1>8. \A w \in Workers : \A j \in jobs[w] : ~PublishDeadLetter(w, j)
  BY <1>2 DEF PublishDeadLetter
<1> QED  BY <1>3, <1>4, <1>5, <1>6, <1>7, <1>8 DEF Next, Works, Republishes

LEMMA FaultsPaidStep ==
    ASSUME Constants, TypeOK, TP!InLog, FaultsPaid, [Next]_vars PROVE FaultsPaid'
<1>1. faults \in Nat /\ faults' \in Nat /\ faults <= faults' /\ MaxFaults + MaxRefusals \in Nat
  <2>1. faults \in Nat /\ MaxFaults + MaxRefusals \in Nat
    BY AttemptsAreNat DEF Constants, Tracker!TrackerAssumption
  <2>2. faults' = faults \/ faults' = faults + 1
    BY FaultsStep
  <2> QED  BY <2>1, <2>2
<1>2. faults' <= MaxFaults + MaxRefusals
  BY <1>1, FaultsStep DEF FaultsPaid
<1>3. ASSUME NEW m \in Messages PROVE m.attempt \in Nat /\ m.attempt <= faults + 1
  BY AttemptsAreNat DEF FaultsPaid
<1>4. ASSUME NEW w \in Workers, NEW j \in jobs[w]
      PROVE  /\ MessageOf(j) \in Messages /\ MessageOf(j).attempt \in Nat
             /\ j.stage \in ExceptStages => MessageOf(j).attempt <= faults
             /\ MessageOf(j)' = MessageOf(j)
  <2>1. MessageOf(j) \in Messages
    BY JobMessage DEF Messages, MessageOf, MessageAt
  <2> QED  BY <1>3, <2>1, MessagesStay DEF FaultsPaid
<1>5. ASSUME NEW n \in Messages' PROVE n.attempt <= faults' + 1
  <2>1. CASE n \in Messages
    BY <1>1, <1>3, <2>1
  <2>2. CASE n.attempt = 1
    <3>1. \A x \in Nat : 1 <= x + 1
      OBVIOUS
    <3> QED  BY <1>1, <2>2, <3>1
  <2>3. ASSUME NEW w \in Workers, NEW j \in jobs[w], j.stage = "failed",
               n.attempt = MessageOf(j).attempt + 1
        PROVE  n.attempt <= faults' + 1
    BY <1>1, <1>4, <2>3 DEF ExceptStages
  <2> QED  BY <2>1, <2>2, <2>3, NewMessages
<1>6. ASSUME NEW w \in Workers, NEW j \in jobs'[w], j.stage \in ExceptStages
      PROVE  MessageOf(j)'.attempt <= faults'
  <2>1. CASE j \in jobs[w]
    BY <1>1, <1>4, <1>6, <2>1
  <2>2. ASSUME NEW i \in jobs[w], j.part = i.part, j.offset = i.offset,
               i.stage \in ExceptStages \/ faults' = faults + 1
        PROVE  MessageOf(j)'.attempt <= faults'
    <3>1. MessageOf(j)' = MessageOf(i)'
      BY <2>2 DEF MessageOf
    <3>2. MessageOf(i).attempt <= faults + 1
      BY <1>3, <1>4
    <3> QED  BY <1>1, <1>4, <2>2, <3>1, <3>2
  <2>3. ASSUME NEW k \in committing[w], j.part = k.task.part, j.offset = k.task.offset, faults' = faults + 1
        PROVE  MessageOf(j)'.attempt <= faults'
    <3>1. k.task.part \in Partitions /\ k.task.offset \in Nat
      BY DEF TypeOK, Tracker!TypeOK, Tracker!Commit, Tracker!Task
    <3>2. FirstOffset(k.task.part) = TP!FirstOffset(k.task.part) /\ FirstOffset(k.task.part) \in Nat
      BY <3>1 DEF FirstOffset, TP!FirstOffset, TP!NoOffset, Constants, Tracker!TrackerAssumption,
         Tracker!NoOffset
    <3>3. /\ FirstOffset(k.task.part) <= k.task.offset
          /\ k.task.offset < FirstOffset(k.task.part) + Len(contents[k.task.part])
      <4>1. /\ TP!FirstOffset(k.task.part) <= k.task.offset
            /\ k.task.offset < [p \in Partitions |-> FirstOffset(p) + Len(contents[p])][k.task.part]
        BY DEF TP!InLog, TP!CommittingInLog
      <4> QED  BY <3>1, <3>2, <4>1
    <3> DEFINE i == k.task.offset - FirstOffset(k.task.part) + 1
    <3>4. i \in DOMAIN contents[k.task.part]
      <4>1. contents[k.task.part] \in Seq(Message)
        BY <3>1 DEF TypeOK
      <4> QED  BY <3>1, <3>2, <3>3, <4>1
    <3>5. contents'[k.task.part][i] = contents[k.task.part][i] /\ contents[k.task.part][i] \in Messages
      <4> HIDE DEF i
      <4> QED  BY <3>1, <3>4, MessagesStay DEF Messages
    <3>6. MessageOf(j)' = contents'[k.task.part][i]
      BY <2>3 DEF MessageOf, MessageAt, FirstOffset
    <3> HIDE DEF i
    <3> QED  BY <1>3, <2>3, <3>5, <3>6
  <2> QED  BY <1>6, <2>1, <2>2, <2>3, ExceptJobs
<1> QED  BY <1>2, <1>5, <1>6 DEF FaultsPaid

\* A message has one delivery attempt more than things went wrong, at most.
THEOREM AttemptsCostFaults == Constants => (Spec => []FaultsPaid)
<1> SUFFICES ASSUME Constants PROVE Spec => []FaultsPaid
  OBVIOUS
<1>1. Init => FaultsPaid
  <2> SUFFICES ASSUME Init PROVE FaultsPaid
    OBVIOUS
  <2>1. faults = 0 /\ \A w \in Workers : jobs[w] = {}
    BY DEF Init, Tracker!Init
  <2>2. \A p \in Partitions : DOMAIN contents[p] = {}
    BY DEF Init
  <2>3. 0 <= MaxFaults + MaxRefusals
    BY DEF Constants, Tracker!TrackerAssumption
  <2> QED  BY <2>1, <2>2, <2>3 DEF FaultsPaid, Messages
<1>2. (TypeOK /\ TP!InLog) /\ FaultsPaid /\ [Next]_vars => FaultsPaid'
  BY FaultsPaidStep
<1> QED  BY <1>1, <1>2, TypeCorrect, PTL DEF Spec
=============================================================================
