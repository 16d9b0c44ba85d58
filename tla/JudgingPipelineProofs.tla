----------------------- MODULE JudgingPipelineProofs -----------------------
(***************************************************************************)
(* The theorems about JudgingPipeline, for any workers, partitions,         *)
(* submissions and bounds.                                                  *)
(***************************************************************************)
EXTENDS JudgingPipeline, TLAPS

\* The theorems about Executor, of these workers.
EP == INSTANCE ExecutorProofs

-----------------------------------------------------------------------------
(* EP speaks of the executors the requests are conjoined with.              *)

LEMMA SameConstants == PipelineAssumption => EP!Constants
BY DEF PipelineAssumption, Exec!ExecutorAssumption, Exec!Tracker!TrackerAssumption, EP!Constants,
       EP!ExecutorAssumption, EP!Tracker!TrackerAssumption, Exec!Verdict, EP!Verdict,
       Exec!Tracker!NoOffset, EP!Tracker!NoOffset

LEMMA SameType == Exec!TypeOK <=> EP!TypeOK
BY DEF Exec!TypeOK, EP!TypeOK, Exec!Message, EP!Message, Exec!Job, EP!Job, Exec!Verdict, EP!Verdict,
       Exec!TryStages, EP!TryStages, Exec!ExceptStages, EP!ExceptStages, Exec!TaskOf, EP!TaskOf,
       Exec!FirstOffset, EP!FirstOffset, Exec!Tracker!TypeOK, EP!Tracker!TypeOK,
       Exec!Tracker!NoOffset, EP!Tracker!NoOffset, Exec!Tracker!Task, EP!Tracker!Task,
       Exec!Tracker!Commit, EP!Tracker!Commit

LEMMA SameInit == Exec!Init <=> EP!Init
BY DEF Exec!Init, EP!Init, Exec!Tracker!Init, EP!Tracker!Init, Exec!TaskOf, EP!TaskOf,
       Exec!ExceptStages, EP!ExceptStages, Exec!FirstOffset, EP!FirstOffset,
       Exec!Tracker!NoOffset, EP!Tracker!NoOffset, Exec!Tracker!FirstOffset, EP!Tracker!FirstOffset

LEMMA SameCardinality == \A S : Exec!Cardinality(S) = EP!Cardinality(S)
BY DEF Exec!Cardinality, EP!Cardinality

LEMMA SameNext == [Exec!Next]_Exec!vars <=> [EP!Next]_EP!vars
<1>1. \A s, p : Exec!Enqueue(s, p) <=> EP!Enqueue(s, p)
  BY DEF Exec!Enqueue, EP!Enqueue, Exec!Messages, EP!Messages, Exec!Append1, EP!Append1,
         Exec!FirstOffset, EP!FirstOffset, Exec!brokerVars, EP!brokerVars,
         Exec!trackerVars, EP!trackerVars, Exec!workerVars, EP!workerVars
<1>2. Exec!Rebalances <=> EP!Rebalances
  BY DEF Exec!Rebalances, EP!Rebalances, Exec!Rebalance, EP!Rebalance, Exec!TaskOf, EP!TaskOf,
         Exec!FirstOffset, EP!FirstOffset, Exec!ExceptStages, EP!ExceptStages,
         Exec!Tracker!Rebalance, EP!Tracker!Rebalance, Exec!Tracker!NoOffset, EP!Tracker!NoOffset,
         Exec!Tracker!brokerVars, EP!Tracker!brokerVars,
         Exec!Tracker!trackerVars, EP!Tracker!trackerVars
<1>3. \A w : Exec!PauseOrResume(w) <=> EP!PauseOrResume(w)
  BY SameCardinality DEF Exec!PauseOrResume, EP!PauseOrResume, Exec!Active, EP!Active, Exec!Mine, EP!Mine
<1>4. \A upto : Exec!NewJobs(upto) = EP!NewJobs(upto)
  BY DEF Exec!NewJobs, EP!NewJobs, Exec!Tracker!FetchFrom, EP!Tracker!FetchFrom,
         Exec!Tracker!NoOffset, EP!Tracker!NoOffset
<1>5. \A w, upto : Exec!PollMessages(w, upto) <=> EP!PollMessages(w, upto)
  BY <1>3, <1>4, SameCardinality DEF Exec!PollMessages, EP!PollMessages, Exec!TaskOf, EP!TaskOf,
         Exec!FirstOffset, EP!FirstOffset, Exec!ExceptStages, EP!ExceptStages,
         Exec!Tracker!Poll, EP!Tracker!Poll, Exec!Tracker!FetchFrom, EP!Tracker!FetchFrom,
         Exec!Tracker!NoOffset, EP!Tracker!NoOffset,
         Exec!Tracker!brokerVars, EP!Tracker!brokerVars,
         Exec!Tracker!trackerVars, EP!Tracker!trackerVars
<1>6. \A w : Exec!Polls(w) \/ Exec!PollNothing(w) <=> EP!Polls(w) \/ EP!PollNothing(w)
  BY <1>3, <1>5 DEF Exec!Polls, EP!Polls, Exec!PollNothing, EP!PollNothing, Exec!Mine, EP!Mine,
         Exec!brokerVars, EP!brokerVars, Exec!trackerVars, EP!trackerVars,
         Exec!workerVars, EP!workerVars
<1>7. \A w : Exec!Crash(w) <=> EP!Crash(w)
  BY DEF Exec!Crash, EP!Crash, Exec!MayFail, EP!MayFail, Exec!Mine, EP!Mine,
         Exec!TaskOf, EP!TaskOf, Exec!FirstOffset, EP!FirstOffset,
         Exec!ExceptStages, EP!ExceptStages, Exec!Tracker!Crash, EP!Tracker!Crash,
         Exec!Tracker!NoOffset, EP!Tracker!NoOffset,
         Exec!Tracker!brokerVars, EP!Tracker!brokerVars,
         Exec!Tracker!trackerVars, EP!Tracker!trackerVars
<1>8. \A w : Exec!Sandbox(w) <=> EP!Sandbox(w)
  BY SameCardinality DEF Exec!Sandbox, EP!Sandbox, Exec!Acquire, EP!Acquire, Exec!Running, EP!Running,
         Exec!Grade, EP!Grade, Exec!PossibleVerdicts, EP!PossibleVerdicts, Exec!Goes, EP!Goes,
         Exec!MessageAt, EP!MessageAt, Exec!MessageOf, EP!MessageOf,
         Exec!FirstOffset, EP!FirstOffset, Exec!trackerVars, EP!trackerVars
<1>9. \A w : Exec!Republishes(w) <=> EP!Republishes(w)
  BY DEF Exec!Republishes, EP!Republishes, Exec!PublishRetry, EP!PublishRetry,
         Exec!PublishDeadLetter, EP!PublishDeadLetter, Exec!Append1, EP!Append1,
         Exec!Goes, EP!Goes, Exec!MessageAt, EP!MessageAt, Exec!MessageOf, EP!MessageOf,
         Exec!FirstOffset, EP!FirstOffset, Exec!trackerVars, EP!trackerVars
<1>10. \A w : Exec!Marks(w) <=> EP!Marks(w)
  BY DEF Exec!Marks, EP!Marks, Exec!MarkCompleted, EP!MarkCompleted, Exec!TaskOf, EP!TaskOf,
         Exec!FirstOffset, EP!FirstOffset, Exec!ExceptStages, EP!ExceptStages,
         Exec!Tracker!MarkCompleted, EP!Tracker!MarkCompleted,
         Exec!Tracker!NextCommitOffset, EP!Tracker!NextCommitOffset,
         Exec!Tracker!RunEndsAt, EP!Tracker!RunEndsAt, Exec!Tracker!NoOffset, EP!Tracker!NoOffset,
         Exec!Tracker!brokerVars, EP!Tracker!brokerVars,
         Exec!Tracker!trackerVars, EP!Tracker!trackerVars
<1>11. \A w : Exec!Commits(w) <=> EP!Commits(w)
  BY DEF Exec!Commits, EP!Commits, Exec!BrokerCommit, EP!BrokerCommit,
         Exec!FinishCommit, EP!FinishCommit, Exec!workerVars, EP!workerVars,
         Exec!TaskOf, EP!TaskOf, Exec!FirstOffset, EP!FirstOffset,
         Exec!ExceptStages, EP!ExceptStages, Exec!Tracker!BrokerCommit, EP!Tracker!BrokerCommit,
         Exec!Tracker!FinishCommit, EP!Tracker!FinishCommit,
         Exec!Tracker!NoOffset, EP!Tracker!NoOffset,
         Exec!Tracker!brokerVars, EP!Tracker!brokerVars,
         Exec!Tracker!trackerVars, EP!Tracker!trackerVars
<1>12. \A w, k : Exec!CommitFails(w, k) <=> EP!CommitFails(w, k)
  BY DEF Exec!CommitFails, EP!CommitFails, Exec!MayFail, EP!MayFail, Exec!TaskOf, EP!TaskOf,
         Exec!FirstOffset, EP!FirstOffset, Exec!ExceptStages, EP!ExceptStages,
         Exec!Tracker!CommitFails, EP!Tracker!CommitFails,
         Exec!Tracker!AfterException, EP!Tracker!AfterException,
         Exec!Tracker!NoOffset, EP!Tracker!NoOffset,
         Exec!Tracker!brokerVars, EP!Tracker!brokerVars,
         Exec!Tracker!trackerVars, EP!Tracker!trackerVars
<1>13. \A w, j : Exec!Raises(w, j) <=> EP!Raises(w, j)
  BY DEF Exec!Raises, EP!Raises, Exec!TaskOf, EP!TaskOf, Exec!FirstOffset, EP!FirstOffset,
         Exec!ExceptStages, EP!ExceptStages, Exec!Tracker!Raise, EP!Tracker!Raise,
         Exec!Tracker!AfterException, EP!Tracker!AfterException,
         Exec!Tracker!NoOffset, EP!Tracker!NoOffset,
         Exec!Tracker!brokerVars, EP!Tracker!brokerVars,
         Exec!Tracker!trackerVars, EP!Tracker!trackerVars
<1>14. \A w : Exec!Fails(w) <=> EP!Fails(w)
  BY <1>7, <1>12, <1>13 DEF Exec!Fails, EP!Fails, Exec!GradeRaises, EP!GradeRaises,
         Exec!PublishRaises, EP!PublishRaises, Exec!MarkRaises, EP!MarkRaises,
         Exec!MayFail, EP!MayFail
<1>15. \A w : Exec!Calls(w) <=> EP!Calls(w)
  BY DEF Exec!Calls, EP!Calls, Exec!CallbackReturns, EP!CallbackReturns,
         Exec!InCallback, EP!InCallback, Exec!Goes, EP!Goes, Exec!MessageAt, EP!MessageAt,
         Exec!MessageOf, EP!MessageOf, Exec!FirstOffset, EP!FirstOffset,
         Exec!trackerVars, EP!trackerVars
<1>16. \A w : Exec!CallsFail(w) <=> EP!CallsFail(w)
  BY <1>13 DEF Exec!CallsFail, EP!CallsFail, Exec!CallbackRaises, EP!CallbackRaises,
         Exec!CallbackRefused, EP!CallbackRefused, Exec!InCallback, EP!InCallback,
         Exec!MayFail, EP!MayFail
<1>17. UNCHANGED Exec!vars <=> UNCHANGED EP!vars
  BY DEF Exec!vars, EP!vars, Exec!brokerVars, EP!brokerVars, Exec!trackerVars, EP!trackerVars,
         Exec!workerVars, EP!workerVars
<1>18. \A w : Exec!Works(w) <=> EP!Works(w)
  BY <1>6, <1>8, <1>9, <1>10, <1>11 DEF Exec!Works, EP!Works
<1>19. Exec!Next <=> EP!Next
  BY <1>1, <1>2, <1>14, <1>15, <1>16, <1>18 DEF Exec!Next, EP!Next
<1> QED  BY <1>17, <1>19

LEMMA SameLost == EP!NoSubmissionLost => NoSubmissionLost
BY DEF NoSubmissionLost, Exec!NoSubmissionLost, EP!NoSubmissionLost, Exec!Messages, EP!Messages,
       Exec!FirstOffset, EP!FirstOffset

LEMMA SameActive == EP!ActiveBound => ActiveBound
BY SameCardinality DEF ActiveBound, Exec!ActiveBound, EP!ActiveBound, Exec!Active, EP!Active

LEMMA SameMonotone == EP!Tracker!CommittedMonotone => CommittedMonotone
BY DEF CommittedMonotone, Exec!Tracker!CommittedMonotone, EP!Tracker!CommittedMonotone

LEMMA SameTrackerInit == EP!Tracker!Init => Exec!Tracker!Init
BY DEF Exec!Tracker!Init, EP!Tracker!Init, Exec!Tracker!NoOffset, EP!Tracker!NoOffset,
       Exec!Tracker!FirstOffset, EP!Tracker!FirstOffset, Exec!TaskOf, EP!TaskOf,
       Exec!ExceptStages, EP!ExceptStages, Exec!FirstOffset, EP!FirstOffset

LEMMA SameTrackerNext == [EP!Tracker!Next]_EP!Tracker!vars => [Exec!Tracker!Next]_Exec!Tracker!vars
BY DEF Exec!Tracker!Next, EP!Tracker!Next, Exec!Tracker!vars, EP!Tracker!vars,
       Exec!Tracker!brokerVars, EP!Tracker!brokerVars,
       Exec!Tracker!trackerVars, EP!Tracker!trackerVars,
       Exec!Tracker!NoOffset, EP!Tracker!NoOffset, Exec!Tracker!Produce, EP!Tracker!Produce,
       Exec!Tracker!Rebalances, EP!Tracker!Rebalances,
       Exec!Tracker!Rebalance, EP!Tracker!Rebalance, Exec!Tracker!Polls, EP!Tracker!Polls,
       Exec!Tracker!Poll, EP!Tracker!Poll, Exec!Tracker!FetchFrom, EP!Tracker!FetchFrom,
       Exec!Tracker!Crash, EP!Tracker!Crash, Exec!Tracker!Marks, EP!Tracker!Marks,
       Exec!Tracker!MarkCompleted, EP!Tracker!MarkCompleted,
       Exec!Tracker!NextCommitOffset, EP!Tracker!NextCommitOffset,
       Exec!Tracker!RunEndsAt, EP!Tracker!RunEndsAt, Exec!Tracker!Raise, EP!Tracker!Raise,
       Exec!Tracker!AfterException, EP!Tracker!AfterException,
       Exec!Tracker!BrokerCommit, EP!Tracker!BrokerCommit,
       Exec!Tracker!FinishCommit, EP!Tracker!FinishCommit,
       Exec!Tracker!CommitFails, EP!Tracker!CommitFails, Exec!TaskOf, EP!TaskOf,
       Exec!ExceptStages, EP!ExceptStages, Exec!FirstOffset, EP!FirstOffset

LEMMA SameMessages ==
    /\ \A j : Exec!MessageOf(j) = EP!MessageOf(j)
    /\ \A p : Exec!FirstOffset(p) = EP!FirstOffset(p)
    /\ Exec!Job = EP!Job
    /\ Exec!Message = EP!Message
BY DEF Exec!MessageOf, EP!MessageOf, Exec!MessageAt, EP!MessageAt, Exec!FirstOffset, EP!FirstOffset,
       Exec!Job, EP!Job, Exec!Message, EP!Message, Exec!TryStages, EP!TryStages,
       Exec!ExceptStages, EP!ExceptStages, Exec!Verdict, EP!Verdict

-----------------------------------------------------------------------------
(* The workers keep to Executor: to them, Django is the environment.        *)

LEMMA ExecNext ==
    ASSUME Exec!Next \/ UNCHANGED execVars PROVE [EP!Next]_EP!vars
BY SameNext DEF execVars, Exec!vars, Exec!brokerVars, Exec!trackerVars, Exec!workerVars

LEMMA StepImplements == ASSUME [Next]_vars PROVE [EP!Next]_EP!vars
<1>1. ASSUME NEW s \in Subs, Create(s) \/ Creates(s) \/ Reject(s) \/ CreateFails(s) \/ DeleteRow(s)
      PROVE  Exec!Next \/ UNCHANGED execVars
  BY <1>1 DEF Create, Creates, Publish, Reject, CreateFails, WebFault, DeleteRow, Exec!Next
<1>2. ASSUME NEW w \in Workers, Patches(w)
      PROVE  Exec!Next \/ UNCHANGED execVars
  BY <1>2 DEF Patches, PatchArrives, PatchRefused, PatchReturns, Exec!Next, Exec!Calls, Exec!CallsFail
<1>3. ASSUME NEW w \in Workers, \E j \in jobs[w] : PatchTryFails(w, j) \/ PatchRaises(w, j)
      PROVE  Exec!Next \/ UNCHANGED execVars
  BY <1>3 DEF PatchTryFails, WebFault, PatchRaises, Exec!Next, Exec!CallsFail
<1>4. ASSUME NEW w \in Workers, (Exec!Works(w) /\ Elsewhere) \/ WorkerFails(w) \/ CrashWorker(w)
      PROVE  Exec!Next
  BY <1>4 DEF WorkerFails, CrashWorker, Exec!Next, Exec!Fails
<1>5. ASSUME UNCHANGED vars \/ (\E h \in handlers : PatchSavesLate(h))
      PROVE  UNCHANGED execVars
  BY <1>5 DEF vars, PatchSavesLate
<1>6. ASSUME Exec!Rebalances /\ Elsewhere PROVE Exec!Next
  BY <1>6 DEF Exec!Next
<1>7. Exec!Next \/ UNCHANGED execVars
  BY <1>1, <1>2, <1>3, <1>4, <1>5, <1>6 DEF Next
<1> QED  BY <1>7, ExecNext

LEMMA Implements == Spec => EP!Spec
<1>1. Init => EP!Init
  BY SameInit DEF Init
<1>2. [Next]_vars => [EP!Next]_EP!vars
  BY StepImplements
<1> QED  BY <1>1, <1>2, PTL DEF Spec, EP!Spec

-----------------------------------------------------------------------------
(* What holds of every executor holds of these.                             *)

\* Every partition has a committed offset when the workers start: without one, the
\* first commit of a partition may leave out what came before.
KnownStart == \A p \in Partitions : InitCommitted[p] # -1

\* The group has one worker.
OneWorker == \E w \in Workers : Workers = {w}

\* A submission Django published is answered, or a restart of the workers delivers
\* one of its messages.
THEOREM PublishedIsNotLost ==
    KnownStart => (Spec => []NoSubmissionLost)
<1> SUFFICES ASSUME PipelineAssumption, KnownStart PROVE Spec => []NoSubmissionLost
  BY PipelineAssumption
<1>1. EP!TP!KnownStart
  BY DEF KnownStart, EP!TP!KnownStart, EP!TP!NoOffset
<1>2. EP!Spec => []EP!NoSubmissionLost
  BY <1>1, SameConstants, EP!NoneLost
<1> QED  BY <1>2, Implements, SameLost, PTL

\* The jobs of the workers are the tasks of their offset trackers.
THEOREM PipelineImplementsTracker == Spec => ImplementsTracker
<1> SUFFICES ASSUME PipelineAssumption PROVE Spec => ImplementsTracker
  BY PipelineAssumption
<1>1. EP!Spec => EP!Tracker!Spec
  BY SameConstants, EP!ExecutorImplementsTracker DEF EP!ImplementsTracker
<1>2. EP!Tracker!Spec => Exec!Tracker!Spec
  BY SameTrackerInit, SameTrackerNext, PTL DEF EP!Tracker!Spec, Exec!Tracker!Spec
<1> QED  BY <1>1, <1>2, Implements, PTL DEF ImplementsTracker, Exec!ImplementsTracker

\* One worker never takes a commit back.
THEOREM PipelineCommitsNeverMoveBack ==
    OneWorker => (Spec => CommittedMonotone)
<1> SUFFICES ASSUME PipelineAssumption, OneWorker PROVE Spec => CommittedMonotone
  BY PipelineAssumption
<1>1. EP!TP!OneWorker
  BY DEF OneWorker, EP!TP!OneWorker
<1>2. EP!Spec => EP!Tracker!CommittedMonotone
  BY <1>1, SameConstants, EP!ExecutorCommitsNeverMoveBack
<1> QED  BY <1>2, Implements, SameMonotone, PTL

\* One worker that keeps its partitions holds less than two polls' worth of messages.
THEOREM WorkerIsNotOverrun ==
    OneWorker /\ MaxGeneration <= 1 /\ IsFiniteSet(Partitions)
        => (Spec => []ActiveBound)
<1> SUFFICES ASSUME PipelineAssumption, OneWorker, MaxGeneration <= 1, IsFiniteSet(Partitions)
             PROVE  Spec => []ActiveBound
  BY PipelineAssumption
<1>1. EP!OneWorkerStays
  BY DEF OneWorker, EP!OneWorkerStays, EP!TP!OneWorker, EP!IsFiniteSet, IsFiniteSet
<1>2. EP!Spec => []EP!ActiveBound
  BY <1>1, SameConstants, EP!ActiveIsBounded
<1> QED  BY <1>2, Implements, SameActive, PTL

-----------------------------------------------------------------------------
(* The messages, jobs and requests of a submission.                         *)

\* A message of s is in the topic.
IsPublished(s) == \E m \in Exec!Messages : m.sub = s

\* A request speaks of a message of the topic.
HandlersHaveMessages ==
    \A h \in handlers :
        LET p == h.caller.task.part
            i == h.caller.task.offset - Exec!FirstOffset(p) + 1
        IN  i \in DOMAIN contents[p] /\ contents[p][i].sub = h.sub

\* What a PATCH reports is the verdict of the sandbox, or the error of a message
\* that was dead-lettered after its last attempt.
Reported(j) ==
    LET m == Exec!MessageOf(j)
    IN  /\ j.stage = "callback" => j.verdict \in Exec!PossibleVerdicts(m.sub)
        /\ j.stage = "errorCallback" =>
              /\ j.verdict = "SYSTEM_ERROR"
              /\ m \in deadLetters
              /\ m.attempt >= MaxAttempts

ReportsAreTrue == \A w \in Workers : \A j \in jobs[w] : Reported(j)

\* The message of a job, and where it is.
LEMMA JobMessage ==
    ASSUME PipelineAssumption, Exec!TypeOK, EP!TP!InLog, NEW w \in Workers, NEW j \in jobs[w]
    PROVE  /\ j \in Exec!Job /\ j.part \in Partitions /\ j.offset \in Nat
           /\ j.offset - Exec!FirstOffset(j.part) + 1 \in DOMAIN contents[j.part]
           /\ Exec!MessageOf(j) = contents[j.part][j.offset - Exec!FirstOffset(j.part) + 1]
           /\ Exec!MessageOf(j) \in Exec!Messages
           /\ Exec!MessageOf(j) \in Exec!Message
<1>1. EP!Constants /\ EP!TypeOK
  BY SameConstants, SameType
<1>2. /\ j \in EP!Job /\ j.part \in Partitions /\ j.offset \in Nat
      /\ j.offset - EP!FirstOffset(j.part) + 1 \in DOMAIN contents[j.part]
      /\ EP!MessageOf(j) \in EP!Message
  BY <1>1, EP!JobMessage
<1>3. Exec!MessageOf(j) = contents[j.part][j.offset - Exec!FirstOffset(j.part) + 1]
  BY DEF Exec!MessageOf, Exec!MessageAt
<1>4. Exec!MessageOf(j) \in Exec!Messages
  BY <1>2, <1>3, SameMessages DEF Exec!Messages
<1> QED  BY <1>2, <1>3, <1>4, SameMessages

LEMMA MessagesStay ==
    ASSUME PipelineAssumption, Exec!TypeOK, EP!TP!InLog, [Next]_vars
    PROVE  /\ \A p \in Partitions : \A i \in DOMAIN contents[p] :
                 i \in DOMAIN contents'[p] /\ contents'[p][i] = contents[p][i]
           /\ Exec!Messages \subseteq Exec!Messages'
           /\ \A w \in Workers : \A j \in jobs[w] : Exec!MessageOf(j)' = Exec!MessageOf(j)
<1>1. EP!Constants /\ EP!TypeOK /\ [EP!Next]_EP!vars
  BY SameConstants, SameType, StepImplements
<1>2. \A p \in Partitions : \A i \in DOMAIN contents[p] :
         i \in DOMAIN contents'[p] /\ contents'[p][i] = contents[p][i]
  BY <1>1, EP!MessagesStay
<1>3. Exec!Messages \subseteq Exec!Messages'
  BY <1>2 DEF Exec!Messages
<1>4. ASSUME NEW w \in Workers, NEW j \in jobs[w] PROVE Exec!MessageOf(j)' = Exec!MessageOf(j)
  BY <1>2, JobMessage DEF Exec!MessageOf, Exec!MessageAt
<1> QED  BY <1>2, <1>3, <1>4

\* What a step appends to the topic: the message of a create request, or the next
\* attempt of a message that is there.
LEMMA Appended ==
    ASSUME contents \in [Partitions -> Seq(Exec!Message)], NEW p \in Partitions, NEW m \in Exec!Message,
           contents' = [contents EXCEPT ![p] = Append(@, m)]
    PROVE  Exec!Messages' = Exec!Messages \cup {m}
<1>1. contents[p] \in Seq(Exec!Message) /\ contents'[p] = Append(contents[p], m)
  OBVIOUS
<1>2. \A q \in Partitions : q # p => contents'[q] = contents[q]
  OBVIOUS
<1>3. /\ DOMAIN contents[p] = 1..Len(contents[p]) /\ Len(contents[p]) \in Nat
      /\ DOMAIN contents'[p] = 1..(Len(contents[p]) + 1)
      /\ \A i \in 1..Len(contents[p]) : contents'[p][i] = contents[p][i]
      /\ contents'[p][Len(contents[p]) + 1] = m
  BY <1>1
<1>4. ASSUME NEW x PROVE x \in Exec!Messages' <=> x \in Exec!Messages \/ x = m
  <2>1. x \in Exec!Messages <=> \E q \in Partitions : \E i \in DOMAIN contents[q] : x = contents[q][i]
    BY DEF Exec!Messages
  <2>2. x \in Exec!Messages' <=> \E q \in Partitions : \E i \in DOMAIN contents'[q] : x = contents'[q][i]
    BY DEF Exec!Messages
  <2>3. (\E i \in DOMAIN contents'[p] : x = contents'[p][i])
           <=> (\E i \in DOMAIN contents[p] : x = contents[p][i]) \/ x = m
    <3>1. \A i : i \in 1..(Len(contents[p]) + 1) <=> i \in 1..Len(contents[p]) \/ i = Len(contents[p]) + 1
      BY <1>3
    <3> QED  BY <1>3, <3>1
  <2> QED  BY <1>2, <2>1, <2>2, <2>3
<1> QED  BY <1>4

LEMMA MessagesStep ==
    ASSUME PipelineAssumption, Exec!TypeOK, Web!TypeOK, EP!TP!InLog, [Next]_vars
    PROVE  \/ \E s \in Subs, p \in Partitions :
                 Publish(s, p) /\ Exec!Messages' = Exec!Messages \cup {[sub |-> s, attempt |-> 1]}
           \/ /\ \A s \in Subs : creating'[s] = "queued" <=> creating[s] = "queued"
              /\ \/ Exec!Messages' = Exec!Messages
                 \/ \E m \in Exec!Messages :
                       Exec!Messages' = Exec!Messages \cup {[m EXCEPT !.attempt = @ + 1]}
<1>1. ASSUME NEW s \in Subs, NEW p \in Partitions, Publish(s, p)
      PROVE  Exec!Messages' = Exec!Messages \cup {[sub |-> s, attempt |-> 1]}
  <2>1. [sub |-> s, attempt |-> 1] \in Exec!Message
    BY DEF Exec!Message, PipelineAssumption, Exec!ExecutorAssumption
  <2>2. contents' = [contents EXCEPT ![p] = Append(@, [sub |-> s, attempt |-> 1])]
    BY <1>1 DEF Publish, Exec!Enqueue, Exec!Append1
  <2> QED  BY <2>1, <2>2, Appended DEF Exec!TypeOK
<1>2. ASSUME NEW w \in Workers, NEW j \in jobs[w], NEW p \in Partitions, Exec!PublishRetry(w, j, p)
      PROVE  \E m \in Exec!Messages : Exec!Messages' = Exec!Messages \cup {[m EXCEPT !.attempt = @ + 1]}
  <2>1. Exec!MessageOf(j) \in Exec!Messages /\ Exec!MessageOf(j) \in Exec!Message
    BY JobMessage
  <2>2. [Exec!MessageOf(j) EXCEPT !.attempt = @ + 1] \in Exec!Message
    BY <1>2, <2>1 DEF Exec!PublishRetry, Exec!Message, PipelineAssumption, Exec!ExecutorAssumption
  <2>3. contents' = [contents EXCEPT ![p] = Append(@, [Exec!MessageOf(j) EXCEPT !.attempt = @ + 1])]
    BY <1>2 DEF Exec!PublishRetry, Exec!Append1
  <2>4. Exec!Messages' = Exec!Messages \cup {[Exec!MessageOf(j) EXCEPT !.attempt = @ + 1]}
    BY <2>2, <2>3, Appended DEF Exec!TypeOK
  <2> QED  BY <2>1, <2>4
<1>3. ASSUME UNCHANGED contents PROVE Exec!Messages' = Exec!Messages
  BY <1>3 DEF Exec!Messages
<1>4. ASSUME NEW w \in Workers,
             \/ Exec!Polls(w) \/ Exec!PollNothing(w) \/ Exec!Sandbox(w) \/ Exec!Marks(w)
             \/ Exec!Commits(w) \/ Exec!Rebalances \/ WorkerFails(w) \/ CrashWorker(w) \/ Patches(w)
             \/ \E j \in jobs[w] : PatchTryFails(w, j) \/ PatchRaises(w, j) \/ Exec!PublishDeadLetter(w, j)
      PROVE  UNCHANGED contents
  <2>1. CASE Exec!Polls(w) \/ Exec!PollNothing(w)
    BY <2>1 DEF Exec!Polls, Exec!PollMessages, Exec!PollNothing, Exec!brokerVars
  <2>2. CASE Exec!Sandbox(w) \/ Exec!Marks(w) \/ Exec!Commits(w) \/ Exec!Rebalances
    BY <2>2 DEF Exec!Sandbox, Exec!Acquire, Exec!Grade, Exec!Marks, Exec!MarkCompleted, Exec!Commits,
       Exec!BrokerCommit, Exec!FinishCommit, Exec!Rebalances, Exec!Rebalance
  <2>3. CASE WorkerFails(w) \/ CrashWorker(w)
    BY <2>3 DEF WorkerFails, CrashWorker, Exec!GradeRaises, Exec!PublishRaises, Exec!MarkRaises,
       Exec!CommitFails, Exec!Crash
  <2>4. CASE Patches(w)
    BY <2>4 DEF Patches, PatchArrives, PatchRefused, PatchReturns, execVars, Exec!CallbackReturns,
       Exec!CallbackRefused
  <2>5. CASE \E j \in jobs[w] : PatchTryFails(w, j) \/ PatchRaises(w, j) \/ Exec!PublishDeadLetter(w, j)
    BY <2>5 DEF PatchTryFails, WebFault, PatchRaises, execVars, Exec!CallbackRaises,
       Exec!PublishDeadLetter
  <2> QED  BY <1>4, <2>1, <2>2, <2>3, <2>4, <2>5
<1>5. ASSUME \/ UNCHANGED vars \/ \E h \in handlers : PatchSavesLate(h)
             \/ \E s \in Subs : Create(s) \/ Reject(s) \/ CreateFails(s) \/ DeleteRow(s)
      PROVE  UNCHANGED contents
  BY <1>5 DEF vars, execVars, PatchSavesLate, Create, Reject, CreateFails, WebFault, DeleteRow
<1>6. ASSUME NEW s \in Subs, Create(s) \/ Reject(s) \/ CreateFails(s) \/ DeleteRow(s), NEW t \in Subs
      PROVE  creating'[t] = "queued" <=> creating[t] = "queued"
  <2>1. UNCHANGED creating \/ /\ creating[s] # "queued"
                              /\ \E c \in {"saved", "rejected", "died", "lost", "queueFailed"} :
                                    creating' = [creating EXCEPT ![s] = c]
    BY <1>6 DEF Create, Reject, CreateFails, DeleteRow, Web!CreateSaves, Web!CreateRejected,
       Web!CreateDies, Web!CreateQueuedInVain, Web!CreateQueueFails, Web!Delete
  <2> QED  BY <2>1 DEF Web!TypeOK
<1>7. ASSUME \/ UNCHANGED vars \/ \E h \in handlers : PatchSavesLate(h)
             \/ Exec!Rebalances /\ Elsewhere
             \/ \E w \in Workers : \/ Exec!Works(w) /\ Elsewhere
                                   \/ WorkerFails(w) \/ CrashWorker(w) \/ Patches(w)
                                   \/ \E j \in jobs[w] : PatchTryFails(w, j) \/ PatchRaises(w, j)
      PROVE  UNCHANGED creating
  <2>1. CASE UNCHANGED vars \/ (\E h \in handlers : PatchSavesLate(h))
    BY <2>1 DEF vars, webVars, PatchSavesLate, Web!UpdateSaves
  <2>2. CASE Elsewhere
    BY <2>2 DEF Elsewhere, webVars
  <2>3. ASSUME NEW w \in Workers, \/ WorkerFails(w) \/ CrashWorker(w) \/ Patches(w)
                                  \/ \E j \in jobs[w] : PatchTryFails(w, j) \/ PatchRaises(w, j)
        PROVE  UNCHANGED creating
    BY <2>3 DEF WorkerFails, Elsewhere, webVars, CrashWorker, Patches, PatchArrives, PatchRefused,
       PatchReturns, PatchTryFails, PatchRaises, Web!Abandon, Web!UpdateReads, Web!UpdateSaves
  <2> QED  BY <1>7, <2>1, <2>2, <2>3
<1>8. CASE \E s \in Subs : Creates(s)
  BY <1>1, <1>8 DEF Creates
<1>9. CASE \/ UNCHANGED vars \/ \E h \in handlers : PatchSavesLate(h)
           \/ Exec!Rebalances /\ Elsewhere
           \/ \E w \in Workers : \/ Exec!Works(w) /\ Elsewhere
                                 \/ WorkerFails(w) \/ CrashWorker(w) \/ Patches(w)
                                 \/ \E j \in jobs[w] : PatchTryFails(w, j) \/ PatchRaises(w, j)
  <2>1. \/ Exec!Messages' = Exec!Messages
        \/ \E m \in Exec!Messages : Exec!Messages' = Exec!Messages \cup {[m EXCEPT !.attempt = @ + 1]}
    <3>1. CASE UNCHANGED vars \/ \E h \in handlers : PatchSavesLate(h)
      BY <1>3, <1>5, <3>1
    <3>2. CASE Exec!Rebalances
      BY <3>2, <1>3 DEF Exec!Rebalances, Exec!Rebalance
    <3>3. ASSUME NEW w \in Workers,
                 \/ WorkerFails(w) \/ CrashWorker(w) \/ Patches(w)
                 \/ \E j \in jobs[w] : PatchTryFails(w, j) \/ PatchRaises(w, j)
          PROVE  Exec!Messages' = Exec!Messages
      BY <1>3, <1>4, <3>3
    <3>4. ASSUME NEW w \in Workers, Exec!Works(w)
          PROVE  \/ Exec!Messages' = Exec!Messages
                 \/ \E m \in Exec!Messages :
                       Exec!Messages' = Exec!Messages \cup {[m EXCEPT !.attempt = @ + 1]}
      BY <1>2, <1>3, <1>4, <3>4 DEF Exec!Works, Exec!Republishes
    <3> QED  BY <1>9, <3>1, <3>2, <3>3, <3>4
  <2> QED  BY <1>7, <1>9, <2>1
<1>10. CASE \E s \in Subs : Create(s) \/ Reject(s) \/ CreateFails(s) \/ DeleteRow(s)
  BY <1>3, <1>5, <1>6, <1>10
<1> QED  BY <1>8, <1>9, <1>10 DEF Next

\* The jobs in a PATCH are those that were, or were graded or dead-lettered just now.
LEMMA CallbackJobs ==
    ASSUME PipelineAssumption, Exec!TypeOK, EP!TP!InLog, [Next]_vars,
           NEW w \in Workers, NEW j \in jobs'[w], j \notin jobs[w], Exec!InCallback(j)
    PROVE  \E i \in jobs[w] :
              /\ j.part = i.part /\ j.offset = i.offset
              /\ \/ /\ j.stage = "callback"
                    /\ j.verdict \in Exec!PossibleVerdicts(Exec!MessageOf(i).sub)
                 \/ /\ j.stage = "errorCallback"
                    /\ j.verdict = "SYSTEM_ERROR"
                    /\ Exec!MessageOf(i) \in deadLetters'
                    /\ Exec!MessageOf(i).attempt >= MaxAttempts
<1>1. jobs \in [Workers -> SUBSET Exec!Job]
  BY DEF Exec!TypeOK
<1>2. [Exec!Next]_Exec!vars
  BY StepImplements, SameNext
<1>3. ASSUME NEW u \in Workers, NEW i \in jobs[u], NEW next, Exec!Goes(u, i, next)
      PROVE  u = w /\ j = next
  BY <1>1, <1>3 DEF Exec!Goes
<1>4. ASSUME NEW u \in Workers, Exec!Polls(u) \/ Exec!PollNothing(u) PROVE FALSE
  <2>1. \A upto, i : i \in Exec!NewJobs(upto) => i.stage = "waiting"
    BY DEF Exec!NewJobs
  <2>2. PICK N : /\ jobs' = [jobs EXCEPT ![u] = @ \cup N] \/ UNCHANGED jobs
                 /\ \A i \in N : i.stage = "waiting"
    BY <1>4, <2>1 DEF Exec!Polls, Exec!PollMessages, Exec!PollNothing
  <2> QED  BY <1>1, <2>2 DEF Exec!InCallback
<1>5. ASSUME NEW u \in Workers, NEW i \in jobs[u], Exec!Acquire(u, i) PROVE FALSE
  <2>1. u = w /\ j = [i EXCEPT !.stage = "grading"]
    BY <1>3, <1>5 DEF Exec!Acquire
  <2> QED  BY <1>1, <2>1 DEF Exec!InCallback, Exec!Job
<1>6. ASSUME NEW u \in Workers, NEW i \in jobs[u], NEW p, Exec!PublishRetry(u, i, p) PROVE FALSE
  <2>1. u = w /\ j = [i EXCEPT !.stage = "handled"]
    BY <1>3, <1>6 DEF Exec!PublishRetry
  <2> QED  BY <1>1, <2>1 DEF Exec!InCallback, Exec!Job
<1>7. ASSUME NEW u \in Workers, NEW i \in jobs[u], Exec!CallbackReturns(u, i) PROVE FALSE
  <2>1. u = w /\ j = [i EXCEPT !.stage = IF i.stage = "callback" THEN "graded" ELSE "handled"]
    BY <1>3, <1>7 DEF Exec!CallbackReturns
  <2> QED  BY <1>1, <2>1 DEF Exec!InCallback, Exec!Job
<1>8. ASSUME NEW u \in Workers, NEW i \in jobs[u], Exec!Raises(u, i) PROVE FALSE
  <2>1. j.stage = "failed"
    BY <1>1, <1>8 DEF Exec!Raises, Exec!Job
  <2> QED  BY <2>1 DEF Exec!InCallback
<1>9. ASSUME NEW u \in Workers, NEW i \in jobs[u], Exec!Grade(u, i)
      PROVE  /\ u = w /\ j.part = i.part /\ j.offset = i.offset /\ j.stage = "callback"
             /\ j.verdict \in Exec!PossibleVerdicts(Exec!MessageOf(i).sub)
  <2>1. PICK v \in Exec!PossibleVerdicts(Exec!MessageOf(i).sub) :
           Exec!Goes(u, i, [i EXCEPT !.stage = "callback", !.verdict = v])
    BY <1>9 DEF Exec!Grade
  <2>2. u = w /\ j = [i EXCEPT !.stage = "callback", !.verdict = v]
    BY <1>3, <2>1
  <2> QED  BY <1>1, <2>2 DEF Exec!Job
<1>10. ASSUME NEW u \in Workers, NEW i \in jobs[u], Exec!PublishDeadLetter(u, i)
       PROVE  /\ u = w /\ j.part = i.part /\ j.offset = i.offset /\ j.stage = "errorCallback"
              /\ j.verdict = "SYSTEM_ERROR" /\ Exec!MessageOf(i) \in deadLetters'
              /\ Exec!MessageOf(i).attempt >= MaxAttempts
  <2>1. u = w /\ j = [i EXCEPT !.stage = "errorCallback", !.verdict = "SYSTEM_ERROR"]
    BY <1>3, <1>10 DEF Exec!PublishDeadLetter
  <2>2. Exec!MessageOf(i) \in deadLetters' /\ Exec!MessageOf(i).attempt >= MaxAttempts
    BY <1>10 DEF Exec!PublishDeadLetter
  <2> QED  BY <1>1, <2>1, <2>2 DEF Exec!Job
<1>11. ASSUME NEW u \in Workers, NEW k \in committing[u], Exec!CommitFails(u, k) PROVE FALSE
  <2>1. j.stage = "failed"
    BY <1>1, <1>11 DEF Exec!CommitFails
  <2> QED  BY <2>1 DEF Exec!InCallback
<1>12. ASSUME NEW u \in Workers, Exec!Marks(u) \/ Exec!Commits(u) \/ Exec!Crash(u) PROVE FALSE
  BY <1>1, <1>12 DEF Exec!Marks, Exec!MarkCompleted, Exec!Commits, Exec!BrokerCommit,
     Exec!FinishCommit, Exec!Crash, Exec!workerVars
<1>13. jobs' # jobs
  OBVIOUS
<1>14. ~UNCHANGED Exec!vars /\ ~Exec!Rebalances /\ \A s \in Subs, p \in Partitions : ~Exec!Enqueue(s, p)
  BY <1>13 DEF Exec!vars, Exec!workerVars, Exec!Rebalances, Exec!Rebalance, Exec!Enqueue
<1>15. PICK u \in Workers : Exec!Works(u) \/ Exec!Fails(u) \/ Exec!Calls(u) \/ Exec!CallsFail(u)
  BY <1>2, <1>14 DEF Exec!Next
<1>16. ~Exec!Fails(u) /\ ~Exec!Calls(u) /\ ~Exec!CallsFail(u)
  BY <1>7, <1>8, <1>11, <1>12 DEF Exec!Fails, Exec!Calls, Exec!CallsFail, Exec!GradeRaises,
     Exec!PublishRaises, Exec!MarkRaises, Exec!CallbackRaises, Exec!CallbackRefused
<1>17. Exec!Sandbox(u) \/ Exec!Republishes(u)
  BY <1>4, <1>12, <1>15, <1>16 DEF Exec!Works
<1>18. \E i \in jobs[u] : Exec!Grade(u, i) \/ Exec!PublishDeadLetter(u, i)
  BY <1>5, <1>6, <1>17 DEF Exec!Sandbox, Exec!Republishes
<1> QED  BY <1>9, <1>10, <1>18

LEMMA DeadLettersStay == ASSUME [Next]_vars PROVE deadLetters \subseteq deadLetters'
<1>1. [Exec!Next]_Exec!vars
  BY StepImplements, SameNext
<1>2. ASSUME NEW w \in Workers, NEW j \in jobs[w], Exec!PublishDeadLetter(w, j)
      PROVE  deadLetters \subseteq deadLetters'
  BY <1>2 DEF Exec!PublishDeadLetter
<1>3. ASSUME NEW w \in Workers, Exec!Republishes(w) PROVE deadLetters \subseteq deadLetters'
  BY <1>2, <1>3 DEF Exec!Republishes, Exec!PublishRetry
<1>4. ASSUME NEW w \in Workers,
             Exec!Polls(w) \/ Exec!PollNothing(w) \/ Exec!Sandbox(w) \/ Exec!Marks(w) \/ Exec!Commits(w)
      PROVE  UNCHANGED deadLetters
  BY <1>4 DEF Exec!Polls, Exec!PollMessages, Exec!PollNothing, Exec!brokerVars, Exec!Sandbox,
     Exec!Acquire, Exec!Grade, Exec!Marks, Exec!MarkCompleted, Exec!Commits, Exec!BrokerCommit,
     Exec!FinishCommit
<1>5. ASSUME NEW w \in Workers, Exec!Fails(w) \/ Exec!Calls(w) \/ Exec!CallsFail(w)
      PROVE  UNCHANGED deadLetters
  BY <1>5 DEF Exec!Fails, Exec!Crash, Exec!GradeRaises, Exec!PublishRaises, Exec!MarkRaises,
     Exec!CommitFails, Exec!Calls, Exec!CallbackReturns, Exec!CallsFail, Exec!CallbackRaises,
     Exec!CallbackRefused
<1>6. ASSUME \/ UNCHANGED Exec!vars \/ Exec!Rebalances
             \/ \E s \in Subs, p \in Partitions : Exec!Enqueue(s, p)
      PROVE  UNCHANGED deadLetters
  BY <1>6 DEF Exec!vars, Exec!brokerVars, Exec!Rebalances, Exec!Rebalance, Exec!Enqueue
<1> QED  BY <1>1, <1>3, <1>4, <1>5, <1>6 DEF Exec!Next, Exec!Works

LEMMA ReportsStep ==
    ASSUME PipelineAssumption, Exec!TypeOK, EP!TP!InLog, ReportsAreTrue, [Next]_vars
    PROVE  ReportsAreTrue'
<1>1. ASSUME NEW w \in Workers, NEW j \in jobs[w] PROVE Reported(j)'
  <2>1. Exec!MessageOf(j)' = Exec!MessageOf(j) /\ deadLetters \subseteq deadLetters'
    BY MessagesStay, DeadLettersStay
  <2>2. Reported(j)
    BY DEF ReportsAreTrue
  <2> QED  BY <2>1, <2>2 DEF Reported, Exec!PossibleVerdicts
<1>2. ASSUME NEW w \in Workers, NEW j \in jobs'[w], j \notin jobs[w] PROVE Reported(j)'
  <2>1. CASE ~Exec!InCallback(j)
    BY <2>1 DEF Exec!InCallback, Reported
  <2>2. CASE Exec!InCallback(j)
    <3>1. PICK i \in jobs[w] :
              /\ j.part = i.part /\ j.offset = i.offset
              /\ \/ /\ j.stage = "callback"
                    /\ j.verdict \in Exec!PossibleVerdicts(Exec!MessageOf(i).sub)
                 \/ /\ j.stage = "errorCallback"
                    /\ j.verdict = "SYSTEM_ERROR"
                    /\ Exec!MessageOf(i) \in deadLetters'
                    /\ Exec!MessageOf(i).attempt >= MaxAttempts
      BY <1>2, <2>2, CallbackJobs
    <3>2. Exec!MessageOf(i)' = Exec!MessageOf(i)
      BY MessagesStay
    <3>3. Exec!MessageOf(j)' = Exec!MessageOf(i)'
      BY <3>1 DEF Exec!MessageOf
    <3> QED  BY <3>1, <3>2, <3>3 DEF Reported, Exec!PossibleVerdicts
  <2> QED  BY <2>1, <2>2
<1> QED  BY <1>1, <1>2 DEF ReportsAreTrue

-----------------------------------------------------------------------------
(* What a step does to the rows and requests.                               *)

\* A request arrives, Django saves one that is waited for, ...
ArrivesFor(w, j) ==
    /\ Exec!InCallback(j)
    /\ Web!UpdateReads(CallerOf(w, j), Exec!MessageOf(j).sub, j.verdict)

AnswersTo(w, j, h) ==
    /\ Awaits(w, j, h)
    /\ Web!UpdateSaves(h)
    /\ answered' = answered \cup {Exec!MessageOf(j).sub}

\* ... or Django goes on with what no worker waits for.
OnDjango(s) ==
    \/ Web!CreateSaves(s) \/ Web!CreateDies(s) \/ Web!CreateRejected(s) \/ Web!CreateQueued(s)
    \/ Web!CreateQueuedInVain(s) \/ Web!CreateQueueFails(s) \/ Web!Delete(s)

LEMMA AnsweredStays ==
    ASSUME NEW w \in Workers, Exec!Works(w) \/ Exec!Fails(w) \/ Exec!CallsFail(w) \/ Exec!Rebalances
    PROVE  UNCHANGED answered
<1>1. CASE Exec!Works(w)
  <2>1. CASE Exec!Polls(w) \/ Exec!PollNothing(w)
    BY <2>1 DEF Exec!Polls, Exec!PollMessages, Exec!PollNothing
  <2>2. CASE Exec!Sandbox(w) \/ Exec!Republishes(w)
    BY <2>2 DEF Exec!Sandbox, Exec!Acquire, Exec!Grade, Exec!Republishes, Exec!PublishRetry,
       Exec!PublishDeadLetter
  <2>3. CASE Exec!Marks(w) \/ Exec!Commits(w)
    BY <2>3 DEF Exec!Marks, Exec!MarkCompleted, Exec!Commits, Exec!BrokerCommit, Exec!FinishCommit
  <2> QED  BY <1>1, <2>1, <2>2, <2>3 DEF Exec!Works
<1>2. CASE Exec!Fails(w)
  BY <1>2 DEF Exec!Fails, Exec!Crash, Exec!GradeRaises, Exec!PublishRaises, Exec!MarkRaises,
     Exec!CommitFails
<1>3. CASE Exec!CallsFail(w)
  BY <1>3 DEF Exec!CallsFail, Exec!CallbackRaises, Exec!CallbackRefused
<1>4. CASE Exec!Rebalances
  BY <1>4 DEF Exec!Rebalances, Exec!Rebalance
<1> QED  BY <1>1, <1>2, <1>3, <1>4

LEMMA WebStep ==
    ASSUME [Next]_vars
    PROVE  \/ UNCHANGED <<rows, creating, handlers, answered>>
           \/ UNCHANGED answered /\ \E s \in Subs : OnDjango(s)
           \/ UNCHANGED answered /\ \E h \in handlers : Web!UpdateSaves(h)
           \/ UNCHANGED answered /\ \E w \in Workers : \E j \in jobs[w] : ArrivesFor(w, j)
           \/ UNCHANGED answered /\ \E C : Web!Abandon(C)
           \/ \E w \in Workers : \E j \in jobs[w] : \E h \in handlers : AnswersTo(w, j, h)
<1>1. ASSUME NEW s \in Subs, Create(s) \/ Creates(s) \/ Reject(s) \/ CreateFails(s) \/ DeleteRow(s)
      PROVE  UNCHANGED answered /\ OnDjango(s)
  BY <1>1 DEF Create, Creates, Publish, Reject, CreateFails, WebFault, DeleteRow, OnDjango, execVars,
     Exec!Enqueue
<1>2. ASSUME NEW w \in Workers, NEW j \in jobs[w], NEW h \in handlers, PatchReturns(w, j, h)
      PROVE  AnswersTo(w, j, h)
  BY <1>2 DEF PatchReturns, AnswersTo, Exec!CallbackReturns
<1>3. ASSUME NEW w \in Workers, NEW j \in jobs[w], PatchArrives(w, j)
      PROVE  UNCHANGED answered /\ ArrivesFor(w, j)
  BY <1>3 DEF PatchArrives, ArrivesFor, execVars
<1>4. ASSUME NEW w \in Workers, NEW j \in jobs[w], PatchRefused(w, j)
      PROVE  UNCHANGED <<rows, creating, handlers, answered>>
  BY <1>4 DEF PatchRefused, webVars, Exec!CallbackRefused
<1>5. ASSUME NEW w \in Workers, NEW j \in jobs[w], PatchTryFails(w, j) \/ PatchRaises(w, j)
      PROVE  UNCHANGED answered /\ \E C : Web!Abandon(C)
  BY <1>5 DEF PatchTryFails, PatchRaises, WebFault, execVars, Exec!CallbackRaises
<1>6. ASSUME NEW w \in Workers, CrashWorker(w)
      PROVE  UNCHANGED answered /\ \E C : Web!Abandon(C)
  BY <1>6 DEF CrashWorker, Exec!Crash
<1>7. ASSUME NEW w \in Workers, WorkerFails(w) \/ ((Exec!Works(w) \/ Exec!Rebalances) /\ Elsewhere)
      PROVE  UNCHANGED <<rows, creating, handlers, answered>>
  BY <1>7, AnsweredStays DEF WorkerFails, Exec!Fails, Elsewhere, webVars
<1>8. ASSUME NEW h \in handlers, PatchSavesLate(h)
      PROVE  UNCHANGED answered /\ Web!UpdateSaves(h)
  BY <1>8 DEF PatchSavesLate, execVars
<1>9. CASE Exec!Rebalances /\ Elsewhere
  BY <1>9 DEF Exec!Rebalances, Exec!Rebalance, Elsewhere, webVars
<1>10. CASE UNCHANGED vars
  BY <1>10 DEF vars, execVars, webVars
<1> QED  BY <1>1, <1>2, <1>3, <1>4, <1>5, <1>6, <1>7, <1>8, <1>9, <1>10 DEF Next, Patches

-----------------------------------------------------------------------------
(* The inductive invariant.                                                 *)

\* A submission is queued when and only when its message was published.
PublishedIsQueued == \A s \in Subs : creating[s] = "queued" <=> IsPublished(s)

\* What a worker has answered Django has saved, and nothing sets it back to PENDING.
AnsweredIsSaved == \A s \in answered : IsPublished(s) /\ rows[s] # "PENDING"

\* The earlier attempts of a message are in the topic.
AttemptsInOrder ==
    \A m \in Exec!Messages : \A a \in 1..m.attempt : [sub |-> m.sub, attempt |-> a] \in Exec!Messages

\* What a row or a request says of a failing system has a cause.
HasCause(s) ==
    \/ "SYSTEM_ERROR" \in Exec!PossibleVerdicts(s)
    \/ creating[s] = "queueFailed"
    \/ /\ \E m \in deadLetters : m.sub = s
       /\ \A a \in 1..MaxAttempts : [sub |-> s, attempt |-> a] \in Exec!Messages

ErrorsHaveCause ==
    /\ \A s \in Subs : rows[s] = "SYSTEM_ERROR" => HasCause(s)
    /\ \A h \in handlers : h.verdict = "SYSTEM_ERROR" => HasCause(h.sub)

PipelineInv ==
    /\ TypeOK /\ EP!TP!InLog
    /\ ReportsAreTrue /\ HandlersHaveMessages /\ PublishedIsQueued /\ AnsweredIsSaved
    /\ AttemptsInOrder /\ ErrorsHaveCause

LEMMA PipelineInit == ASSUME PipelineAssumption, Init PROVE PipelineInv
<1>1. EP!Constants /\ EP!Init
  BY SameConstants, SameInit DEF Init
<1>2. EP!TypeOK /\ EP!TP!InLog
  BY <1>1, EP!TypeInit
<1>3. Exec!TypeOK
  BY <1>2, SameType
<1>4. /\ \A w \in Workers : jobs[w] = {}
      /\ Exec!Messages = {} /\ handlers = {} /\ answered = {}
      /\ \A s \in Subs : creating[s] = "new" /\ rows[s] = "absent"
  <2>1. contents = [p \in Partitions |-> <<>>] /\ jobs = [w \in Workers |-> {}] /\ answered = {}
    BY DEF Init, Exec!Init
  <2>2. \A p \in Partitions : DOMAIN contents[p] = {}
    BY <2>1
  <2>3. Exec!Messages = {}
    BY <2>2 DEF Exec!Messages
  <2> QED  BY <2>1, <2>3 DEF Init, Web!Init
<1>5. TypeOK
  BY <1>3, <1>4 DEF TypeOK, Init, Web!Init, Web!TypeOK, Web!Status, Web!Progress
<1>6. ReportsAreTrue /\ HandlersHaveMessages /\ PublishedIsQueued /\ AnsweredIsSaved
  BY <1>4 DEF ReportsAreTrue, HandlersHaveMessages, PublishedIsQueued, AnsweredIsSaved, IsPublished
<1>7. AttemptsInOrder /\ ErrorsHaveCause
  BY <1>4 DEF AttemptsInOrder, ErrorsHaveCause
<1> QED  BY <1>2, <1>5, <1>6, <1>7 DEF PipelineInv

LEMMA ExecTypeStep ==
    ASSUME PipelineAssumption, Exec!TypeOK, EP!TP!InLog, [Next]_vars
    PROVE  Exec!TypeOK' /\ EP!TP!InLog'
<1>1. EP!Constants /\ EP!TypeOK /\ [EP!Next]_EP!vars
  BY SameConstants, SameType, StepImplements
<1>2. EP!TypeOK' /\ EP!TP!InLog'
  BY <1>1, EP!TypeStep
<1>3. EP!TypeOK' => Exec!TypeOK'
  BY DEF Exec!TypeOK, EP!TypeOK, Exec!Message, EP!Message, Exec!Job, EP!Job, Exec!Verdict, EP!Verdict,
       Exec!TryStages, EP!TryStages, Exec!ExceptStages, EP!ExceptStages, Exec!TaskOf, EP!TaskOf,
       Exec!FirstOffset, EP!FirstOffset, Exec!Tracker!TypeOK, EP!Tracker!TypeOK,
       Exec!Tracker!NoOffset, EP!Tracker!NoOffset, Exec!Tracker!Task, EP!Tracker!Task,
       Exec!Tracker!Commit, EP!Tracker!Commit
<1> QED  BY <1>2, <1>3

\* What a job in a PATCH reports is a status, and of a submission.
LEMMA ReportType ==
    ASSUME PipelineInv, PipelineAssumption, NEW w \in Workers, NEW j \in jobs[w], Exec!InCallback(j)
    PROVE  /\ j.verdict \in Exec!Verdict
           /\ Exec!MessageOf(j).sub \in Subs
           /\ CallerOf(w, j) \in Caller
<1>1. Exec!MessageOf(j) \in Exec!Message /\ j \in Exec!Job
  BY JobMessage DEF PipelineInv, TypeOK
<1>2. Exec!MessageOf(j).sub \in Subs
  BY <1>1 DEF Exec!Message
<1>3. Exec!PossibleVerdicts(Exec!MessageOf(j).sub) \subseteq Exec!Verdict
  BY <1>2 DEF Exec!PossibleVerdicts, PipelineAssumption, Exec!ExecutorAssumption, Exec!Verdict
<1>4. j.verdict \in Exec!Verdict
  BY <1>3 DEF PipelineInv, ReportsAreTrue, Reported, Exec!InCallback, Exec!Verdict
<1>5. Exec!TaskOf(j) \in Exec!Tracker!Task
  BY <1>1 DEF Exec!TaskOf, Exec!Job, Exec!Tracker!Task
<1> QED  BY <1>2, <1>4, <1>5 DEF CallerOf, Caller

LEMMA WebTypeStep ==
    ASSUME PipelineInv, PipelineAssumption, [Next]_vars PROVE Web!TypeOK'
<1> USE DEF Web!TypeOK
<1>0. Web!TypeOK
  BY DEF PipelineInv, TypeOK
<1>1. CASE UNCHANGED <<rows, creating, handlers, answered>>
  BY <1>0, <1>1
<1>2. ASSUME NEW s \in Subs, OnDjango(s) PROVE Web!TypeOK'
  <2>1. UNCHANGED handlers
    BY <1>2 DEF OnDjango, Web!CreateSaves, Web!CreateDies, Web!CreateRejected, Web!CreateQueued,
       Web!CreateQueuedInVain, Web!CreateQueueFails, Web!Delete
  <2>2. UNCHANGED creating \/ \E c \in Web!Progress : creating' = [creating EXCEPT ![s] = c]
    BY <1>2 DEF OnDjango, Web!CreateSaves, Web!CreateDies, Web!CreateRejected, Web!CreateQueued,
       Web!CreateQueuedInVain, Web!CreateQueueFails, Web!Delete, Web!Progress
  <2>3. UNCHANGED rows \/ \E r \in Web!Status : rows' = [rows EXCEPT ![s] = r]
    <3>1. {"absent", "PENDING", "SYSTEM_ERROR"} \subseteq Web!Status
      BY DEF Web!Status, Exec!Verdict
    <3>2. CASE Web!CreateQueueFails(s)
      BY <1>0, <3>1, <3>2 DEF Web!CreateQueueFails
    <3>3. CASE ~Web!CreateQueueFails(s)
      BY <1>2, <3>1, <3>3 DEF OnDjango, Web!CreateSaves, Web!CreateDies, Web!CreateRejected,
         Web!CreateQueued, Web!CreateQueuedInVain, Web!Delete
    <3> QED  BY <3>2, <3>3
  <2> QED  BY <1>0, <2>1, <2>2, <2>3
<1>3. ASSUME NEW h \in handlers, Web!UpdateSaves(h) PROVE Web!TypeOK'
  <2>1. h.verdict \in Web!Status /\ h.sub \in Subs
    BY <1>0 DEF Web!Handler, Web!Status
  <2> QED  BY <1>0, <1>3, <2>1 DEF Web!UpdateSaves
<1>4. ASSUME NEW w \in Workers, NEW j \in jobs[w], ArrivesFor(w, j) PROVE Web!TypeOK'
  <2> DEFINE h == [caller |-> CallerOf(w, j), sub |-> Exec!MessageOf(j).sub, verdict |-> j.verdict,
                   awaited |-> TRUE]
  <2>1. h \in Web!Handler
    BY <1>4, ReportType DEF ArrivesFor, Web!Handler
  <2>2. handlers' = handlers \cup {h} /\ UNCHANGED <<rows, creating>>
    BY <1>4 DEF ArrivesFor, Web!UpdateReads
  <2> QED  BY <1>0, <2>1, <2>2
<1>5. ASSUME NEW C, Web!Abandon(C) PROVE Web!TypeOK'
  BY <1>0, <1>5 DEF Web!Abandon, Web!Handler
<1>6. ASSUME NEW w \in Workers, NEW j \in jobs[w], NEW h \in handlers, AnswersTo(w, j, h)
      PROVE  Web!TypeOK'
  BY <1>3, <1>6 DEF AnswersTo
<1> QED  BY <1>1, <1>2, <1>3, <1>4, <1>5, <1>6, WebStep

\* A request that was there, or is one of a job.
LEMMA HandlersStep ==
    ASSUME [Next]_vars, NEW g \in handlers'
    PROVE  \/ \E h \in handlers : g.caller = h.caller /\ g.sub = h.sub /\ g.verdict = h.verdict
           \/ \E w \in Workers : \E j \in jobs[w] :
                 /\ Exec!InCallback(j)
                 /\ g.caller = CallerOf(w, j) /\ g.sub = Exec!MessageOf(j).sub /\ g.verdict = j.verdict
<1>1. CASE handlers' \subseteq handlers
  BY <1>1
<1>2. ASSUME NEW s \in Subs, OnDjango(s) PROVE handlers' \subseteq handlers
  BY <1>2 DEF OnDjango, Web!CreateSaves, Web!CreateDies, Web!CreateRejected, Web!CreateQueued,
     Web!CreateQueuedInVain, Web!CreateQueueFails, Web!Delete
<1>3. ASSUME NEW h \in handlers, Web!UpdateSaves(h) PROVE handlers' \subseteq handlers
  BY <1>3 DEF Web!UpdateSaves
<1>4. ASSUME NEW C, Web!Abandon(C)
      PROVE  \E h \in handlers : g.caller = h.caller /\ g.sub = h.sub /\ g.verdict = h.verdict
  <2>1. PICK h \in handlers : g = IF h.caller \in C THEN [h EXCEPT !.awaited = FALSE] ELSE h
    BY <1>4 DEF Web!Abandon
  <2> QED  BY <2>1
<1>5. ASSUME NEW w \in Workers, NEW j \in jobs[w], ArrivesFor(w, j)
      PROVE  \/ g \in handlers
             \/ /\ Exec!InCallback(j)
                /\ g.caller = CallerOf(w, j) /\ g.sub = Exec!MessageOf(j).sub /\ g.verdict = j.verdict
  BY <1>5 DEF ArrivesFor, Web!UpdateReads
<1> QED  BY <1>1, <1>2, <1>3, <1>4, <1>5, WebStep DEF AnswersTo

LEMMA HandlersHaveMessagesStep ==
    ASSUME PipelineInv, PipelineAssumption, [Next]_vars PROVE HandlersHaveMessages'
<1> DEFINE K(h) == h.caller.task.offset - Exec!FirstOffset(h.caller.task.part) + 1
<1>1. \A p \in Partitions : \A i \in DOMAIN contents[p] :
         i \in DOMAIN contents'[p] /\ contents'[p][i] = contents[p][i]
  BY MessagesStay DEF PipelineInv, TypeOK
<1>2. ASSUME NEW h \in handlers
      PROVE  /\ K(h) \in DOMAIN contents'[h.caller.task.part]
             /\ contents'[h.caller.task.part][K(h)].sub = h.sub
  <2>1. h.caller.task.part \in Partitions
    BY DEF PipelineInv, TypeOK, Web!TypeOK, Web!Handler, Caller, Exec!Tracker!Task
  <2>2. /\ K(h) \in DOMAIN contents[h.caller.task.part]
        /\ contents[h.caller.task.part][K(h)].sub = h.sub
    BY DEF PipelineInv, HandlersHaveMessages
  <2> HIDE DEF K
  <2> QED  BY <1>1, <2>1, <2>2
<1>3. ASSUME NEW w \in Workers, NEW j \in jobs[w], NEW g,
             g.caller = CallerOf(w, j), g.sub = Exec!MessageOf(j).sub
      PROVE  /\ K(g) \in DOMAIN contents'[g.caller.task.part]
             /\ contents'[g.caller.task.part][K(g)].sub = g.sub
  <2>1. g.caller.task.part = j.part /\ g.caller.task.offset = j.offset
    BY <1>3 DEF CallerOf, Exec!TaskOf
  <2>2. /\ j.part \in Partitions
        /\ K(g) \in DOMAIN contents[j.part]
        /\ Exec!MessageOf(j) = contents[j.part][K(g)]
    BY <2>1, JobMessage DEF PipelineInv, TypeOK
  <2> HIDE DEF K
  <2> QED  BY <1>1, <1>3, <2>1, <2>2
<1>4. ASSUME NEW g \in handlers'
      PROVE  /\ K(g) \in DOMAIN contents'[g.caller.task.part]
             /\ contents'[g.caller.task.part][K(g)].sub = g.sub
  <2>1. CASE \E h \in handlers : g.caller = h.caller /\ g.sub = h.sub
    BY <1>2, <2>1
  <2>2. CASE \E w \in Workers : \E j \in jobs[w] :
                g.caller = CallerOf(w, j) /\ g.sub = Exec!MessageOf(j).sub
    BY <1>3, <2>2
  <2> QED  BY <1>4, <2>1, <2>2, HandlersStep
<1>5. \A p : Exec!FirstOffset(p)' = Exec!FirstOffset(p)
  BY DEF Exec!FirstOffset
<1> QED  BY <1>4, <1>5 DEF HandlersHaveMessages

LEMMA PublishedStep ==
    ASSUME PipelineInv, PipelineAssumption, [Next]_vars PROVE PublishedIsQueued'
<1>1. PublishedIsQueued /\ Web!TypeOK
  BY DEF PipelineInv, TypeOK
<1>2. ASSUME NEW s \in Subs, NEW p \in Partitions, Publish(s, p),
             Exec!Messages' = Exec!Messages \cup {[sub |-> s, attempt |-> 1]}
      PROVE  PublishedIsQueued'
  <2>1. creating' = [creating EXCEPT ![s] = "queued"]
    BY <1>2 DEF Publish, Web!CreateQueued
  <2>2. ASSUME NEW t \in Subs PROVE IsPublished(t)' <=> IsPublished(t) \/ t = s
    <3>1. [sub |-> s, attempt |-> 1].sub = s
      OBVIOUS
    <3> DEFINE m == [sub |-> s, attempt |-> 1]
    <3>2. Exec!Messages' = Exec!Messages \cup {m} /\ m.sub = s
      BY <1>2, <3>1
    <3> HIDE DEF m
    <3> QED  BY <3>2 DEF IsPublished
  <2> QED  BY <1>1, <2>1, <2>2 DEF PublishedIsQueued, Web!TypeOK
<1>3. ASSUME \A s \in Subs : creating'[s] = "queued" <=> creating[s] = "queued",
             \/ Exec!Messages' = Exec!Messages
             \/ \E m \in Exec!Messages :
                   Exec!Messages' = Exec!Messages \cup {[m EXCEPT !.attempt = @ + 1]}
      PROVE  PublishedIsQueued'
  <2>1. ASSUME NEW m \in Exec!Messages PROVE [m EXCEPT !.attempt = @ + 1].sub = m.sub
    <3>1. m \in Exec!Message
      BY DEF PipelineInv, TypeOK, Exec!TypeOK, Exec!Messages
    <3> QED  BY <3>1 DEF Exec!Message
  <2>2. ASSUME NEW s \in Subs PROVE IsPublished(s)' <=> IsPublished(s)
    <3>1. CASE Exec!Messages' = Exec!Messages
      BY <3>1 DEF IsPublished
    <3>2. ASSUME NEW m \in Exec!Messages, NEW n, n = [m EXCEPT !.attempt = @ + 1],
                 Exec!Messages' = Exec!Messages \cup {n}
          PROVE  IsPublished(s)' <=> IsPublished(s)
      <4>1. n.sub = m.sub
        BY <2>1, <3>2
      <4> QED  BY <3>2, <4>1 DEF IsPublished
    <3> QED  BY <1>3, <3>1, <3>2
  <2> QED  BY <1>1, <1>3, <2>2 DEF PublishedIsQueued
<1> QED  BY <1>2, <1>3, MessagesStep DEF PipelineInv, TypeOK

\* Only a new row is PENDING.
LEMMA PendingIsNew ==
    ASSUME PipelineInv, PipelineAssumption, [Next]_vars, NEW s \in Subs, rows[s] # "PENDING"
    PROVE  rows'[s] # "PENDING" \/ creating[s] = "new"
<1>0. Web!TypeOK
  BY DEF PipelineInv, TypeOK
<1>1. ASSUME NEW t \in Subs, OnDjango(t) PROVE rows'[s] # "PENDING" \/ creating[s] = "new"
  BY <1>0, <1>1 DEF OnDjango, Web!CreateSaves, Web!CreateDies, Web!CreateRejected, Web!CreateQueued,
     Web!CreateQueuedInVain, Web!CreateQueueFails, Web!Delete, Web!TypeOK
<1>2. ASSUME NEW h \in handlers, Web!UpdateSaves(h) PROVE rows'[s] # "PENDING"
  BY <1>0, <1>2 DEF Web!UpdateSaves, Web!TypeOK, Web!Handler, Exec!Verdict
<1>3. CASE UNCHANGED rows
  BY <1>3
<1> QED  BY <1>1, <1>2, <1>3, WebStep DEF AnswersTo, ArrivesFor, Web!UpdateReads, Web!Abandon

LEMMA AnsweredStep ==
    ASSUME PipelineInv, PipelineAssumption, [Next]_vars PROVE AnsweredIsSaved'
<1>0. Exec!Messages \subseteq Exec!Messages'
  BY MessagesStay DEF PipelineInv, TypeOK
<1>1. ASSUME NEW s \in answered PROVE IsPublished(s)' /\ rows'[s] # "PENDING"
  <2>1. s \in Subs /\ IsPublished(s) /\ rows[s] # "PENDING"
    BY DEF PipelineInv, AnsweredIsSaved, TypeOK, Exec!TypeOK
  <2>2. creating[s] = "queued"
    BY <2>1 DEF PipelineInv, PublishedIsQueued
  <2> QED  BY <1>0, <2>1, <2>2, PendingIsNew DEF IsPublished
<1>2. ASSUME NEW w \in Workers, NEW j \in jobs[w], NEW h \in handlers, AnswersTo(w, j, h)
      PROVE  /\ \E m \in Exec!Messages' : m.sub = Exec!MessageOf(j).sub
             /\ rows'[Exec!MessageOf(j).sub] # "PENDING"
  <2>1. Exec!MessageOf(j) \in Exec!Messages /\ Exec!MessageOf(j) \in Exec!Message
    BY JobMessage DEF PipelineInv, TypeOK
  <2>2. h.caller.task.part = j.part /\ h.caller.task.offset = j.offset
    BY <1>2 DEF AnswersTo, Awaits, CallerOf, Exec!TaskOf
  <2>3. h.sub = Exec!MessageOf(j).sub
    BY <2>2 DEF PipelineInv, HandlersHaveMessages, Exec!MessageOf, Exec!MessageAt
  <2>4. h \in Web!Handler /\ rows \in [Subs -> Web!Status]
    BY DEF PipelineInv, TypeOK, Web!TypeOK
  <2>5. rows'[h.sub] = h.verdict /\ h.verdict # "PENDING"
    BY <1>2, <2>4 DEF AnswersTo, Web!UpdateSaves, Web!Handler, Exec!Verdict
  <2> QED  BY <1>0, <2>1, <2>3, <2>5
<1>3. \/ UNCHANGED answered
      \/ \E w \in Workers : \E j \in jobs[w] : \E h \in handlers : AnswersTo(w, j, h)
  BY WebStep
<1> QED  BY <1>1, <1>2, <1>3 DEF AnsweredIsSaved, AnswersTo, IsPublished

LEMMA AttemptsStep ==
    ASSUME PipelineInv, PipelineAssumption, [Next]_vars PROVE AttemptsInOrder'
<1>1. AttemptsInOrder /\ Exec!Messages \subseteq Exec!Message
  BY DEF PipelineInv, TypeOK, Exec!TypeOK, Exec!Messages
<1>2. ASSUME NEW n, Exec!Messages' = Exec!Messages \cup {n},
             \A a \in 1..n.attempt : a = n.attempt \/ [sub |-> n.sub, attempt |-> a] \in Exec!Messages,
             n = [sub |-> n.sub, attempt |-> n.attempt]
      PROVE  AttemptsInOrder'
  <2>1. ASSUME NEW m \in Exec!Messages, NEW a \in 1..m.attempt
        PROVE  [sub |-> m.sub, attempt |-> a] \in Exec!Messages'
    BY <1>1, <1>2 DEF AttemptsInOrder
  <2>2. ASSUME NEW a \in 1..n.attempt PROVE [sub |-> n.sub, attempt |-> a] \in Exec!Messages'
    BY <1>2
  <2> QED  BY <1>2, <2>1, <2>2 DEF AttemptsInOrder
<1>3. CASE Exec!Messages' = Exec!Messages
  BY <1>1, <1>3 DEF AttemptsInOrder
<1>4. ASSUME NEW s \in Subs, Exec!Messages' = Exec!Messages \cup {[sub |-> s, attempt |-> 1]}
      PROVE  AttemptsInOrder'
  <2> DEFINE n == [sub |-> s, attempt |-> 1]
  <2>1. n.sub = s /\ n.attempt = 1 /\ n = [sub |-> n.sub, attempt |-> n.attempt]
    OBVIOUS
  <2>2. \A a \in 1..n.attempt : a = n.attempt
    BY <2>1
  <2>3. Exec!Messages' = Exec!Messages \cup {n}
    BY <1>4
  <2> HIDE DEF n
  <2> QED  BY <1>2, <2>1, <2>2, <2>3
<1>5. ASSUME NEW m \in Exec!Messages, Exec!Messages' = Exec!Messages \cup {[m EXCEPT !.attempt = @ + 1]}
      PROVE  AttemptsInOrder'
  <2>1. m = [sub |-> m.sub, attempt |-> m.attempt] /\ m.attempt \in Nat
    BY <1>1 DEF Exec!Message
  <2>2. \A a \in 1..(m.attempt + 1) : a = m.attempt + 1 \/ a \in 1..m.attempt
    BY <2>1
  <2>3. \A a \in 1..m.attempt : [sub |-> m.sub, attempt |-> a] \in Exec!Messages
    BY <1>1 DEF AttemptsInOrder
  <2>4. [m EXCEPT !.attempt = @ + 1] = [sub |-> m.sub, attempt |-> m.attempt + 1]
    BY <2>1
  <2> QED  BY <1>2, <1>5, <2>2, <2>3, <2>4
<1> QED  BY <1>3, <1>4, <1>5, MessagesStep DEF PipelineInv, TypeOK

\* A cause remains one.
LEMMA CauseStays ==
    ASSUME PipelineInv, PipelineAssumption, [Next]_vars, NEW s \in Subs, HasCause(s)
    PROVE  HasCause(s)'
<1>1. Exec!Messages \subseteq Exec!Messages' /\ deadLetters \subseteq deadLetters'
  BY MessagesStay, DeadLettersStay DEF PipelineInv, TypeOK
<1>2. creating[s] = "queueFailed" => creating'[s] = "queueFailed"
  <2>1. ASSUME NEW t \in Subs, OnDjango(t), creating[s] = "queueFailed" PROVE creating'[s] = "queueFailed"
    BY <2>1 DEF OnDjango, Web!CreateSaves, Web!CreateDies, Web!CreateRejected, Web!CreateQueued,
       Web!CreateQueuedInVain, Web!CreateQueueFails, Web!Delete, PipelineInv, TypeOK, Web!TypeOK
  <2>2. CASE UNCHANGED creating
    BY <2>2
  <2> QED
    BY <2>1, <2>2, WebStep DEF AnswersTo, ArrivesFor, Web!UpdateReads, Web!UpdateSaves, Web!Abandon
<1> QED  BY <1>1, <1>2 DEF HasCause, Exec!PossibleVerdicts

\* What a job in a PATCH reports of a failing system has a cause.
LEMMA ReportHasCause ==
    ASSUME PipelineInv, PipelineAssumption, NEW w \in Workers, NEW j \in jobs[w], Exec!InCallback(j),
           j.verdict = "SYSTEM_ERROR"
    PROVE  HasCause(Exec!MessageOf(j).sub)
<1>1. Reported(j) /\ AttemptsInOrder
  BY DEF PipelineInv, ReportsAreTrue
<1>2. CASE j.stage = "callback"
  BY <1>1, <1>2 DEF Reported, HasCause
<1>3. CASE j.stage = "errorCallback"
  <2>1. Exec!MessageOf(j) \in Exec!Messages /\ Exec!MessageOf(j) \in Exec!Message
    BY JobMessage DEF PipelineInv, TypeOK
  <2>2. Exec!MessageOf(j) \in deadLetters /\ Exec!MessageOf(j).attempt >= MaxAttempts
    BY <1>1, <1>3 DEF Reported
  <2>3. Exec!MessageOf(j).attempt = MaxAttempts
    BY <2>1, <2>2 DEF Exec!Message, PipelineAssumption, Exec!ExecutorAssumption
  <2> QED  BY <1>1, <2>1, <2>2, <2>3 DEF AttemptsInOrder, HasCause
<1> QED  BY <1>2, <1>3 DEF Exec!InCallback

LEMMA ErrorsStep ==
    ASSUME PipelineInv, PipelineAssumption, [Next]_vars PROVE ErrorsHaveCause'
<1>1. Web!TypeOK /\ ErrorsHaveCause
  BY DEF PipelineInv, TypeOK
<1>2. ASSUME NEW s \in Subs, rows'[s] = "SYSTEM_ERROR"
      PROVE  \/ rows[s] = "SYSTEM_ERROR"
             \/ creating'[s] = "queueFailed"
             \/ \E h \in handlers : h.sub = s /\ h.verdict = "SYSTEM_ERROR"
  <2>1. ASSUME NEW t \in Subs, OnDjango(t)
        PROVE  rows[s] = "SYSTEM_ERROR" \/ creating'[s] = "queueFailed"
    BY <1>1, <1>2, <2>1 DEF OnDjango, Web!CreateSaves, Web!CreateDies, Web!CreateRejected,
       Web!CreateQueued, Web!CreateQueuedInVain, Web!CreateQueueFails, Web!Delete, Web!TypeOK
  <2>2. ASSUME NEW h \in handlers, Web!UpdateSaves(h)
        PROVE  rows[s] = "SYSTEM_ERROR" \/ (h.sub = s /\ h.verdict = "SYSTEM_ERROR")
    BY <1>1, <1>2, <2>2 DEF Web!UpdateSaves, Web!TypeOK, Web!Handler
  <2>3. CASE UNCHANGED rows
    BY <1>2, <2>3
  <2> QED  BY <2>1, <2>2, <2>3, WebStep DEF AnswersTo, ArrivesFor, Web!UpdateReads, Web!Abandon
<1>3. ASSUME NEW h \in handlers, h.verdict = "SYSTEM_ERROR" PROVE h.sub \in Subs /\ HasCause(h.sub)'
  <2>1. h.sub \in Subs /\ HasCause(h.sub)
    BY <1>1, <1>3 DEF ErrorsHaveCause, Web!TypeOK, Web!Handler
  <2> QED  BY <2>1, CauseStays
<1>4. ASSUME NEW s \in Subs, rows'[s] = "SYSTEM_ERROR" PROVE HasCause(s)'
  <2>1. CASE rows[s] = "SYSTEM_ERROR"
    BY <1>1, <2>1, CauseStays DEF ErrorsHaveCause
  <2>2. CASE creating'[s] = "queueFailed"
    BY <2>2 DEF HasCause
  <2> QED  BY <1>2, <1>3, <1>4, <2>1, <2>2
<1>5. ASSUME NEW w \in Workers, NEW j \in jobs[w], Exec!InCallback(j), j.verdict = "SYSTEM_ERROR",
             NEW s, s = Exec!MessageOf(j).sub
      PROVE  HasCause(s)'
  <2>1. s \in Subs /\ HasCause(s)
    BY <1>5, ReportType, ReportHasCause
  <2> QED  BY <2>1, CauseStays
<1>6. ASSUME NEW g \in handlers', g.verdict = "SYSTEM_ERROR" PROVE HasCause(g.sub)'
  BY <1>3, <1>5, <1>6, HandlersStep
<1> QED  BY <1>4, <1>6 DEF ErrorsHaveCause

LEMMA PipelineStep ==
    ASSUME PipelineInv, PipelineAssumption, [Next]_vars PROVE PipelineInv'
<1>1. Exec!TypeOK' /\ EP!TP!InLog' /\ Web!TypeOK'
  BY ExecTypeStep, WebTypeStep DEF PipelineInv, TypeOK
<1>2. deleted' \subseteq Subs /\ webFaults' \in Nat
  <2>1. deleted \subseteq Subs /\ webFaults \in Nat
    BY DEF PipelineInv, TypeOK
  <2>2. \/ deleted' = deleted
        \/ \E s \in Subs : deleted' = deleted \cup {s}
    BY DEF Next, vars, Create, Creates, Publish, Reject, CreateFails, WebFault, DeleteRow, PatchSavesLate,
       Patches, PatchArrives, PatchRefused, PatchReturns, PatchTryFails, PatchRaises, Elsewhere,
       WorkerFails, CrashWorker
  <2>3. webFaults' = webFaults \/ webFaults' = webFaults + 1
    BY DEF Next, vars, Create, Creates, Publish, Reject, CreateFails, WebFault, DeleteRow, PatchSavesLate,
       Patches, PatchArrives, PatchRefused, PatchReturns, PatchTryFails, PatchRaises, Elsewhere,
       WorkerFails, CrashWorker
  <2> QED  BY <2>1, <2>2, <2>3
<1>3. ReportsAreTrue'
  BY ReportsStep DEF PipelineInv, TypeOK
<1> QED
  BY <1>1, <1>2, <1>3, HandlersHaveMessagesStep, PublishedStep, AnsweredStep, AttemptsStep, ErrorsStep
     DEF PipelineInv, TypeOK

\* All of it holds of every behaviour of the pipeline.
LEMMA PipelineInvariant == Spec => []PipelineInv
<1> SUFFICES ASSUME PipelineAssumption PROVE Spec => []PipelineInv
  BY PipelineAssumption
<1>1. Init => PipelineInv
  BY PipelineInit
<1>2. PipelineInv /\ [Next]_vars => PipelineInv'
  BY PipelineStep
<1> QED  BY <1>1, <1>2, PTL DEF Spec

\* The state is well typed.
THEOREM TypeCorrect == Spec => []TypeOK
<1> SUFFICES ASSUME PipelineAssumption PROVE Spec => []TypeOK
  BY PipelineAssumption
<1>1. PipelineInv => TypeOK
  BY DEF PipelineInv
<1> QED  BY <1>1, PipelineInvariant, PTL

\* A SYSTEM_ERROR is one the sandbox or the route spoke, one of a queue that was down, or
\* one of a message that was dead-lettered after each of its attempts.
THEOREM ErrorsAreReal == Spec => []SystemErrorHasCause
<1> SUFFICES ASSUME PipelineAssumption PROVE Spec => []SystemErrorHasCause
  BY PipelineAssumption
<1>1. PipelineInv => SystemErrorHasCause
  BY DEF PipelineInv, ErrorsHaveCause, HasCause, SystemErrorHasCause
<1> QED  BY <1>1, PipelineInvariant, PTL

\* A queued row that is PENDING has a message that a restart of the workers delivers.
THEOREM PendingIsNotCutOff ==
    KnownStart => (Spec => []PendingIsRecoverable)
<1> SUFFICES ASSUME PipelineAssumption, KnownStart PROVE Spec => []PendingIsRecoverable
  BY PipelineAssumption
<1>1. PipelineInv /\ NoSubmissionLost => PendingIsRecoverable
  <2> SUFFICES ASSUME PipelineInv, NoSubmissionLost,
                      NEW s \in Subs, creating[s] = "queued", rows[s] = "PENDING"
               PROVE  Redeliverable(s)
    BY DEF PendingIsRecoverable
  <2>1. PICK m \in Exec!Messages : m.sub = s
    BY DEF PipelineInv, PublishedIsQueued, IsPublished
  <2>2. s \notin answered
    BY DEF PipelineInv, AnsweredIsSaved
  <2> QED  BY <2>1, <2>2 DEF NoSubmissionLost, Exec!NoSubmissionLost, Redeliverable
<1> QED  BY <1>1, PipelineInvariant, PublishedIsNotLost, PTL

-----------------------------------------------------------------------------
(* A verdict is final: as long as fewer things go wrong than a message has   *)
(* attempts, no job reports anything but what the sandbox says.             *)

\* The sandbox says one thing of a submission: grading is deterministic.
IsDecided == \A s \in Subs : \A u, v \in Exec!PossibleVerdicts(s) : u = v

\* Fewer faults and refusals happen than a message has attempts.
FewFaults == MaxFaults + MaxRefusals < MaxAttempts

RequestsAreTrue == \A h \in handlers : h.verdict \in Exec!PossibleVerdicts(h.sub)

PassedIsTrue ==
    \A s \in Subs : rows[s] = "PASSED" =>
        "PASSED" \in Exec!PossibleVerdicts(s) /\ creating[s] = "queued"

VerdictInv == RequestsAreTrue /\ PassedIsTrue

\* No message is dead-lettered.
LEMMA NoErrorReports ==
    ASSUME PipelineAssumption, FewFaults, PipelineInv, EP!FaultsPaid,
           NEW w \in Workers, NEW j \in jobs[w]
    PROVE  j.stage # "errorCallback"
<1> SUFFICES ASSUME j.stage = "errorCallback" PROVE FALSE
  OBVIOUS
<1>1. Exec!MessageOf(j) \in Exec!Message
  BY JobMessage DEF PipelineInv, TypeOK
<1>2. Exec!MessageOf(j).attempt >= MaxAttempts
  BY DEF PipelineInv, ReportsAreTrue, Reported
<1>3. Exec!MessageOf(j).attempt <= faults /\ faults <= MaxFaults + MaxRefusals
  BY SameMessages DEF EP!FaultsPaid, EP!ExceptStages
<1>4. Exec!MessageOf(j).attempt \in Nat /\ faults \in Nat /\ MaxAttempts \in Nat /\ MaxFaults + MaxRefusals \in Nat
  BY <1>1 DEF Exec!Message, PipelineInv, TypeOK, Exec!TypeOK, Exec!Tracker!TypeOK, PipelineAssumption,
     Exec!ExecutorAssumption, Exec!Tracker!TrackerAssumption
<1> QED  BY <1>2, <1>3, <1>4 DEF FewFaults

LEMMA RequestsStep ==
    ASSUME PipelineAssumption, FewFaults, PipelineInv, EP!FaultsPaid, VerdictInv, [Next]_vars
    PROVE  RequestsAreTrue'
<1>1. ASSUME NEW h \in handlers PROVE h.verdict \in Exec!PossibleVerdicts(h.sub)
  BY DEF VerdictInv, RequestsAreTrue
<1>2. ASSUME NEW w \in Workers, NEW j \in jobs[w], Exec!InCallback(j)
      PROVE  j.verdict \in Exec!PossibleVerdicts(Exec!MessageOf(j).sub)
  BY <1>2, NoErrorReports DEF PipelineInv, ReportsAreTrue, Reported, Exec!InCallback
<1>3. \A s : Exec!PossibleVerdicts(s)' = Exec!PossibleVerdicts(s)
  BY DEF Exec!PossibleVerdicts
<1>4. ASSUME NEW g \in handlers' PROVE g.verdict \in Exec!PossibleVerdicts(g.sub)
  BY <1>1, <1>2, HandlersStep
<1> QED  BY <1>3, <1>4 DEF RequestsAreTrue

\* The submission of a request is queued.
LEMMA RequestIsOfQueued ==
    ASSUME PipelineInv, NEW h \in handlers PROVE h.sub \in Subs /\ creating[h.sub] = "queued"
<1>1. h.sub \in Subs /\ h.caller.task.part \in Partitions
  BY DEF PipelineInv, TypeOK, Web!TypeOK, Web!Handler, Caller, Exec!Tracker!Task
<1>2. IsPublished(h.sub)
  BY <1>1 DEF PipelineInv, HandlersHaveMessages, IsPublished, Exec!Messages
<1> QED  BY <1>1, <1>2 DEF PipelineInv, PublishedIsQueued

\* What becomes of a row: Django goes on with a create request, deletes the row, or saves
\* what a request reports.
LEMMA RowsStep ==
    ASSUME PipelineInv, [Next]_vars, NEW s \in Subs, rows'[s] # rows[s]
    PROVE  \/ OnDjango(s)
           \/ \E h \in handlers : h.sub = s /\ rows'[s] = h.verdict /\ UNCHANGED creating
<1>1. Web!TypeOK
  BY DEF PipelineInv, TypeOK
<1>2. ASSUME NEW t \in Subs, OnDjango(t) PROVE t = s
  BY <1>1, <1>2 DEF OnDjango, Web!CreateSaves, Web!CreateDies, Web!CreateRejected, Web!CreateQueued,
     Web!CreateQueuedInVain, Web!CreateQueueFails, Web!Delete, Web!TypeOK
<1>3. ASSUME NEW h \in handlers, Web!UpdateSaves(h)
      PROVE  h.sub = s /\ rows'[s] = h.verdict /\ UNCHANGED creating
  BY <1>1, <1>3 DEF Web!UpdateSaves, Web!TypeOK, Web!Handler
<1>4. ~UNCHANGED rows
  OBVIOUS
<1> QED  BY <1>2, <1>3, <1>4, WebStep DEF AnswersTo, ArrivesFor, Web!UpdateReads, Web!Abandon

LEMMA PassedStep ==
    ASSUME PipelineAssumption, FewFaults, PipelineInv, VerdictInv, [Next]_vars
    PROVE  PassedIsTrue'
<1> SUFFICES ASSUME NEW s \in Subs, rows'[s] = "PASSED"
             PROVE  "PASSED" \in Exec!PossibleVerdicts(s) /\ creating'[s] = "queued"
  BY DEF PassedIsTrue, Exec!PossibleVerdicts
<1>1. Web!TypeOK
  BY DEF PipelineInv, TypeOK
<1>2. creating[s] = "queued" => creating'[s] = "queued"
  BY MessagesStep, <1>1 DEF PipelineInv, TypeOK, Publish, Web!CreateQueued, Web!TypeOK
<1>3. CASE rows[s] = "PASSED"
  BY <1>2, <1>3 DEF VerdictInv, PassedIsTrue
<1>4. CASE OnDjango(s) /\ rows[s] # "PASSED"
  BY <1>1, <1>4 DEF OnDjango, Web!CreateSaves, Web!CreateDies, Web!CreateRejected, Web!CreateQueued,
     Web!CreateQueuedInVain, Web!CreateQueueFails, Web!Delete, Web!TypeOK
<1>5. ASSUME NEW h \in handlers, h.sub = s, rows'[s] = h.verdict
      PROVE  "PASSED" \in Exec!PossibleVerdicts(s) /\ creating'[s] = "queued"
  BY <1>2, <1>5, RequestIsOfQueued DEF VerdictInv, RequestsAreTrue
<1> QED  BY <1>3, <1>4, <1>5, RowsStep

LEMMA FinalStep ==
    ASSUME PipelineAssumption, IsDecided, PipelineInv, VerdictInv, [Next]_vars,
           NEW s \in Subs, rows[s] = "PASSED"
    PROVE  rows'[s] \in {"PASSED", "absent"}
<1>1. Web!TypeOK /\ "PASSED" \in Exec!PossibleVerdicts(s) /\ creating[s] = "queued"
  BY DEF PipelineInv, TypeOK, VerdictInv, PassedIsTrue
<1>2. CASE OnDjango(s)
  BY <1>1, <1>2 DEF OnDjango, Web!CreateSaves, Web!CreateDies, Web!CreateRejected, Web!CreateQueued,
     Web!CreateQueuedInVain, Web!CreateQueueFails, Web!Delete, Web!TypeOK
<1>3. ASSUME NEW h \in handlers, h.sub = s, rows'[s] = h.verdict PROVE rows'[s] = "PASSED"
  BY <1>1, <1>3 DEF VerdictInv, RequestsAreTrue, IsDecided
<1> QED  BY <1>2, <1>3, RowsStep

\* A PASSED that was written back stays, whatever is redelivered, retried, crashes or
\* times out, as long as fewer things go wrong than a message has delivery attempts.
THEOREM PassedIsFinal ==
    IsDecided /\ FewFaults => (Spec => VerdictIsFinal)
<1> SUFFICES ASSUME PipelineAssumption, IsDecided, FewFaults PROVE Spec => VerdictIsFinal
  BY PipelineAssumption
<1>1. Init => VerdictInv
  BY DEF Init, Web!Init, VerdictInv, RequestsAreTrue, PassedIsTrue
<1>2. PipelineInv /\ EP!FaultsPaid /\ VerdictInv /\ [Next]_vars => VerdictInv'
  BY RequestsStep, PassedStep DEF VerdictInv
<1>3. EP!Spec => []EP!FaultsPaid
  BY SameConstants, EP!AttemptsCostFaults
<1>4. PipelineInv /\ VerdictInv /\ [Next]_vars
         => [\A s \in Subs : rows[s] = "PASSED" => rows'[s] \in {"PASSED", "absent"}]_rows
  BY FinalStep
<1> QED  BY <1>1, <1>2, <1>3, <1>4, Implements, PipelineInvariant, PTL DEF Spec, VerdictIsFinal
=============================================================================
