-------------------------- MODULE JudgingPipeline --------------------------
(***************************************************************************)
(* A submission's way through the system: Django saves and publishes it     *)
(* (Submissions), a worker grades it and PATCHes its verdict (Executor), a  *)
(* PATCH is an update request Django handles at its own pace.               *)
(*                                                                          *)
(* The state is that of the two components; a step is a step of one, or the *)
(* two sides of one call or one message.                                    *)
(***************************************************************************)
EXTENDS Integers, Sequences, FiniteSets

CONSTANTS
    Workers, Partitions, InitCommitted, NoWorker, Subs, Outcomes, Misrouted,
    MaxConcurrent, MaxAttempts, MaxOffset, MaxGeneration, MaxFaults, MaxRefusals,
    MaxWebFaults,   \* bound: failures of create requests, and replies that are late
    Deletable       \* submissions whose row may be deleted, once

VARIABLES
    contents, deadLetters, committed, owner, position, generation,
    nextCommitOffsets, completedOffsets, committing, settled, faults,
    jobs, isPaused, paused, refusals, answered,     \* Executor
    rows, creating, handlers,                       \* Submissions
    deleted,        \* submissions whose row was deleted on request
    webFaults       \* failures of create requests and late replies so far

Exec == INSTANCE Executor

ASSUME PipelineAssumption ==
    /\ Exec!ExecutorAssumption
    /\ Exec!Tracker!TrackerAssumption
    /\ Deletable \subseteq Subs
    /\ MaxWebFaults \in Nat

\* A job's request is known by its worker and its task.
Caller == [worker : Workers, task : Exec!Tracker!Task]

Web == INSTANCE Submissions WITH Verdict <- Exec!Verdict

execVars == <<contents, deadLetters, committed, owner, position, generation,
              nextCommitOffsets, completedOffsets, committing, settled, faults,
              jobs, isPaused, paused, refusals, answered>>
webVars == <<rows, creating, handlers>>
vars == <<execVars, webVars, deleted, webFaults>>

Init == Exec!Init /\ Web!Init /\ deleted = {} /\ webFaults = 0

TypeOK == Exec!TypeOK /\ Web!TypeOK /\ deleted \subseteq Subs /\ webFaults \in Nat

-----------------------------------------------------------------------------
(* Create and delete requests. *)

WebFault ==
    /\ webFaults < MaxWebFaults
    /\ webFaults' = webFaults + 1
    /\ UNCHANGED <<execVars, deleted>>

Create(s) == Web!CreateSaves(s) /\ UNCHANGED <<execVars, deleted, webFaults>>

Publish(s, p) ==
    /\ Web!CreateQueued(s)
    /\ Exec!Enqueue(s, p)
    /\ UNCHANGED <<deleted, webFaults>>

Reject(s) == Web!CreateRejected(s) /\ UNCHANGED <<execVars, deleted, webFaults>>

CreateFails(s) ==
    /\ WebFault
    /\ Web!CreateDies(s) \/ Web!CreateQueuedInVain(s) \/ Web!CreateQueueFails(s)

DeleteRow(s) ==
    /\ s \in Deletable \ deleted
    /\ Web!Delete(s)
    /\ deleted' = deleted \cup {s}
    /\ UNCHANGED <<execVars, webFaults>>

-----------------------------------------------------------------------------
(* The PATCH of a job. *)

CallerOf(w, j) == [worker |-> w, task |-> Exec!TaskOf(j)]
Awaits(w, j, h) == h.awaited /\ h.caller = CallerOf(w, j)
IsCalling(w, j) == Exec!InCallback(j) /\ \E h \in handlers : Awaits(w, j, h)

\* Mutant: the payload lacks the status.
PatchArrivesEmpty(w, j) ==
    /\ Exec!InCallback(j)
    /\ ~IsCalling(w, j)
    /\ Web!UpdateReads(CallerOf(w, j), Exec!MessageOf(j).sub, "none")
    /\ UNCHANGED <<execVars, deleted, webFaults>>

\* The request reaches Django, which finds the row.
PatchArrives(w, j) ==
    /\ Exec!InCallback(j)
    /\ ~IsCalling(w, j)
    /\ Web!UpdateReads(CallerOf(w, j), Exec!MessageOf(j).sub, j.verdict)
    /\ UNCHANGED <<execVars, deleted, webFaults>>

\* ... or answers 404, three times.
PatchRefused(w, j) ==
    /\ ~IsCalling(w, j)
    /\ rows[Exec!MessageOf(j).sub] = "absent"
    /\ Exec!CallbackRefused(w, j)
    /\ UNCHANGED <<webVars, deleted, webFaults>>

\* Django saves and answers a job that waits.
PatchReturns(w, j, h) ==
    /\ Awaits(w, j, h)
    /\ Web!UpdateSaves(h)
    /\ Exec!CallbackReturns(w, j)
    /\ UNCHANGED <<deleted, webFaults>>

\* Django saves what nobody waits for.
PatchSavesLate(h) ==
    /\ ~h.awaited
    /\ Web!UpdateSaves(h)
    /\ UNCHANGED <<execVars, deleted, webFaults>>

\* One try timed out, and the next one follows.
PatchTryFails(w, j) ==
    /\ IsCalling(w, j)
    /\ WebFault
    /\ Web!Abandon({CallerOf(w, j)})

\* The last try timed out, or Django cannot be reached.
PatchRaises(w, j) ==
    /\ Exec!CallbackRaises(w, j)
    /\ Web!Abandon({CallerOf(w, j)})
    /\ UNCHANGED <<deleted, webFaults>>

-----------------------------------------------------------------------------
(* The other steps of a worker. *)

CrashWorker(w) ==
    /\ Exec!Crash(w)
    /\ Web!Abandon([worker : {w}, task : {Exec!TaskOf(j) : j \in jobs[w]}])
    /\ UNCHANGED <<deleted, webFaults>>

Elsewhere == UNCHANGED <<webVars, deleted, webFaults>>

WorkerFails(w) ==
    /\ \/ \E j \in jobs[w] :
             Exec!GradeRaises(w, j) \/ Exec!PublishRaises(w, j) \/ Exec!MarkRaises(w, j)
       \/ \E k \in committing[w] : Exec!CommitFails(w, k)
    /\ Elsewhere

Patches(w) ==
    \E j \in jobs[w] :
        \/ PatchArrives(w, j)
        \/ PatchRefused(w, j)
        \/ \E h \in handlers : PatchReturns(w, j, h)

Creates(s) == \E p \in Partitions : Publish(s, p)

Next ==
    \/ \E s \in Subs : Create(s) \/ Creates(s) \/ Reject(s) \/ CreateFails(s) \/ DeleteRow(s)
    \/ \E h \in handlers : PatchSavesLate(h)
    \/ \E w \in Workers :
          \/ Patches(w)
          \/ \E j \in jobs[w] : PatchTryFails(w, j) \/ PatchRaises(w, j)
          \/ Exec!Works(w) /\ Elsewhere
          \/ WorkerFails(w)
          \/ CrashWorker(w)
    \/ Exec!Rebalances /\ Elsewhere

Spec == Init /\ [][Next]_vars

\* The worker's loop runs, Django answers the requests it gets, the coordinator
\* replaces a dead owner, a create request goes on to publish what it saved.  Nobody
\* need create, and nothing need fail.
Fairness ==
    /\ \A w \in Workers :
        /\ WF_vars(Exec!Polls(w) /\ Elsewhere)
        /\ WF_vars(Exec!PollNothing(w) /\ Elsewhere)
        /\ WF_vars(Exec!Sandbox(w) /\ Elsewhere)
        /\ WF_vars(Exec!Republishes(w) /\ Elsewhere)
        /\ WF_vars(Exec!Marks(w) /\ Elsewhere)
        /\ WF_vars(Exec!Commits(w) /\ Elsewhere)
        /\ WF_vars(Patches(w))
    /\ WF_vars(\E h \in handlers : PatchSavesLate(h))
    /\ \A s \in Subs : WF_vars(Creates(s))
    /\ WF_vars(Exec!Orphaned /\ Exec!Rebalances /\ Elsewhere)

FairSpec == Spec /\ Fairness

-----------------------------------------------------------------------------
(* What the workers keep to with Django as their environment: the properties *)
(* of Executor and CommitTracker (the comments there say what they mean).    *)

\* A worker holds less than two polls' worth of messages (main.py:285).
ActiveBound == Exec!ActiveBound

\* A published submission is answered or will be delivered after a restart.
NoSubmissionLost == Exec!NoSubmissionLost

\* The jobs are the tasks of the trackers.
ImplementsTracker == Exec!ImplementsTracker

\* The commits of a group with one worker never move back (main.py:69-83).
CommittedMonotone == Exec!Tracker!CommittedMonotone

\* ... and in the end reach every message, one that was retried or misrouted too.
EventuallyCommitted == Exec!Tracker!EventuallyCommitted

-----------------------------------------------------------------------------
(* What a submission may rely on. *)

Redeliverable(s) ==
    \E p \in Partitions : \E i \in DOMAIN contents[p] :
        /\ Exec!FirstOffset(p) + i - 1 >= committed[p]
        /\ contents[p][i].sub = s

\* A row that waits for its verdict after it was published is never cut off: a
\* message of it is still to be delivered after a restart.
PendingIsRecoverable ==
    \A s \in Subs : creating[s] = "queued" /\ rows[s] = "PENDING" => Redeliverable(s)

\* A SYSTEM_ERROR has a cause: the sandbox or the route said so, the queue was
\* down, or the message was dead-lettered after each of its attempts, all of which
\* were in the topic ("bounded retries and dead-letter handling", README.md:68).
SystemErrorHasCause ==
    \A s \in Subs : rows[s] = "SYSTEM_ERROR" =>
        \/ "SYSTEM_ERROR" \in Exec!PossibleVerdicts(s)
        \/ creating[s] = "queueFailed"
        \/ /\ \E m \in deadLetters : m.sub = s
           /\ \A a \in 1..MaxAttempts : [sub |-> s, attempt |-> a] \in Exec!Messages

\* A published submission gets a verdict when at most MaxFaults things go wrong
\* on its way (a deleted row needs none).
EventuallyJudged ==
    \A s \in Subs : (creating[s] = "queued") ~> (rows[s] # "PENDING")

\* A PASSED that was written back is final ("final verdicts are written back to
\* the application", README.md:23): redeliveries of a message that was graded
\* repeat its verdict.  It takes as many faults as there are delivery attempts
\* to break this.
VerdictIsFinal ==
    [][\A s \in Subs : rows[s] = "PASSED" => rows'[s] \in {"PASSED", "absent"}]_rows
=============================================================================
