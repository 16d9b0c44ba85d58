# Judge Vortex in TLA+

A model of Judge Vortex, the proctored exam and judging platform in `src/`: what its executors
do to the submissions topic, what Django does to a row while they judge it, what overlapping
requests do to an exam room, what a teacher's testcase cards become, what the sandbox makes of a
program, what the student's page makes of the answers, and how the throttle and the autoscaler
act on the load. The modules are translated from the code (paths below are relative to `src/`); `PROJECT.json` names, for every definition,
the lines it stands for, and lists the hazards the properties are aimed at.

1. [The system](#1-the-system): components, state, operations, interactions
2. [The modules](#2-the-modules) and what in the code they stand for
3. [The runs](#3-the-runs): what each one shows, its bounds, the fairness
4. [What the runs found](#4-what-the-runs-found)
5. [The proofs](#5-the-proofs)
6. [What is not modelled](#6-what-is-not-modelled)
7. [The plan](#7-the-plan)

## 1. The system

```
 browser --POST--> Django --row--> Postgres
    ^                 |  \--message--> Kafka topic --poll--> executor (asyncio, N jobs)
    |                 |                                        |  sandbox: isolate boxes
    |                 |<------------- PATCH verdict -----------|
    |                 |                                        |--retry--> same topic
    '--websocket/poll-'                                        |--dead letter--> other topic
                                                               '--commit offset--> Kafka
```

| Component | Where | State it keeps | Operations |
|---|---|---|---|
| Executor offset tracking | `executor_service/main.py` 39-103 | next commit offset and completed offsets per partition, one asyncio lock | `mark_completed`, `_get_next_commit_offset`, the commit in a thread |
| Executor worker loop and grading tasks | `executor_service/main.py` 106-330, `grader.py` | running tasks, semaphore, `is_paused`, paused partitions | poll, pause, resume, `run_grade_task`: grade, callback, retry, dead letter |
| Submission requests | `core_api/views.py` (`SubmissionCreateView`, `SubmissionUpdateView`, `SubmissionDeleteView`) | `Submission` rows | create and publish, PATCH, delete |
| Verdict calculation | `executor_service/grader.py`, `core_api/views.py` 335-412 | counts, status and marks of the row | case loop, `finalize_submission_result` |
| Sandbox | `executor_service/sandbox.py` | queue of isolate boxes, workspaces | `prepare_execution`, `execute_prepared`, cleanup |
| Exam rooms, participants, moderation | `core_api/views.py`, `models.py` | the room, questions, participants with assignment, lock and presence | join, heartbeat, lock, unlock, admission, changes and deletions |
| Testcase cards and texts | `shared/judging.py`, `templates/teacher-dashboard.html` | two texts of a question, the cards of its dialog | open, type, add, remove, save, split into cases |
| Suspicious activity detection | `core_api/suspicion.py` | `ExamEvent` rows | three patterns with a duplicate check |
| Throttle, runtime configuration, limiter | `core_api/throttles.py`, `integrations.py` | cached configuration, Redis counters of the limiter | `allow_request`, `get_runtime_config` |
| Workspace snapshots | `core_api/views.py`, `models.py` | a row per student and question | save, show to the teacher |
| Workspace client | `templates/workspace.html` | pending locks, pollers, verdicts, local storage | submit, run test, poll, websocket, resume |
| Realtime delivery | `realtime/` | channel groups | connect, `submission_update` |
| Autoscaler | `infrastructure/autoscaler/` | last scaling time of each service | lag, desired replicas, scale |
| Routing and topic setup | `execution_routing.py`, `kafka_setup.py` | none | a static table |
| Accounts | `core_api/views.py` | Django's sessions | register, login, logout |
| Health, metrics, admin, settings, scripts | | none of their own | I/O |

**How they interact.** A create request saves the row first and publishes a message later, in
separate steps of one HTTP request. A worker turns the messages of a poll into asyncio tasks. A
task calls the sandbox, then PATCHes Django over HTTP (three tries), then gives the offset to
the tracker, which commits the longest run of completed offsets. A job that raises is published
again with a higher attempt, or dead-lettered and reported as `SYSTEM_ERROR`. Django pushes the
row over a websocket; the browser polls as well. Both the throttle in front of the create request
and the autoscaler behind the topic read the lag of the executors, each in its own way.

**Hard behaviours, and what correctness means.**

- *Executor.* Completions arrive in any order while commits must not leave holes; a commit may
  raise after the broker took it; partitions move to other workers while tasks run on; a worker
  may die at any await. Correct means that no message is committed before it was dealt with, that
  commits do not move back needlessly, that every message is committed in the end, and that the
  limits of concurrency hold.
- *Pipeline.* A PATCH may time out at the worker and be saved by Django later, after another one;
  a row may be deleted while it is judged; a fault may come after the verdict was already written.
  Correct means that a published row gets a verdict, that a row that waits can still be delivered,
  that `SYSTEM_ERROR` has a cause, and that a verdict stays.
- *Exam room.* Every ORM statement commits on its own, so requests act on what they read earlier.
  Correct means that locks are undone only by unlocking, that assignments do not change, that a
  lock stops ordinary submissions but for the few already past its check, and that a pattern is
  signalled when a request looks for it, also when rows, questions or the room are deleted under a
  request that holds them.
- *Testcase cards.* They are joined into two texts and split again by whoever needs cases. Correct
  means that the cases are the cards, and that editing changes nothing by itself.
- *Sandbox and verdict.* Fewer boxes than jobs, many ways out of preparation and execution,
  redelivered jobs that report again. Correct means that boxes are neither lost nor doubled, that
  jobs end, and that verdict, counts and marks are what the cases give.
- *Student's page.* The Submit handler awaits requests while the student opens other questions;
  verdicts come by poll, by websocket or by a refresh of the room, late, twice or not at all; the
  page may be loaded again. Correct means that "Solved" is shown for what is solved, and only for
  that, and that the Submit button is locked while a verdict is awaited and not longer.
- *Load control.* The throttle adds up a queue that moves while it is read, with a configuration
  that may be old; the autoscaler scales on a lag and a container count of earlier; both may fail in
  the middle. Correct means that nobody is limited for a queue that was not there, that a short
  queue is overshot by little, that a rate is exceeded only by what overlapping requests and a
  failing cache account for, that a new configuration gets through, and that the autoscaler abandons
  no backlog though it scales services to nothing.

## 2. The modules

| Module | Stands for | Composes |
|---|---|---|
| `AtLeastOnceLog` | abstract: what the consumer group promises about the topic | |
| `CommitTracker` | `CommitTracker` of every worker of a group, with the broker's side of commits and assignment | refines `AtLeastOnceLog` |
| `Executor` | `start_worker`, `run_grade_task` and the callback | `CommitTracker` (instance; jobs are its tasks) |
| `Submissions` | create, update and delete requests on rows | |
| `JudgingPipeline` | the whole way of a submission | `Executor`, `Submissions` |
| `ExamRoom` | requests on one room, with the pattern detection | |
| `Questions` | a question's testcase cards, its texts and the cases split from them | |
| `Grader` | a job between the semaphore and the verdict | |
| `Workspace` | the student's page in an exam room, with the server and the websocket around it | |
| `Throttle` | which submissions Django admits | |
| `Autoscaler` | the process that scales the executor services | |
| `LoadControl` | both around the submission topics | `Throttle`, `Autoscaler` |
| `CommitTrackerProofs`, `ExecutorProofs`, `JudgingPipelineProofs`, `ExamRoomProofs`, `GraderProofs`, `WorkspaceProofs`, `LoadControlProofs`, `QuestionsProofs` | the theorems about the module of that name | extend it; the first is an instance in the second, the second in the third |
| `MC*` | values of the constants for TLC | extend the module of that name |

Operators whose comment begins with *Mutant:* are altered forms of the definition that
follows them. No specification uses them; `PROJECT.json` says which property each one breaks.

### CommitTracker

`tasks[w]` are the coroutines of worker `w` that did not reach `mark_completed`; `failing` says
whether a task is in its `except` block. `nextCommitOffsets` and `completedOffsets` are the
dictionaries of the class. `committing[w]` is the commit that runs in a thread while the task
holds the lock: empty exactly when the lock is free. `MarkCompleted` is `mark_completed` up to
its return or to the await; `BrokerCommit` and `FinishCommit` are the two moments a commit takes
effect, at the broker and in the tracker; `CommitFails` may come before or after the broker's.
`settled` is a history variable: the offsets some task called `mark_completed` for.

External (Kafka), modelled from the configuration the code passes: a rebalance is eager and
atomic, the new owner asks for the committed offset when it first polls, with
`auto_offset_reset="earliest"`, and the broker accepts commits of a worker that no longer owns the
partition. The producer's own duplicates and the order in which waiters get the lock are left out;
the lock may go to any waiter.

### Executor

`jobs[w]` are the same coroutines with a stage: *waiting* (for the semaphore), *grading*,
*callback*, *graded*, then in the `except` block *failed*, *errorCallback*, *handled*. Every
action a tracker would notice is conjoined with that action of `CommitTracker`, instanced with
`tasks` as a function of `jobs`; so each step is the whole handler on both levels, and the run
checks that the result is a behaviour of `CommitTracker`. `PollMessages` includes the pause or
resume at the top of the loop. What the sandbox says is a choice among `Outcomes` (`Grader` works
it out). A refused PATCH (404) has a budget of its own, since in the pipeline it is not a fault
but follows from a deleted row.

### Submissions and JudgingPipeline

`creating[s]` is how far the create request has come, `rows[s]` the status column, `handlers` the
update requests between `get()` and `save()`. `UpdateSaves` writes the whole row and so inserts
one that was deleted in between. In the composition `PatchArrives` starts a handler for a job's
callback, `PatchReturns` saves and answers at once a job that still waits, `PatchSavesLate` is a
handler nobody waits for. The three tries of a callback are folded: `PatchTryFails` is a
try that timed out and is followed by the next, `PatchRaises` the last one. `MarkRaises` stands
for what can raise between the effect and the tracker: the late acknowledgement of a retry, or
`committed()`. A practice run that Django grades inline does not pass through here (`Grader` has it).

### ExamRoom

`request[t]` is what Django's thread `t` is in the middle of, with what it has read so far
(`sawLocked` is the `access_locked` of the participant object it holds, `wanted` the number of
questions a join was told). Each step is one ORM statement; `SubmitSaves` is the one transaction
the code has, and `SubmitRecords` what follows it: snapshot and event, which raise when the row is
gone. A submission of no question (the page's Run Test) is not looked at by the detection
(`SubmitGoesOn`); Django judges it at once, which is the `UpdateSaves` of the same request, or sends
it like the others. `SubmitIsUnsent` is the failing queue, which writes `SYSTEM_ERROR` and looks for
nothing, `SubmitIsTakenBack` a language without a topic. A row's `failure` says which of the two
made it one of the failures that are counted. A request of kind *disqualify* carries the
auto-disqualify sentinel. `PatchRoomSaves` and `EditSaves` write whole rows, and so insert a room or a question that
was deleted since it was read. `DeleteRoom` is Django's cascade; requests that then refer to
nothing end (`Orphaned`). `Dies` is a request that ends half way. `lateAdmissions` (of
ordinary submissions) and `deleted` are history variables. Rows are young enough for every look-back window. Room codes and
schedules, audit events, the contents of snapshots, and feeds are left out.

### Questions

A text is a sequence of lines, each blank or with content; trimming drops blank lines at its ends.
`Serialized` is what the dialog makes of its cards and the API of the texts, `Testcases` is
`build_testcases`; `OpenDialog` shows the cases again as cards, and `RenderAgain` is what the HTML
loses when cards are added or removed. `Ordered` puts the numbers of the lines (or cards) that a
loop keeps in order; `Blocks` and `Filled` are stated with it, and `Join` as a recursive function, so
that they can be reasoned about. The dialog's second list of cards, for Run Test, goes the
same way and is left out; one browser edits at a time (`ExamRoom` has overlapping edits).

### Grader

`program[s]`, chosen in `Init`, says what the submission answers to each case, or that it does
not compile; programs are deterministic. Stages follow the awaits of `prepare_execution`, the
case loop and `update_submission`. `InputOf` is the case whose input the program really reads.
`GiveUp` is the `except` block of `run_grade_task`, whose retry is another job here. A practice
run may be graded by the create request itself (`inline`), and may have no cases (`cases[s] = 0`):
it is run once, on input of the student's own. Left out: the splitting of texts into cases (that is
`Questions`), questions edited after the submission, an init process that is left running when its
wait times out.

### Workspace

The variables are the maps and sets at the top of the script; `requests` are the calls of the
Submit handler that wait at one of its awaits: for the snapshot to be saved, for the answer to the
POST (*sent*), and then what they were told. Answer and reaction are separate steps, so the
student may open another question in between, and the handler goes on with the question that is
open then, as the code does. `pushed` are the verdicts on their way over the websocket. A card
being evaluated cannot be opened; a page that has loaded (`Resume`) asks once for a pending row
to lock for (`RestoreOnLoad`). `strayed`, `misplaced` and `overlooked` are history variables. All calls of the
Submit handler are about one student's own rows; a poll and a refresh of the room are one step
each. Left out: Run Test, the editor and its snapshots, the exam's timers, being kicked or
disqualified, questions taken out of the room, and a load of the page that fails.

### Throttle, Autoscaler and LoadControl

`request[t]` is how far `allow_request` of `DynamicQueueThrottle` has come in thread `t`, with the
local variables it still needs. The end of a topic and what its group has committed are read in
two steps, topic after topic; the answer of the control plane is received and stored in two; the
history of REST framework's rate limit is read and written back in two. `AfterDepth` decides.
`scaler` is the same for the autoscaler's loop, whose `cooling` are the services scaled less than a
cool-down ago; an exception ends it (`Dies`), and `StartVortex` is `start_vortex.sh`, which starts
the web server and the autoscaler anew. `LoadControl` puts both around the topics: Django appends
what it admits, and a service commits one message after the other as long as it has a container
(how is `Executor`'s), until it stalls. `Stalls` and `Recovers` stand for what `tracker_rebalance` and
a deleted row do to a service: with all its containers it commits nothing, perhaps until one of them
begins anew.
`exempt`, `seen`, `granted`, `raised` and `overlaps` are history variables: `granted[u]` are the
admissions of a user in the rate limit in this window, be it by its answer or because its cache
raised, `raised[u]` the second sort, `overlaps[u]` the requests that read the user's history while
another one was between reading and writing it. External: the control plane and
the limiter, whose answers are choices, and REST framework's history. Left out: partitions (a topic
has one), entries of a history that age one by one (a window ends at once), containers that docker
restarts by itself.

## 3. The runs

Every cfg says in its first line what it instantiates. Deadlock is not looked for
(`CHECK_DEADLOCK FALSE`), since with bounds on messages, faults and requests each system really
stops, except in `load_control`, which never does. `TypeOK` is one of the invariants of each
module's first run.

| Run | Shows | Distinct states |
|---|---|---|
| `tracker_group` | two workers share a partition: commits only cover settled messages, also the inductive invariant, and the refinement of `AtLeastOnceLog` | 159 k |
| `pipeline_safety` | with a row deleted while it is judged and late PATCHes: limits of concurrency, bounded retries, no submission lost, commits that do not move back, refinement of `CommitTracker`; a row that waits can be delivered, `SYSTEM_ERROR` has a cause | 373 k |
| `pipeline_live` | with one fault in the worker and one in Django at most, every published submission is judged and every message committed; a `PASSED` stays when there are fewer faults than attempts | 45 k |
| `exam_room` | locks, assignments, admission, signals under overlapping requests, Run Tests, failures of the queue, changes and deletions | 2.30 M |
| `questions` | which cards become the cases that are judged, and that editing changes nothing | 24 k |
| `grader` | verdicts, counts, marks and boxes for every pair of two-case programs, inline and without cases too; every job ends | 240 k |
| `workspace` | what the page shows as solved, and when the Submit button is locked, with one fault or reload | 337 k |
| `load_control` | who is limited, by how much queue and rate are overshot, that changes of the configuration get through, that no backlog is abandoned | 292 k |
| `tracker_fresh`, `tracker_rebalance`, `pipeline_verdict`, `grader_sql` | counterexamples, see section 4 | |

**Properties.**

- `CommittedIsSettled`: everything below the committed offset went through `mark_completed`.
  `NoSubmissionLost` says the same of submissions: answered, or one of its messages is still at or
  above the committed offset.
- `CommittedMonotone`, `EventuallyCommitted`: commits do not move back, and every message is
  committed in the end, for a group with one worker whose rows are not deleted. The second is
  checked with one fault in the worker: a second one, inside the `except` block of the first
  (`main.py:247-256`), ends the task without `mark_completed` and stops the commits until a restart.
- `ActiveBound`: what pausing achieves: fewer than two polls' worth of messages. It needs that
  partitions are not reassigned to a worker while it is paused (a rebalance resumes them without
  telling `is_paused`), so its run has only the rebalances that start a worker.
- `PendingIsRecoverable`, `SystemErrorHasCause`, `EventuallyJudged`, `VerdictIsFinal`: of the
  pipeline. A row whose message never reached the broker (the request died, or the broker refused
  the message after `flush()` returned) stays `PENDING`: `Submissions` has these steps and no
  property promises otherwise, because nothing in the code would make it true.
  `SystemErrorHasCause` also says that a message is dead-lettered only after each of its attempts.
- `OnlyUnlockUnlocks`, `AssignmentIsStable`, `EmptyHandedHasCause`, `LockStopsOrdinarySubmissions`,
  `Signalled`: of the room. `LockStopsOrdinarySubmissions` is the strongest form that
  holds: as many late rows as there are other threads. It speaks of ordinary submissions only: one that
  carries the auto-disqualify sentinel passes the lock (`views.py:1246`), is stored and judged, any
  number of times, so a lock does not end admission. `EmptyHandedHasCause` excuses a participant
  by any death or deletion in the room, not by one of its own; what it excludes is a participant left
  with nothing by concurrent joins alone. `Signalled` speaks of rows somebody looks for, together
  with all that was saved before them: a row with a question and, for a burst, the Run Tests before
  it; for a storm, the failures a judgement reported. A burst that a Run Test completes, or
  a storm that a failure of the queue completes, has a signal only if somebody looks later: the
  property does not promise one, because the code does not. It also leaves out rows deleted on
  request, which an overlapping update inserts again unseen, and bounds how often overlapping
  requests double a signal.
- `PlainCardsAreJudged`, `ResaveKeepsCases`: of a question. The first is an equivalence: it says
  which cards survive, and that no others do.
- `VerdictIsEarned` (status, counts and marks), `BoxesConserved`, `EveryJobEnds`: of the grader.
- `SolvedIsReal`, `SolvedStaysShown`, `EventuallyShown`, `LockedWhileJudged`,
  `EventuallyUnlocked`: of the page. The exceptions they name are what the code does: a question
  left while its request is on its way, an earlier verdict given to another question after a 429,
  a 429 that brings back the lock of another question than the one pressed (`overlooked`), a last
  poll that raises, a late message about an earlier row of the same question.
- `BusyIsReal`, `OvershootBounded`, `RateHolds`, `ConfigConverges`: of the throttle. The backlog a
  request counts may have existed at no single moment; `BusyIsReal` says which backlog it is never
  more than. `OvershootBounded` counts the messages of the backlog (`Queued`) and allows one for
  each thread, besides what was admitted without a look at the queue (`exempt`, which is never
  counted down: the bound grows with each such message, also when it has left the queue).
  `RateHolds` is an account: a user's admissions in a window are no more than the rate, a rate for
  each request that overlapped another one as it read the history, and one for each time the cache
  raised. With neither it is the rate.
- `NoBacklogAbandoned`, `SettlesAtMinimum`: of the autoscaler. The first says who is to blame when
  a route's backlog stays for good with nothing committed: a dead autoscaler, or a service that keeps
  its containers and whose executors stall again and again. It does not say that every
  message is served, which the code does not ensure; it excludes that a service is left without
  containers (for a lag read too early, a cool-down, a rounding), as long as the process lives.

**Bounds, and why they are enough.**

| Bound | Values | Why |
|---|---|---|
| `MaxOffset` | 2 to 5, the group starting at 1 but in `tracker_fresh` | three messages in flight make holes in the completed offsets on both sides of one; with two attempts, two submissions need four to be retried once each |
| `MaxGeneration` | 1 to 3 | 2 moves a partition away from a worker whose tasks still run; 3 brings it back |
| `MaxFaults` | 1 or 2 | one fault of any kind at any step; two for a fault while another is being handled; crashes, raising calls and failed commits share it |
| `MaxRefusals` | 2 | the callback and the error callback both refused |
| `MaxWebFaults` | 1 | one failed create request or one late reply |
| `MaxConcurrent`, `MaxAttempts` | 2, 2 | two jobs race; one retry, then the dead letter |
| `Workers`, `Partitions` | 2 and 1, 1 and 1 | two owners of one partition; one worker with two jobs at a time |
| `Threads`, `MaxRequests` | 2, 4 | two overlapping requests; a join, two submissions and a moderation or an update (a row judged at once needs no request for its update) |
| `Questions`, `Assignable` | 2, 1 or 2 (changed by the room's PATCH) | a choice of one, a pool too small while a question is missing, and two questions for reused workspaces |
| `BurstThreshold`, `StormThreshold` | 2 | reached by two overlapping requests |
| `MaxIncidents` | 1 | a request that dies, or a question, a row or the room that is deleted |
| `MaxPolls`, `MaxSubmits`, `MaxTroubles` | 2, 2, 1 | a first and a last poll (40 in the code); a row that was given up or whose answer was lost, and another one after it; one lost message, answer or poll, or one reload, at any step |
| `Jobs`, `Boxes`, cases | 3, 1, 2 | two deliveries of one submission and a job of another wait for one box; a first and a last case |
| `CaseCounts`, `OnWeb` | a practice run with or without cases, inline or queued | the ways a practice run is graded |
| `MaxCards`, `MaxLines` | 2, 5 | two cards disagree with two texts in every way; lines of two inputs with a blank line in each |
| `Bounds` (deployments) | two threads and both topics with 2 and 1 messages; two threads, a control plane and 1 message; one thread, an autoscaler and 3 messages; a cache that raises once in a window where there is a control plane; a service that may stall where there is an autoscaler | overlapping requests over two topics; a slow answer of the control plane that overtakes or is overtaken; a service scaled up, down to nothing and up again |
| `Rate`, `LagPerReplica`, `MaxReplicas` | 1, 2, 2 | the second request of a window; a quotient that is rounded; a third message is more than one container's |
| `Configs` | 2 versions | the default, and a limiter that is always asked and refuses when it fails |

Symmetry is used for workers (`tracker_group`) and for threads and questions (`exam_room`), where
only safety is checked.

**Fairness.** Weak fairness of what the code's loops and calls do without help: the event
loop keeps polling (a poll that brings messages, a pass that pauses or resumes), a task in the
sandbox comes to an end (every execution has a time limit), the answer of a request arrives or its
timeout does, commits return, and a create request goes on after its save. Kafka's coordinator
replaces the owner of a partition whose worker is gone. In `Grader` it is strong fairness for each
job, because the queue of boxes serves its waiters in turn: a job that waits for a box is enabled
again and again, not continuously. In `Workspace` the browser loads, polls and refreshes, requests
are answered and messages arrive unless they are lost; the judge is not assumed to end. In
`LoadControl` some request proceeds while there is one, each service that has containers and messages and has not
stalled commits, cool-downs and the term of the cache end, and the autoscaler's loop goes on until it dies; one thread
may be slower than any other, and nobody need submit.
A service that stalled need never recover. `ConfigConverges` and `SettlesAtMinimum` name
what else they need: requests that go on coming and are answered, or none at all. There is no
fairness on faults, crashes, restarts, create and delete requests or further rebalances.

## 4. What the runs found

Each of these runs checks one property and TLC finds a counterexample.

- **`tracker_fresh`**: in a group that has never committed, the tracker starts at the offset of
  the message that completes first (`main.py:57`); earlier messages that still run are committed
  over. The rest of the project starts from a group that has committed.
- **`tracker_rebalance`**: the tracker's memory survives a rebalance (`main.py:51`). When a
  partition comes back, it waits for offsets that another owner already dealt with, or commits
  backwards; a settled message stays uncommitted until a restart. No fault is involved.
- **`pipeline_verdict`**: when `mark_completed` raises after the verdict was written, the job is
  treated as failed; after as many such faults as there are attempts it is dead-lettered and its
  `PASSED` becomes `SYSTEM_ERROR` (`main.py:244`). With one fault fewer `pipeline_live` holds.
- **`grader_sql`**: the native backend writes `setup.sql` once, for the first case
  (`sandbox.py:653`); later cases run on the first one's input. A practice run that Django grades
  itself always takes this backend.

The models also show what no run of its own states, because no text of the repository says
otherwise.

*Pipeline.* A message whose row was deleted can never be reported: the error callback is refused
too, `mark_completed` is not reached, and that partition commits nothing any more until a restart
repeats the whole course. This is why `EventuallyCommitted` is stated where no row is deleted.

*Exam room.* A locked student whose request carries the sentinel of an automatic disqualification as
its input is let in (`views.py:1246`), however often. A Run Test counts in a burst, and a failed queue
in a storm, without anybody looking (`suspicion.py:76`, `views.py:1373`). As `exclude(question_id=...)`
keeps rows without a question, a Run Test followed by a Submit of the same code is signalled as
reuse across questions (`suspicion.py:103`). An edit of a question, or of the room, that read its row before a deletion inserts it
again, without the assignments, participants and submissions that went with it.

*Questions.* A card with a blank line in it, or without input next to one that has some, is merged,
split or paired with another card's output (`Plain` says which are not).

*Load control.* A Kafka error in the middle of the count leaves a partial sum that is treated as known
(it may pass the limiter by, though not admit by itself); overlapping requests of a user lose each
other's entries in the rate limit, and a cache that raises switches it off; the cool-down counts from before the scaling, so it may be over
when the scaling ends.

*Workspace.* A student who opens another question while a request is on its way sends the code of
the first as the answer to the second (`workspace.html:2147`), and the first card stays
"Evaluating" until a refresh finds it solved; after a reload the verdicts that are not `PASSED`
are gone, because `renderExamMode` writes the local copy (line 1973) before `resumeActiveExam`
reads it (line 1895); a last poll that raises keeps the Submit button locked until a websocket
message or a reload; after a 429 the page takes back the lock of the latest pending row only, so
that the question that was pressed may be left without one while its own row is awaited.

## 5. The proofs

TLAPS checks every theorem for all values of the constants that the assumptions of the modules
allow: any workers, partitions, submissions, threads, questions, jobs, boxes, topics and
configurations, and any number of faults, requests, messages and reloads. The numbers TLC needs
(`MaxOffset`, `MaxFaults`, ...) are constants as well, so no theorem depends on their size, but
where it says so. All eight proof modules are laid out alike: what each action does to the state,
one lemma per part of the invariant and action, and the theorems.

| Module | Theorem | States | Under |
|---|---|---|---|
| `CommitTrackerProofs` | `TypeCorrect` | `[]TypeOK` | |
| | `CommittedSettled` | `[]CommittedIsSettled` | `KnownStart` |
| | `TrackersRememberSettled` | `[]TrackerInv` | `KnownStart` |
| | `TrackersImplementLog` | `ImplementsAtLeastOnceLog` | `KnownStart` |
| | `CommitsNeverMoveBack` | `CommittedMonotone` | `OneWorker` |
| `ExecutorProofs` | `TypeCorrect` | `[](TypeOK /\ InLog)` | `Constants` |
| | `ExecutorImplementsTracker` | `ImplementsTracker` | `Constants` |
| | `NoneLost` | `[]NoSubmissionLost` | `Constants`, `KnownStart` |
| | `ActiveIsBounded` | `[]ActiveBound` | `Constants`, `OneWorkerStays` |
| | `ExecutorCommitsNeverMoveBack` | `CommittedMonotone` | `Constants`, `OneWorker` |
| | `AttemptsCostFaults` | `[]FaultsPaid` | `Constants` |
| `JudgingPipelineProofs` | `TypeCorrect` | `[]TypeOK` | |
| | `PublishedIsNotLost` | `[]NoSubmissionLost` | `KnownStart` |
| | `PipelineImplementsTracker` | `ImplementsTracker` | |
| | `PipelineCommitsNeverMoveBack` | `CommittedMonotone` | `OneWorker` |
| | `WorkerIsNotOverrun` | `[]ActiveBound` | `OneWorker`, one generation, finitely many partitions |
| | `ErrorsAreReal` | `[]SystemErrorHasCause` | |
| | `PendingIsNotCutOff` | `[]PendingIsRecoverable` | `KnownStart` |
| | `PassedIsFinal` | `VerdictIsFinal` | `IsDecided`, `FewFaults` |
| `ExamRoomProofs` | `TypeCorrect` | `[]TypeOK` | |
| | `UnlocksAreAsked` | `OnlyUnlockUnlocks` | |
| | `EmptyHandsAreExplained` | `[]EmptyHandedHasCause` | |
| | `AssignmentsAreKept` | `AssignmentIsStable` | |
| | `LocksHold` | `[]LockStopsOrdinarySubmissions` | |
| | `PatternsAreSignalled` | `[]Signalled` | |
| `GraderProofs` | `TypeCorrect` | `[]TypeOK` | |
| | `BoxesAreKept` | `[]BoxesConserved` | |
| | `VerdictsAreEarned` | `[]VerdictIsEarned` | `InputsAreOwn` |
| `WorkspaceProofs` | `TypeCorrect` | `[]TypeOK` | |
| | `SolvedCardsAreReal` | `[]SolvedIsReal` | |
| | `SolvedCardsStay` | `SolvedStaysShown` | |
| | `LockIsKept` | `[]LockedWhileJudged` | |
| `LoadControlProofs` | `TypeCorrect` | `[]TypeOK` | |
| | `RateIsKept` | `[]RateHolds` | |
| | `BusyHasReason` | `BusyIsReal` | |
| | `OvershootIsBounded` | `[]OvershootBounded` | |
| | `ScalingKeepsLimits` | `[]WithinLimits`, and no service is without a container that should have one | |
| `QuestionsProofs` | `TypeCorrect` | `[]TypeOK` | |
| | `PlainCardsAreTheCases` | `PlainCardsAreJudged` | |
| | `ResaveChangesNothing` | `ResaveKeepsCases` | |

**From which assumptions.** Each module names what it assumes of its constants (`TrackerAssumption`,
`PipelineAssumption`, ...: their types, and that a default is not a member); `Constants` is that of
`Executor` and of the tracker in it, which are instances. What is in the last column is a
hypothesis of the theorem and not an assumption of a module, because the code does not ensure it,
and a run or a section above shows what happens without it:

- `KnownStart`: every partition of the group has a committed offset in the beginning
  (`tracker_fresh` is a group without).
- `OneWorker`: the group has one worker, the default of `start_vortex.sh:19-20`; a setting or the
  autoscaler can ask for more (`tracker_rebalance` is a group of two). `OneWorkerStays` adds that its
  partitions are only handed out when it starts, for a rebalance resumes them behind the back of
  `is_paused`.
- `IsDecided`: the sandbox says one thing of a submission; `FewFaults`: fewer faults and refusals
  than a message has attempts (`pipeline_verdict` has one too many).
- `InputsAreOwn`: no SQL submission of several cases runs natively (`grader_sql` is one).

**The arguments.** Hardly a property is inductive as it stands. What was added, and why:

*Commits.* `CommittedIsSettled`: a commit copies `k.to` from the thread that carries it, which took
it from the tracker. `TrackerInv` therefore adds that everything a tracker remembers (below
`nextCommitOffsets`, and in `completedOffsets`) and everything about to be committed is settled,
that tasks and commits are about messages of the log, and that the group never loses its committed
offset, so that the fallback to the first message asked about is not reached. It is inductive
because log and settled offsets only grow (`OnlyGrows`), even when other workers commit, crash or
take partitions over: a stale tracker remembers an old prefix, and an old prefix is settled as
well. `CommittedMonotone` needs `ForwardInv`: after a commit that raised although the broker took
it, the tracker is behind the broker, and the offsets between are still among the completed ones,
so that the next commit starts behind but does not end there. `InLog` (offsets are of messages that
are there) holds in any group. In the refinement of `AtLeastOnceLog`, `Produce` is `Append`,
`MarkCompleted` is `Settle`, `BrokerCommit` is `Commit` (by the invariant), and the rest stutters.

*Jobs.* Each action of `Executor` is one of `CommitTracker` with `tasks` computed from `jobs`, or
leaves its variables alone; the lemmas show that a job put, taken or moved to another stage is the
same for the tracker. So the tracker's theorems hold of executors, and through
`Implements` of the pipeline. `NoSubmissionLost` needs `NotLost`: a job may call `mark_completed`
only when its submission is answered, or a message of it with a higher attempt is unsettled, which
goes on to the highest attempt in the topic. `ActiveBound` needs that who is paused has paused all
its partitions, and that the jobs are finite in number (`BackPressure`). `FaultsPaid` charges each
attempt but the first to a fault of its own.

*Rows.* `PipelineInv` ties the sides together: a request speaks of a message of the topic, a row is
published exactly when its message is there, an answered submission is no longer `PENDING`, what a
PATCH reports is what the sandbox said or comes of a message dead-lettered after its last attempt,
and the attempts of a submission are in order. `VerdictIsFinal` follows from it and `FaultsPaid`:
a job that reports an error has used more faults than there are.

*Room.* `JoinInv`: of the joins of a student that overlap, at most one is about to assign, and then
nothing is assigned yet. `LateAreFew` counts the submissions that are still under way to those
already late: together fewer than threads, as the one that locked is not submitting ordinarily.
`SignalInv` is about the watched rows that nobody will look at any more (`Seen`): what such a row shows
together with what was there when it was looked at (`SeenWith`) is signalled. For a burst and for
reuse these are the rows with a smaller number, as rows are numbered when they are saved and each
request saves before it looks; they include Run Tests, which are never looked at themselves. For a
storm these are the other seen rows, since a row becomes a failure after it was saved, and the last
look sees all the failures that were reported. An update may insert a deleted row again, but none
that is not in `deleted` comes back (`NoneReturns`). The inserts still to come are counted with those
made.

*Grader.* `BoxInv` gives each box one place, a position of the queue or a job. `VerdictInv` follows
the case loop: at case *n* the program answered the *n - 1* before it, and a report says the first
it missed.

*Page.* `LockInv` says, as long as no question was left during its request, that each handler is at
work for the open question, and that a row that is polled and not decided has the lock, or is
accounted for, or has a handler that is about to take the lock back (`Restoring`). `CountInv` bounds
rows and handlers by the submissions, so that ids stay in range. `SolvedInv` also speaks of the
verdicts handlers remember for a 429.

*Load.* `SeenInv`: what a request has added up, with what it will add for the topic it is at, was
there. `RateInv` is an account: each admission is an entry of the history, or paid for by an overlap
(`Rate` each) or a failure of the cache (one each). A request that holds a copy of the history may write
back an old one and so take up to `Rate` entries out, for which it has paid with the overlap when it
read; the first to read has paid nothing, but then all who hold a copy hold what is
there, and the first of them to write takes nothing out. `OvershootBounded` needs most: a request that has counted
half the topics is neither admitted nor harmless. `OverInv` computes the depth each request *will*
have counted if the queue stays as it is (`ViewOf`), and calls it hopeful for a level when that depth
is not above the level. Backlog and hopeful requests together exceed a level by no more
than the threads and the exempt messages; and this for *every* level from the greatest threshold
on, because a commit lowers depths by one and makes requests hopeful that were so for the next
level. Cardinalities are those of the library's theorems; that a finite set of numbers has a
greatest one (`GreatestOfFinite`, `LastOfRange`) is proved from the well-foundedness of `<`.
`WithinLimits` bounds what the autoscaler asks docker for, and the containers there are from both
sides, by the route's limits and by what it was started with; a scaling that is cut off leaves a
number between the two it went from and to.

*Cards.* The texts of `Questions` are of any length, so what joining, trimming and splitting compute
needs induction over data. The library's induction theorems take an operator, which no prover
here can be given; where one is needed, the least counterexample is taken instead, from the
well-foundedness of `<` (`LeastOf`). So `Ordered(S)` lists a finite set of numbers, each once and in
increasing order, and is the only list that does (`OrderedIs`, `OrderedEnumerates`), and each text of
a `Join` stands at a place of its own, one line after the text before it (`JoinIs`, `JoinPlaces`). On
these rest the facts about texts: every text splits into paragraphs (`SplitExists`), and these are its
blocks (`BlocksOfSplit`); trimming changes no block (`TrimKeepsBlocks`); and texts of one paragraph
each, joined, have exactly these texts, trimmed, as their blocks (`JoinedParagraphs`).
`PlainCardsAreJudged` is an equivalence: plain cards are the blocks by the last fact; and if the cases
are the cards, several cards are blocks, which are single paragraphs, so they were plain. For
`ResaveKeepsCases`: cards of a stored question are its blocks, hence plain and trimmed, or the question
itself as one card, which is stored as it was.

TLC has checked each of these invariants on the runs' instances before the proof, except `Constants`
and the type lemmas. One such check, with one more submission and one more fault than `workspace`
has, refuted an earlier form of `LockedWhileJudged`, which did not name the 429 that
brings back another question's lock; the proof could not have succeeded without `overlooked`.

*Only model-checked*: liveness (`EventuallyCommitted`, `EventuallyJudged`, `EveryJobEnds`,
`EventuallyShown`, `EventuallyUnlocked`, `NoBacklogAbandoned`, `ConfigConverges`,
`SettlesAtMinimum`), which is beyond TLAPS.

## 6. What is not modelled

Workspace snapshots are rows written whole by the last writer and shown to the teacher only; that
writing one may end a create request is a step of `ExamRoom`. Run Test, which shares the Submit
button's lock, and the ends of a session are left out of `Workspace`: they would multiply the
states of its run. A worker that the autoscaler or docker ends is `Crash` in `Executor`. Routing is
a static table whose effects are `Reject` (no topic for the language) and `Misrouted` (wrong
executor). Accounts, health, metrics, admin pages, settings and scripts have no behaviour of their
own beyond their framework's or are plain I/O. Inside modelled components, section 2 says what is
left out. Kafka, Postgres, isolate, the compilers and asyncio are external and appear only as the
code uses them.

## 7. The plan

In order of importance. The first ten are done.

1. `CommitTracker`, `AtLeastOnceLog`: runs, refinement, proofs.
2. `Executor` on top of it.
3. `Submissions` and the composition `JudgingPipeline`.
4. `ExamRoom`.
5. `Grader`.
6. `Workspace`.
7. `Throttle`.
8. `Autoscaler`, and with the throttle `LoadControl`.
9. `Questions`; the caseless and inline runs in `Grader`.
10. Changes and deletions of rooms and questions in `ExamRoom`.
11. Run Test and the ends of a session in `Workspace`; marks of edited questions in `Grader`.

Proofs. Done: the type invariant and every safety invariant and action property that a passing run
checks, with the refinements, and the limits of the autoscaler. Left: liveness, and whatever item 11
adds.
