--------------------------- MODULE CommitTracker ---------------------------
(***************************************************************************)
(* Offset accounting of the executors: the CommitTracker class of           *)
(* executor_service/main.py, run by every worker of one consumer group over *)
(* the partitions of the submissions topic.                                 *)
(*                                                                          *)
(* Each worker is one process with one event loop.  poll() turns messages   *)
(* into asyncio tasks; a task grades, then calls mark_completed, which      *)
(* serialises on an asyncio lock and commits the longest run of completed   *)
(* offsets from a thread, still holding the lock.  What a task does before  *)
(* mark_completed is left to module Executor: here it may raise at any      *)
(* time.  The broker keeps the committed offset, hands out partitions, and  *)
(* starts a new owner at the committed offset.                              *)
(***************************************************************************)
EXTENDS Integers, FiniteSets

CONSTANTS
    Workers,        \* executor processes of the group
    Partitions,     \* partitions of the submissions topic
    InitCommitted,  \* the group's committed offsets before the first worker starts
    NoWorker,       \* owner of a partition no worker is assigned
    MaxOffset,      \* bound: messages ever appended to a partition
    MaxGeneration,  \* bound: rebalances that are not forced by a crash
    MaxFaults       \* bound: exceptions and crashes

NoOffset == -1      \* KafkaConsumer.committed() is None: nothing committed yet

ASSUME TrackerAssumption ==
    /\ NoWorker \notin Workers
    /\ InitCommitted \in [Partitions -> Nat \cup {NoOffset}]
    /\ MaxOffset \in Nat
    /\ MaxGeneration \in Nat
    /\ MaxFaults \in Nat

VARIABLES
    log,            \* log[p]: messages appended so far, offsets 0..log[p]-1
    committed,      \* committed[p]: committed offset kept by the broker
    owner,          \* owner[p]: the worker partition p is assigned to
    position,       \* position[p]: next offset the owner fetches, NoOffset: not fetched yet
    generation,     \* rebalances so far
    tasks,          \* tasks[w]: grading tasks that did not reach mark_completed
    nextCommitOffsets,  \* CommitTracker.next_commit_offsets of each worker
    completedOffsets,   \* CommitTracker.completed_offsets of each worker
    committing,     \* committing[w]: the commit under CommitTracker.lock, {}: lock free
    settled,        \* history: settled[p], offsets some task called mark_completed for
    faults          \* exceptions and crashes so far

brokerVars == <<log, committed, owner, position, generation>>
trackerVars == <<nextCommitOffsets, completedOffsets, committing>>
vars == <<brokerVars, tasks, trackerVars, settled, faults>>

-----------------------------------------------------------------------------

\* A run_grade_task coroutine.  generation tells two deliveries of one message
\* apart, failing is TRUE inside its "except Exception" block.
Task == [part : Partitions, offset : Nat, generation : Nat, failing : BOOLEAN]

\* A commit in the worker thread: offsets from..to-1 are being given up.
Commit == [task : Task, from : Nat, to : Nat, applied : BOOLEAN]

TypeOK ==
    /\ log \in [Partitions -> Nat]
    /\ committed \in [Partitions -> Nat \cup {NoOffset}]
    /\ owner \in [Partitions -> Workers \cup {NoWorker}]
    /\ position \in [Partitions -> Nat \cup {NoOffset}]
    /\ generation \in Nat
    /\ tasks \in [Workers -> SUBSET Task]
    /\ nextCommitOffsets \in [Workers -> [Partitions -> Nat \cup {NoOffset}]]
    /\ completedOffsets \in [Workers -> [Partitions -> SUBSET Nat]]
    /\ committing \in [Workers -> SUBSET Commit]
    /\ settled \in [Partitions -> SUBSET Nat]
    /\ faults \in Nat

FirstOffset(p) == IF InitCommitted[p] = NoOffset THEN 0 ELSE InitCommitted[p]

Init ==
    /\ log = [p \in Partitions |-> FirstOffset(p)]
    /\ committed = InitCommitted
    /\ owner = [p \in Partitions |-> NoWorker]
    /\ position = [p \in Partitions |-> NoOffset]
    /\ generation = 0
    /\ tasks = [w \in Workers |-> {}]
    /\ nextCommitOffsets = [w \in Workers |-> [p \in Partitions |-> NoOffset]]
    /\ completedOffsets = [w \in Workers |-> [p \in Partitions |-> {}]]
    /\ committing = [w \in Workers |-> {}]
    /\ settled = [p \in Partitions |-> 0..(FirstOffset(p) - 1)]
    /\ faults = 0

-----------------------------------------------------------------------------
(* The broker and the consumer's main loop. *)

Produce(p) ==
    /\ log[p] < MaxOffset
    /\ log' = [log EXCEPT ![p] = @ + 1]
    /\ UNCHANGED <<committed, owner, position, generation, tasks, trackerVars, settled, faults>>

\* Mutant: a committed offset read as the last offset done, and that one replayed.
FetchFromReplayed(p) ==
    IF position[p] # NoOffset THEN position[p]
    ELSE IF committed[p] # NoOffset THEN committed[p] - 2 ELSE 0

\* auto_offset_reset="earliest": with nothing committed the owner starts at 0.
FetchFrom(p) ==
    IF position[p] # NoOffset THEN position[p]
    ELSE IF committed[p] # NoOffset THEN committed[p] ELSE 0

\* One poll() of w and the tasks it starts: the messages below upto[p].
Poll(w, upto) ==
    LET Mine == {p \in Partitions : owner[p] = w}
        Delivered(p) == FetchFrom(p)..(upto[p] - 1)
    IN  /\ upto \in [Mine -> Nat]
        /\ \A p \in Mine : FetchFrom(p) <= upto[p] /\ upto[p] <= log[p]
        /\ \E p \in Mine : FetchFrom(p) < upto[p]
        /\ tasks' = [tasks EXCEPT ![w] = @ \cup
              UNION {{[part |-> p, offset |-> o, generation |-> generation, failing |-> FALSE] :
                        o \in Delivered(p)} : p \in Mine}]
        /\ position' = [p \in Partitions |-> IF p \in Mine THEN upto[p] ELSE position[p]]
        /\ UNCHANGED <<log, committed, owner, generation, trackerVars, settled, faults>>

\* An eager rebalance: every partition is handed out anew, and its owner will
\* ask for the committed offset.  Trackers and running tasks are not told.
Rebalance(assignment) ==
    /\ generation < MaxGeneration \/ \E p \in Partitions : owner[p] = NoWorker
    /\ assignment \in [Partitions -> Workers]
    /\ owner' = assignment
    /\ position' = [p \in Partitions |-> NoOffset]
    /\ generation' = generation + 1
    /\ UNCHANGED <<log, committed, tasks, trackerVars, settled, faults>>

\* The worker dies and starts again with an empty tracker.
Crash(w) ==
    /\ faults < MaxFaults
    /\ faults' = faults + 1
    /\ owner' = [p \in Partitions |-> IF owner[p] = w THEN NoWorker ELSE owner[p]]
    /\ tasks' = [tasks EXCEPT ![w] = {}]
    /\ nextCommitOffsets' = [nextCommitOffsets EXCEPT ![w] = [p \in Partitions |-> NoOffset]]
    /\ completedOffsets' = [completedOffsets EXCEPT ![w] = [p \in Partitions |-> {}]]
    /\ committing' = [committing EXCEPT ![w] = {}]
    /\ UNCHANGED <<log, committed, position, generation, settled>>

-----------------------------------------------------------------------------
(* The tasks. *)

\* The first exception takes a task to its except block; an exception in there
\* is logged as callback_failed and ends the task without mark_completed.
AfterException(t) == IF t.failing THEN {} ELSE {[t EXCEPT !.failing = TRUE]}

Raise(w, t) ==
    /\ t \in tasks[w]
    /\ faults < MaxFaults
    /\ faults' = faults + 1
    /\ tasks' = [tasks EXCEPT ![w] = (@ \ {t}) \cup AfterException(t)]
    /\ UNCHANGED <<brokerVars, trackerVars, settled>>

\* Mutant: every message is its own starting point.
NextCommitOffsetForgotten(w, t) == t.offset

\* _get_next_commit_offset: the remembered offset, else the committed one, else
\* the offset of the message that happens to ask first.
NextCommitOffset(w, t) ==
    IF nextCommitOffsets[w][t.part] # NoOffset THEN nextCommitOffsets[w][t.part]
    ELSE IF committed[t.part] # NoOffset THEN committed[t.part] ELSE t.offset

\* Mutant: the highest completed offset, holes or not.
RunEndsAtHighest(done, next, c) == c - 1 \in done /\ \A o \in done : o < c

\* c is where the run of completed offsets that starts at next ends.
RunEndsAt(done, next, c) == next..(c - 1) \subseteq done /\ c \notin done

\* mark_completed up to its return or to the await of the commit.
MarkCompleted(w, t) ==
    LET p == t.part
        next == NextCommitOffset(w, t)
        done == completedOffsets[w][p] \cup {t.offset}
    IN  /\ t \in tasks[w]
        /\ committing[w] = {}
        /\ nextCommitOffsets' = [nextCommitOffsets EXCEPT ![w][p] = next]
        /\ tasks' = [tasks EXCEPT ![w] = @ \ {t}]
        /\ settled' = [settled EXCEPT ![p] = @ \cup {t.offset}]
        /\ \/ /\ t.offset < next
              /\ UNCHANGED <<completedOffsets, committing>>
           \/ /\ t.offset >= next
              /\ completedOffsets' = [completedOffsets EXCEPT ![w][p] = done]
              /\ \E c \in next..log[p] :
                    /\ RunEndsAt(done, next, c)
                    /\ committing' = [committing EXCEPT ![w] =
                          IF c = next THEN {}
                          ELSE {[task |-> t, from |-> next, to |-> c, applied |-> FALSE]}]
        /\ UNCHANGED <<brokerVars, faults>>

\* Mutant: one offset too far.
BrokerCommitNext(w, k) ==
    /\ k \in committing[w]
    /\ ~k.applied
    /\ committed' = [committed EXCEPT ![k.task.part] = k.to + 1]
    /\ committing' = [committing EXCEPT ![w] = {[k EXCEPT !.applied = TRUE]}]
    /\ UNCHANGED <<log, owner, position, generation, tasks, nextCommitOffsets,
                   completedOffsets, settled, faults>>

\* The broker takes the offset.  It does not ask whether w still owns the partition.
BrokerCommit(w, k) ==
    /\ k \in committing[w]
    /\ ~k.applied
    /\ committed' = [committed EXCEPT ![k.task.part] = k.to]
    /\ committing' = [committing EXCEPT ![w] = {[k EXCEPT !.applied = TRUE]}]
    /\ UNCHANGED <<log, owner, position, generation, tasks, nextCommitOffsets,
                   completedOffsets, settled, faults>>

\* Mutant: the tracker remembers one offset too many.
FinishCommitNext(w, k) ==
    LET p == k.task.part
    IN  /\ k \in committing[w]
        /\ k.applied
        /\ completedOffsets' = [completedOffsets EXCEPT ![w][p] = @ \ (k.from..(k.to - 1))]
        /\ nextCommitOffsets' = [nextCommitOffsets EXCEPT ![w][p] = k.to + 1]
        /\ committing' = [committing EXCEPT ![w] = {}]
        /\ UNCHANGED <<brokerVars, tasks, settled, faults>>

\* Mutant: the run is forgotten, the next offset is not moved.
FinishCommitStays(w, k) ==
    LET p == k.task.part
    IN  /\ k \in committing[w]
        /\ k.applied
        /\ completedOffsets' = [completedOffsets EXCEPT ![w][p] = @ \ (k.from..(k.to - 1))]
        /\ committing' = [committing EXCEPT ![w] = {}]
        /\ UNCHANGED <<brokerVars, tasks, nextCommitOffsets, settled, faults>>

\* commit() returned: mark_completed forgets the run and releases the lock.
FinishCommit(w, k) ==
    LET p == k.task.part
    IN  /\ k \in committing[w]
        /\ k.applied
        /\ completedOffsets' = [completedOffsets EXCEPT ![w][p] = @ \ (k.from..(k.to - 1))]
        /\ nextCommitOffsets' = [nextCommitOffsets EXCEPT ![w][p] = k.to]
        /\ committing' = [committing EXCEPT ![w] = {}]
        /\ UNCHANGED <<brokerVars, tasks, settled, faults>>

\* commit() raised, before or after the broker took the offset.
CommitFails(w, k) ==
    /\ k \in committing[w]
    /\ faults < MaxFaults
    /\ faults' = faults + 1
    /\ committing' = [committing EXCEPT ![w] = {}]
    /\ tasks' = [tasks EXCEPT ![w] = @ \cup AfterException(k.task)]
    /\ UNCHANGED <<brokerVars, nextCommitOffsets, completedOffsets, settled>>

-----------------------------------------------------------------------------

Polls(w) == \E upto \in [{p \in Partitions : owner[p] = w} -> 0..MaxOffset] : Poll(w, upto)
Marks(w) == \E t \in tasks[w] : MarkCompleted(w, t)
Commits(w) == \E k \in committing[w] : BrokerCommit(w, k) \/ FinishCommit(w, k)
Rebalances == \E assignment \in [Partitions -> Workers] : Rebalance(assignment)

Next ==
    \/ \E p \in Partitions : Produce(p)
    \/ Rebalances
    \/ \E w \in Workers :
          \/ Polls(w)
          \/ Crash(w)
          \/ Marks(w)
          \/ \E t \in tasks[w] : Raise(w, t)
          \/ \E k \in committing[w] : BrokerCommit(w, k)
          \/ \E k \in committing[w] : FinishCommit(w, k)
          \/ \E k \in committing[w] : CommitFails(w, k)

Spec == Init /\ [][Next]_vars

\* The event loop keeps polling, every task finishes, commit() returns, and the
\* coordinator hands out the partitions of a worker that is gone.
Fairness ==
    /\ \A w \in Workers : WF_vars(Polls(w)) /\ WF_vars(Marks(w)) /\ WF_vars(Commits(w))
    /\ WF_vars((\E p \in Partitions : owner[p] = NoWorker) /\ Rebalances)

FairSpec == Spec /\ Fairness

-----------------------------------------------------------------------------

\* Commits only cover messages whose tasks reached mark_completed: a restart,
\* which begins at the committed offset, skips no message ("Commit Kafka offsets
\* only after grading is durably finished", main.py:42).
CommittedIsSettled ==
    \A p \in Partitions : 0..(committed[p] - 1) \subseteq settled[p]

\* A group that has one worker never takes a commit back, whatever commit()
\* reported and however often partitions are reassigned to it.
CommittedMonotone ==
    [][\A p \in Partitions : committed'[p] >= committed[p]]_committed

\* With one worker every message is in the end committed: holes in the completed
\* offsets are filled, and a failed or repeated commit is made up for.
EventuallyCommitted ==
    \A p \in Partitions : \A o \in 0..(MaxOffset - 1) :
        (log[p] > o) ~> (committed[p] > o)

\* Why CommittedIsSettled holds when the group starts from a committed offset:
\* whatever a tracker remembers or is about to commit is settled as well.
TasksAreOfLog ==
    \A w \in Workers : \A t \in tasks[w] : t.offset < log[t.part]

RememberedIsSettled ==
    \A w \in Workers : \A p \in Partitions :
        /\ 0..(nextCommitOffsets[w][p] - 1) \subseteq settled[p]
        /\ completedOffsets[w][p] \subseteq settled[p]

CommittingIsSettled ==
    \A w \in Workers : \A k \in committing[w] :
        /\ k.task.offset < log[k.task.part]
        /\ k.to <= log[k.task.part]
        /\ 0..(k.to - 1) \subseteq settled[k.task.part]

TrackerInv ==
    /\ \A p \in Partitions : committed[p] # NoOffset
    /\ CommittedIsSettled
    /\ TasksAreOfLog
    /\ RememberedIsSettled
    /\ CommittingIsSettled

Queue == INSTANCE AtLeastOnceLog

\* The trackers of all workers together implement the at-least-once log.
ImplementsAtLeastOnceLog == Queue!Spec
=============================================================================
