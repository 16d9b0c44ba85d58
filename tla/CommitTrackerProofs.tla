------------------------ MODULE CommitTrackerProofs ------------------------
(***************************************************************************)
(* The theorems about CommitTracker, for any number of workers and          *)
(* partitions, any bounds and any committed offsets the group starts from.  *)
(***************************************************************************)
EXTENDS CommitTracker, TLAPS

USE TrackerAssumption DEF NoOffset

\* The set of tasks one poll starts is a set of tasks.
LEMMA PolledTasks ==
    ASSUME TypeOK, NEW w \in Workers, NEW upto, Poll(w, upto)
    PROVE  tasks' \in [Workers -> SUBSET Task] /\ position' \in [Partitions -> Nat \cup {NoOffset}]
<1> DEFINE Mine == {p \in Partitions : owner[p] = w}
           Delivered(p) == FetchFrom(p)..(upto[p] - 1)
           Started == UNION {{[part |-> p, offset |-> o, generation |-> generation,
                               failing |-> FALSE] : o \in Delivered(p)} : p \in Mine}
<1>1. upto \in [Mine -> Nat] /\ tasks' = [tasks EXCEPT ![w] = @ \cup Started]
  BY DEF Poll
<1>2. \A p \in Mine : \A o \in Delivered(p) : o \in Nat
  <2>1. \A p \in Partitions : FetchFrom(p) \in Nat
    BY DEF TypeOK, FetchFrom
  <2> QED  BY <2>1, <1>1
<1>3. Started \in SUBSET Task
  <2>1. ASSUME NEW p \in Mine, NEW o \in Delivered(p)
        PROVE  [part |-> p, offset |-> o, generation |-> generation, failing |-> FALSE] \in Task
    BY <1>2 DEF TypeOK, Task
  <2> QED  BY <2>1
<1>4. tasks' \in [Workers -> SUBSET Task]
  <2> HIDE DEF Started
  <2> QED  BY <1>1, <1>3 DEF TypeOK
<1>5. position' \in [Partitions -> Nat \cup {NoOffset}]
  BY <1>1 DEF Poll, TypeOK
<1> QED  BY <1>4, <1>5

\* What is left of a task after an exception is a set of tasks at its message.
LEMMA AfterExceptionTasks ==
    ASSUME NEW t \in Task
    PROVE  /\ AfterException(t) \in SUBSET Task
           /\ \A u \in AfterException(t) : u.offset = t.offset /\ u.part = t.part
BY DEF AfterException, Task

\* The fields of a commit.
LEMMA CommitFields ==
    ASSUME NEW k \in Commit
    PROVE  /\ k.task \in Task /\ k.task.part \in Partitions /\ k.task.offset \in Nat
           /\ k.from \in Nat /\ k.to \in Nat
           /\ [k EXCEPT !.applied = TRUE] \in Commit
BY DEF Commit, Task

\* Type correctness of the initial state and of every step.
LEMMA TypeInit == Init => TypeOK
BY DEF Init, TypeOK, FirstOffset

LEMMA TypeStep == TypeOK /\ [Next]_vars => TypeOK'
<1> SUFFICES ASSUME TypeOK, [Next]_vars PROVE TypeOK'
  OBVIOUS
<1>1. ASSUME NEW p \in Partitions, Produce(p) PROVE TypeOK'
  BY <1>1 DEF Produce, TypeOK, trackerVars
<1>2. ASSUME Rebalances PROVE TypeOK'
  BY <1>2 DEF Rebalances, Rebalance, TypeOK, trackerVars
<1>3. ASSUME NEW w \in Workers, Polls(w) PROVE TypeOK'
  <2> PICK upto \in [{p \in Partitions : owner[p] = w} -> 0..MaxOffset] : Poll(w, upto)
    BY <1>3 DEF Polls
  <2>1. UNCHANGED <<log, committed, owner, generation, trackerVars, settled, faults>>
    BY DEF Poll
  <2> QED  BY <2>1, PolledTasks DEF TypeOK, trackerVars
<1>4. ASSUME NEW w \in Workers, Crash(w) PROVE TypeOK'
  BY <1>4 DEF Crash, TypeOK
<1>5. ASSUME NEW w \in Workers, NEW t \in tasks[w], MarkCompleted(w, t) PROVE TypeOK'
  <2> DEFINE next == NextCommitOffset(w, t)
             done == completedOffsets[w][t.part] \cup {t.offset}
  <2>1. t \in Task /\ t.part \in Partitions /\ t.offset \in Nat
    BY DEF TypeOK, Task
  <2>2. next \in Nat
    BY <2>1 DEF TypeOK, NextCommitOffset
  <2>3. done \in SUBSET Nat
    BY <2>1 DEF TypeOK
  <2>4. nextCommitOffsets' \in [Workers -> [Partitions -> Nat \cup {NoOffset}]]
    BY <1>5, <2>1, <2>2 DEF TypeOK, MarkCompleted
  <2>5. completedOffsets' \in [Workers -> [Partitions -> SUBSET Nat]]
    <3>1. \/ UNCHANGED completedOffsets
          \/ completedOffsets' = [completedOffsets EXCEPT ![w][t.part] = done]
      BY <1>5 DEF MarkCompleted
    <3> HIDE DEF done
    <3>2. CASE completedOffsets' = [completedOffsets EXCEPT ![w][t.part] = done]
      <4>1. completedOffsets[w] \in [Partitions -> SUBSET Nat]
        BY DEF TypeOK
      <4>2. [completedOffsets[w] EXCEPT ![t.part] = done] \in [Partitions -> SUBSET Nat]
        BY <2>1, <2>3, <4>1
      <4> QED  BY <3>2, <4>2 DEF TypeOK
    <3> QED  BY <3>1, <3>2 DEF TypeOK
  <2>6. committing' \in [Workers -> SUBSET Commit]
    <3>1. CASE UNCHANGED committing
      BY <3>1 DEF TypeOK
    <3>2. CASE \E c \in next..log[t.part] : committing' = [committing EXCEPT ![w] =
                  IF c = next THEN {}
                  ELSE {[task |-> t, from |-> next, to |-> c, applied |-> FALSE]}]
      <4> PICK c \in next..log[t.part] : committing' = [committing EXCEPT ![w] =
                  IF c = next THEN {}
                  ELSE {[task |-> t, from |-> next, to |-> c, applied |-> FALSE]}]
        BY <3>2
      <4>1. c \in Nat
        BY <2>1, <2>2 DEF TypeOK
      <4>2. [task |-> t, from |-> next, to |-> c, applied |-> FALSE] \in Commit
        BY <2>1, <2>2, <4>1 DEF Commit
      <4> HIDE DEF next
      <4> QED  BY <4>2 DEF TypeOK
    <3> QED  BY <1>5, <3>1, <3>2 DEF MarkCompleted
  <2>7. settled' \in [Partitions -> SUBSET Nat] /\ tasks' \in [Workers -> SUBSET Task]
    BY <1>5, <2>1 DEF TypeOK, MarkCompleted
  <2>8. UNCHANGED <<brokerVars, faults>>
    BY <1>5 DEF MarkCompleted
  <2> QED  BY <2>4, <2>5, <2>6, <2>7, <2>8 DEF TypeOK, brokerVars
<1>6. ASSUME NEW w \in Workers, NEW t \in tasks[w], Raise(w, t) PROVE TypeOK'
  <2>1. AfterException(t) \in SUBSET Task
    BY AfterExceptionTasks DEF TypeOK
  <2> QED  BY <1>6, <2>1 DEF Raise, TypeOK, brokerVars, trackerVars
<1>7. ASSUME NEW w \in Workers, NEW k \in committing[w], BrokerCommit(w, k) PROVE TypeOK'
  <2>1. k \in Commit
    BY DEF TypeOK
  <2>2. k.task.part \in Partitions /\ k.to \in Nat /\ [k EXCEPT !.applied = TRUE] \in Commit
    BY <2>1, CommitFields
  <2> QED  BY <1>7, <2>2 DEF BrokerCommit, TypeOK
<1>8. ASSUME NEW w \in Workers, NEW k \in committing[w], FinishCommit(w, k) PROVE TypeOK'
  <2>1. k \in Commit
    BY DEF TypeOK
  <2>2. k.task.part \in Partitions /\ k.to \in Nat
    BY <2>1, CommitFields
  <2> QED  BY <1>8, <2>2 DEF FinishCommit, TypeOK, brokerVars
<1>9. ASSUME NEW w \in Workers, NEW k \in committing[w], CommitFails(w, k) PROVE TypeOK'
  <2>1. AfterException(k.task) \in SUBSET Task
    BY AfterExceptionTasks DEF TypeOK, Commit
  <2> QED  BY <1>9, <2>1 DEF CommitFails, TypeOK, brokerVars
<1>10. CASE UNCHANGED vars
  BY <1>10 DEF TypeOK, vars, brokerVars, trackerVars
<1> QED
  BY <1>1, <1>2, <1>3, <1>4, <1>5, <1>6, <1>7, <1>8, <1>9, <1>10 DEF Next, Marks

\* Every behaviour of the trackers is well typed.
THEOREM TypeCorrect == Spec => []TypeOK
<1> QED  BY TypeInit, TypeStep, PTL DEF Spec
-----------------------------------------------------------------------------
(* What the trackers remember, given a group that has committed before.    *)

\* Every partition of the group has a committed offset when it starts.
KnownStart == \A p \in Partitions : InitCommitted[p] # NoOffset

LEMMA TrackerInit == KnownStart /\ Init => TrackerInv
BY DEF KnownStart, Init, TrackerInv, CommittedIsSettled, TasksAreOfLog,
       RememberedIsSettled, CommittingIsSettled, FirstOffset

\* A message is only settled once, and an appended one stays appended.
LEMMA OnlyGrows ==
    ASSUME TypeOK, [Next]_vars
    PROVE  \A p \in Partitions : log[p] <= log'[p] /\ settled[p] \subseteq settled'[p]
<1>1. ASSUME NEW p \in Partitions, Produce(p) PROVE \A q \in Partitions : log[q] <= log'[q]
  BY <1>1 DEF Produce, TypeOK
<1>2. ASSUME NEW w \in Workers, NEW t \in tasks[w], MarkCompleted(w, t)
      PROVE  \A q \in Partitions : settled[q] \subseteq settled'[q]
  BY <1>2 DEF MarkCompleted, TypeOK
<1>3. UNCHANGED log \/ \E p \in Partitions : Produce(p)
  BY DEF Next, Rebalances, Rebalance, Polls, Poll, Crash, Marks, MarkCompleted, Raise,
         BrokerCommit, FinishCommit, CommitFails, vars, brokerVars
<1>4. UNCHANGED settled \/ \E w \in Workers : \E t \in tasks[w] : MarkCompleted(w, t)
  BY DEF Next, Produce, Rebalances, Rebalance, Polls, Poll, Crash, Marks, Raise,
         BrokerCommit, FinishCommit, CommitFails, vars
<1> QED  BY <1>1, <1>2, <1>3, <1>4 DEF TypeOK

\* Every task a worker runs next is one it ran, one it polled from the log, or
\* the task of a commit that failed.
LEMMA TasksOfLogStep ==
    ASSUME TypeOK, TypeOK', TrackerInv, [Next]_vars PROVE TasksAreOfLog'
<1> USE DEF TasksAreOfLog
<1>1. \A p \in Partitions : log[p] \in Nat /\ log'[p] \in Nat /\ log[p] <= log'[p]
  BY OnlyGrows DEF TypeOK
<1>2. \A w \in Workers : \A t \in tasks[w] : t \in Task /\ t.part \in Partitions
                          /\ t.offset \in Nat /\ t.offset < log'[t.part]
  <2>1. \A w \in Workers : \A t \in tasks[w] : t \in Task
    BY DEF TypeOK
  <2>2. \A t \in Task : t.part \in Partitions /\ t.offset \in Nat
    BY DEF Task
  <2> QED  BY <1>1, <2>1, <2>2 DEF TrackerInv
<1>3. ASSUME \A w \in Workers : tasks'[w] \subseteq tasks[w] PROVE TasksAreOfLog'
  BY <1>2, <1>3
<1>4. ASSUME NEW w \in Workers, Polls(w) PROVE TasksAreOfLog'
  <2> PICK upto \in [{p \in Partitions : owner[p] = w} -> 0..MaxOffset] : Poll(w, upto)
    BY <1>4 DEF Polls
  <2> DEFINE Mine == {p \in Partitions : owner[p] = w}
             Started == UNION {{[part |-> p, offset |-> o, generation |-> generation,
                                 failing |-> FALSE] : o \in FetchFrom(p)..(upto[p] - 1)} : p \in Mine}
  <2>1. /\ tasks' = [tasks EXCEPT ![w] = @ \cup Started]
        /\ \A p \in Mine : upto[p] \in Nat /\ upto[p] <= log[p]
    BY DEF Poll
  <2>2. \A t \in Started : t.offset < log'[t.part]
    <3>1. ASSUME NEW p \in Mine, NEW o \in FetchFrom(p)..(upto[p] - 1) PROVE o < log'[p]
      <4>1. FetchFrom(p) \in Nat
        BY DEF TypeOK, FetchFrom
      <4> QED  BY <2>1, <4>1, <1>1, <3>1
    <3> QED  BY <3>1
  <2>3. \A u \in Workers : tasks'[u] \subseteq tasks[u] \cup Started
    <3> HIDE DEF Started
    <3> QED  BY <2>1 DEF TypeOK
  <2> QED  BY <2>2, <2>3, <1>2
<1>5. ASSUME NEW w \in Workers, NEW t \in tasks[w], Raise(w, t) PROVE TasksAreOfLog'
  <2>1. \A u \in Workers : tasks'[u] \subseteq tasks[u] \cup AfterException(t)
    BY <1>5 DEF Raise, TypeOK
  <2>2. \A a \in AfterException(t) : a.offset = t.offset /\ a.part = t.part
    BY <1>2, AfterExceptionTasks
  <2> QED  BY <1>2, <2>1, <2>2
<1>6. ASSUME NEW w \in Workers, NEW k \in committing[w], CommitFails(w, k) PROVE TasksAreOfLog'
  <2>1. k.task \in Task /\ k.task.part \in Partitions /\ k.task.offset \in Nat
    <3>1. k \in Commit
      BY DEF TypeOK
    <3> QED  BY <3>1, CommitFields
  <2>2. \A u \in Workers : tasks'[u] \subseteq tasks[u] \cup AfterException(k.task)
    BY <1>6 DEF CommitFails, TypeOK
  <2>3. k.task.offset < log'[k.task.part]
    BY <2>1, <1>1 DEF TrackerInv, CommittingIsSettled
  <2> QED  BY <1>2, <2>1, <2>2, <2>3, AfterExceptionTasks
<1>7. ASSUME NEW w \in Workers, Marks(w) \/ Crash(w) PROVE \A u \in Workers : tasks'[u] \subseteq tasks[u]
  <2>1. \E left \in SUBSET tasks[w] : tasks' = [tasks EXCEPT ![w] = left]
    <3>1. CASE Crash(w)
      BY <3>1 DEF Crash
    <3>2. ASSUME NEW t \in tasks[w], MarkCompleted(w, t) PROVE tasks' = [tasks EXCEPT ![w] = @ \ {t}]
      BY <3>2 DEF MarkCompleted
    <3> QED  BY <1>7, <3>1, <3>2 DEF Marks
  <2> QED  BY <2>1 DEF TypeOK
<1>8. ASSUME UNCHANGED tasks PROVE \A u \in Workers : tasks'[u] \subseteq tasks[u]
  BY <1>8
<1> QED
  BY <1>3, <1>4, <1>5, <1>6, <1>7, <1>8 DEF Next, Produce, Rebalances, Rebalance,
     BrokerCommit, FinishCommit, vars

\* The step of mark_completed: what the tracker then remembers, and what it is
\* about to commit, is settled once this message is.
LEMMA MarkCompletedStep ==
    ASSUME TypeOK, TypeOK', TrackerInv, NEW w \in Workers, NEW t \in tasks[w], MarkCompleted(w, t)
    PROVE  RememberedIsSettled' /\ CommittingIsSettled'
<1> DEFINE p == t.part
           next == NextCommitOffset(w, t)
           done == completedOffsets[w][p] \cup {t.offset}
<1>1. t \in Task /\ p \in Partitions /\ t.offset \in Nat /\ t.offset < log[p]
  <2>1. t \in Task
    BY DEF TypeOK
  <2> QED  BY <2>1 DEF Task, TrackerInv, TasksAreOfLog
<1>2. UNCHANGED <<log, committed>>
  BY DEF MarkCompleted, brokerVars
<1>3. settled' = [settled EXCEPT ![p] = @ \cup {t.offset}]
  BY DEF MarkCompleted
<1>4. /\ \A q \in Partitions : settled[q] \subseteq settled'[q]
      /\ t.offset \in settled'[p]
  BY <1>1, <1>3 DEF TypeOK
<1>5. next \in Nat /\ 0..(next - 1) \subseteq settled[p]
  BY <1>1 DEF NextCommitOffset, TypeOK, TrackerInv, CommittedIsSettled, RememberedIsSettled
<1>6. done \subseteq settled'[p]
  BY <1>1, <1>4 DEF TrackerInv, RememberedIsSettled
<1>7. nextCommitOffsets' = [nextCommitOffsets EXCEPT ![w][p] = next]
  BY DEF MarkCompleted
<1>8. \/ UNCHANGED completedOffsets
      \/ completedOffsets' = [completedOffsets EXCEPT ![w][p] = done]
  BY DEF MarkCompleted
<1>9. RememberedIsSettled'
  <2> SUFFICES ASSUME NEW u \in Workers, NEW q \in Partitions
               PROVE  /\ 0..(nextCommitOffsets'[u][q] - 1) \subseteq settled'[q]
                      /\ completedOffsets'[u][q] \subseteq settled'[q]
    BY DEF RememberedIsSettled
  <2> HIDE DEF next, done, p
  <2>1. nextCommitOffsets'[u][q] = nextCommitOffsets[u][q] \/ (q = p /\ nextCommitOffsets'[u][q] = next)
    BY <1>1, <1>7 DEF TypeOK
  <2>2. completedOffsets'[u][q] = completedOffsets[u][q] \/ (q = p /\ completedOffsets'[u][q] = done)
    <3>1. CASE completedOffsets' = [completedOffsets EXCEPT ![w][p] = done]
      BY <1>1, <3>1 DEF TypeOK
    <3> QED  BY <1>8, <3>1
  <2>3. 0..(nextCommitOffsets[u][q] - 1) \subseteq settled[q] /\ completedOffsets[u][q] \subseteq settled[q]
    BY DEF TrackerInv, RememberedIsSettled
  <2>4. settled[q] \subseteq settled'[q]
    BY <1>4
  <2>5. 0..(nextCommitOffsets'[u][q] - 1) \subseteq settled'[q]
    BY <2>1, <2>3, <2>4, <1>5
  <2>6. completedOffsets'[u][q] \subseteq settled'[q]
    BY <2>2, <2>3, <2>4, <1>6
  <2> QED  BY <2>5, <2>6
<1>10. CommittingIsSettled'
  <2>1. CASE committing' = [committing EXCEPT ![w] = {}] \/ UNCHANGED committing
    <3>1. \A u \in Workers : committing'[u] \subseteq committing[u]
      BY <2>1 DEF TypeOK
    <3>2. \A u \in Workers : \A k \in committing[u] : k.task.part \in Partitions
      BY CommitFields DEF TypeOK
    <3> QED  BY <3>1, <3>2, <1>2, <1>4 DEF TrackerInv, CommittingIsSettled
  <2>2. CASE \E c \in next..log[p] : /\ RunEndsAt(done, next, c)
                 /\ committing' = [committing EXCEPT ![w] =
                      {[task |-> t, from |-> next, to |-> c, applied |-> FALSE]}]
    <3> PICK c \in next..log[p] : /\ RunEndsAt(done, next, c)
                 /\ committing' = [committing EXCEPT ![w] =
                      {[task |-> t, from |-> next, to |-> c, applied |-> FALSE]}]
      BY <2>2
    <3>1. c \in Nat /\ c <= log[p]
      BY <1>1, <1>5 DEF TypeOK
    <3>2. 0..(c - 1) \subseteq settled'[p]
      BY <3>1, <1>1, <1>4, <1>5, <1>6 DEF RunEndsAt
    <3>3. \A u \in Workers : \A k \in committing'[u] :
             \/ k \in committing[u]
             \/ k = [task |-> t, from |-> next, to |-> c, applied |-> FALSE]
      <4> HIDE DEF next, done, p
      <4> QED  BY DEF TypeOK
    <3>4. \A u \in Workers : \A k \in committing[u] : k.task.part \in Partitions
      BY CommitFields DEF TypeOK
    <3> HIDE DEF next, done
    <3> QED  BY <3>1, <3>2, <3>3, <3>4, <1>1, <1>2, <1>4 DEF TrackerInv, CommittingIsSettled
  <2> QED  BY <2>1, <2>2 DEF MarkCompleted
<1> QED  BY <1>9, <1>10

\* The broker takes an offset only from a commit under the lock, so the
\* committed offset stays settled, and it is never forgotten again.
LEMMA CommittedStep ==
    ASSUME TypeOK, TypeOK', TrackerInv, [Next]_vars
    PROVE  CommittedIsSettled' /\ \A p \in Partitions : committed'[p] # NoOffset
<1>1. \A p \in Partitions : settled[p] \subseteq settled'[p]
  BY OnlyGrows
<1>2. CASE UNCHANGED committed
  BY <1>1, <1>2 DEF TrackerInv, CommittedIsSettled
<1>3. ASSUME NEW w \in Workers, NEW k \in committing[w], BrokerCommit(w, k)
      PROVE  CommittedIsSettled' /\ \A p \in Partitions : committed'[p] # NoOffset
  <2>1. k.task.part \in Partitions /\ k.to \in Nat
    <3>1. k \in Commit
      BY DEF TypeOK
    <3> QED  BY <3>1, CommitFields
  <2>2. 0..(k.to - 1) \subseteq settled[k.task.part]
    BY DEF TrackerInv, CommittingIsSettled
  <2>3. committed' = [committed EXCEPT ![k.task.part] = k.to]
    BY <1>3 DEF BrokerCommit
  <2> QED  BY <1>1, <2>1, <2>2, <2>3 DEF TypeOK, TrackerInv, CommittedIsSettled
<1> QED
  BY <1>2, <1>3 DEF Next, Produce, Rebalances, Rebalance, Polls, Poll, Crash, Marks, MarkCompleted,
     Raise, FinishCommit, CommitFails, vars, brokerVars

\* The steps of a commit, and all the others, keep what is remembered settled.
LEMMA RememberedStep ==
    ASSUME TypeOK, TypeOK', TrackerInv, [Next]_vars
    PROVE  RememberedIsSettled' /\ CommittingIsSettled'
<1>1. \A p \in Partitions : /\ log[p] \in Nat /\ log'[p] \in Nat /\ log[p] <= log'[p]
                           /\ settled[p] \subseteq settled'[p]
  BY OnlyGrows DEF TypeOK
<1>2. \A w \in Workers : \A k \in committing[w] :
         /\ k.task.part \in Partitions /\ k.task.offset \in Nat /\ k.to \in Nat
         /\ [k EXCEPT !.applied = TRUE].task = k.task /\ [k EXCEPT !.applied = TRUE].to = k.to
  <2>1. \A w \in Workers : \A k \in committing[w] : k \in Commit
    BY DEF TypeOK
  <2>2. \A k \in Commit : [k EXCEPT !.applied = TRUE].task = k.task /\ [k EXCEPT !.applied = TRUE].to = k.to
    BY DEF Commit
  <2> QED  BY <2>1, <2>2, CommitFields
<1>3. ASSUME UNCHANGED <<nextCommitOffsets, completedOffsets>> PROVE RememberedIsSettled'
  BY <1>1, <1>3 DEF TrackerInv, RememberedIsSettled
<1>4. ASSUME \A w \in Workers : committing'[w] \subseteq committing[w] PROVE CommittingIsSettled'
  BY <1>1, <1>2, <1>4 DEF TrackerInv, CommittingIsSettled
<1>5. ASSUME NEW w \in Workers, Crash(w) PROVE RememberedIsSettled' /\ CommittingIsSettled'
  <2>1. \A u \in Workers : committing'[u] \subseteq committing[u]
    BY <1>5 DEF Crash, TypeOK
  <2>2. RememberedIsSettled'
    <3> SUFFICES ASSUME NEW u \in Workers, NEW p \in Partitions
                 PROVE  /\ 0..(nextCommitOffsets'[u][p] - 1) \subseteq settled'[p]
                        /\ completedOffsets'[u][p] \subseteq settled'[p]
      BY DEF RememberedIsSettled
    <3>1. \/ nextCommitOffsets'[u][p] = NoOffset /\ completedOffsets'[u][p] = {}
          \/ nextCommitOffsets'[u][p] = nextCommitOffsets[u][p] /\ completedOffsets'[u][p] = completedOffsets[u][p]
      BY <1>5 DEF Crash, TypeOK
    <3> QED  BY <1>1, <3>1 DEF TrackerInv, RememberedIsSettled
  <2> QED  BY <1>4, <2>1, <2>2
<1>6. ASSUME NEW w \in Workers, NEW k \in committing[w], BrokerCommit(w, k)
      PROVE  RememberedIsSettled' /\ CommittingIsSettled'
  <2>1. \A u \in Workers : \A j \in committing'[u] :
           j \in committing[u] \/ (u = w /\ j = [k EXCEPT !.applied = TRUE])
    BY <1>6 DEF BrokerCommit, TypeOK
  <2>2. \A u \in Workers : \A j \in committing'[u] :
           \E i \in committing[u] : j.task = i.task /\ j.to = i.to
    <3> SUFFICES ASSUME NEW u \in Workers, NEW j \in committing'[u]
                 PROVE  \E i \in committing[u] : j.task = i.task /\ j.to = i.to
      OBVIOUS
    <3>1. CASE j \in committing[u]
      BY <3>1
    <3>2. CASE u = w /\ j = [k EXCEPT !.applied = TRUE]
      BY <3>2, <1>2
    <3> QED  BY <2>1, <3>1, <3>2
  <2>3. CommittingIsSettled'
    BY <1>1, <1>2, <2>2 DEF TrackerInv, CommittingIsSettled
  <2> QED  BY <1>3, <1>6, <2>3 DEF BrokerCommit
<1>7. ASSUME NEW w \in Workers, NEW k \in committing[w], FinishCommit(w, k)
      PROVE  RememberedIsSettled' /\ CommittingIsSettled'
  <2> DEFINE p == k.task.part
  <2>1. p \in Partitions /\ k.to \in Nat /\ 0..(k.to - 1) \subseteq settled[p]
    BY <1>2 DEF TrackerInv, CommittingIsSettled
  <2>2. /\ completedOffsets' = [completedOffsets EXCEPT ![w][p] = @ \ (k.from..(k.to - 1))]
        /\ nextCommitOffsets' = [nextCommitOffsets EXCEPT ![w][p] = k.to]
    BY <1>7 DEF FinishCommit
  <2>3. RememberedIsSettled'
    <3> SUFFICES ASSUME NEW u \in Workers, NEW q \in Partitions
                 PROVE  /\ 0..(nextCommitOffsets'[u][q] - 1) \subseteq settled'[q]
                        /\ completedOffsets'[u][q] \subseteq settled'[q]
      BY DEF RememberedIsSettled
    <3> HIDE DEF p
    <3>1. nextCommitOffsets'[u][q] = nextCommitOffsets[u][q] \/ (q = p /\ nextCommitOffsets'[u][q] = k.to)
      BY <2>1, <2>2 DEF TypeOK
    <3>2. completedOffsets'[u][q] \subseteq completedOffsets[u][q]
      BY <2>1, <2>2 DEF TypeOK
    <3> QED  BY <1>1, <2>1, <3>1, <3>2 DEF TrackerInv, RememberedIsSettled
  <2>4. \A u \in Workers : committing'[u] \subseteq committing[u]
    BY <1>7 DEF FinishCommit, TypeOK
  <2> QED  BY <1>4, <2>3, <2>4
<1>8. ASSUME NEW w \in Workers, NEW k \in committing[w], CommitFails(w, k)
      PROVE  RememberedIsSettled' /\ CommittingIsSettled'
  <2>1. \A u \in Workers : committing'[u] \subseteq committing[u]
    BY <1>8 DEF CommitFails, TypeOK
  <2> QED  BY <1>3, <1>4, <1>8, <2>1 DEF CommitFails
<1>9. ASSUME UNCHANGED trackerVars PROVE RememberedIsSettled' /\ CommittingIsSettled'
  BY <1>3, <1>4, <1>9 DEF trackerVars
<1> QED
  BY <1>5, <1>6, <1>7, <1>8, <1>9, MarkCompletedStep DEF Next, Produce, Rebalances, Rebalance,
     Polls, Poll, Marks, Raise, vars

\* In a group that has committed before, the committed offset never covers a
\* message that no task settled, whatever crashes, fails or is reassigned.
THEOREM CommittedSettled == KnownStart => (Spec => []CommittedIsSettled)
<1> SUFFICES ASSUME KnownStart PROVE Spec => []CommittedIsSettled
  OBVIOUS
<1>1. Init => TypeOK /\ TrackerInv
  BY TypeInit, TrackerInit
<1>2. (TypeOK /\ TrackerInv) /\ [Next]_vars => (TypeOK /\ TrackerInv)'
  BY TypeStep, TasksOfLogStep, RememberedStep, CommittedStep DEF TrackerInv
<1>3. TrackerInv => CommittedIsSettled
  BY DEF TrackerInv
<1> QED  BY <1>1, <1>2, <1>3, PTL DEF Spec

-----------------------------------------------------------------------------
(* The trackers implement the at-least-once log: a step of any of them      *)
(* appends, settles one message, moves the committed offset over settled    *)
(* messages, or is not visible there.                                       *)

LEMMA LogInit == Init => Queue!Init
BY DEF Init, Queue!Init, FirstOffset, Queue!FirstOffset, Queue!NoOffset

LEMMA LogStep ==
    ASSUME TypeOK, TypeOK', TrackerInv, [Next]_vars PROVE [Queue!Next]_Queue!vars
<1> USE DEF Queue!vars
<1>1. ASSUME NEW p \in Partitions, Produce(p) PROVE Queue!Next
  <2>1. Queue!Append(p)
    BY <1>1 DEF Produce, Queue!Append
  <2> QED  BY <2>1 DEF Queue!Next
<1>2. ASSUME NEW w \in Workers, NEW t \in tasks[w], MarkCompleted(w, t) PROVE Queue!Next
  <2>1. t \in Task /\ t.part \in Partitions /\ t.offset \in Nat /\ t.offset < log[t.part]
    <3>1. t \in Task
      BY DEF TypeOK
    <3> QED  BY <3>1 DEF Task, TrackerInv, TasksAreOfLog
  <2>2. t.offset \in 0..(log[t.part] - 1)
    BY <2>1 DEF TypeOK
  <2>3. Queue!Settle(t.part, t.offset)
    BY <1>2, <2>2 DEF MarkCompleted, brokerVars, Queue!Settle
  <2> QED  BY <2>1, <2>2, <2>3 DEF Queue!Next
<1>3. ASSUME NEW w \in Workers, NEW k \in committing[w], BrokerCommit(w, k) PROVE Queue!Next
  <2>1. k.task.part \in Partitions /\ k.to \in Nat
    <3>1. k \in Commit
      BY DEF TypeOK
    <3> QED  BY <3>1, CommitFields
  <2>2. k.to \in 0..log[k.task.part] /\ 0..(k.to - 1) \subseteq settled[k.task.part]
    BY <2>1 DEF TypeOK, TrackerInv, CommittingIsSettled
  <2>3. Queue!Commit(k.task.part, k.to)
    BY <1>3, <2>2 DEF BrokerCommit, Queue!Commit
  <2> QED  BY <2>1, <2>2, <2>3 DEF Queue!Next
<1> QED
  BY <1>1, <1>2, <1>3 DEF Next, Rebalances, Rebalance, Polls, Poll, Crash, Marks, Raise,
     FinishCommit, CommitFails, vars, brokerVars

\* What the trackers remember, and what they are about to commit, is settled too:
\* the reason why CommittedIsSettled holds.
THEOREM TrackersRememberSettled == KnownStart => (Spec => []TrackerInv)
<1> SUFFICES ASSUME KnownStart PROVE Spec => []TrackerInv
  OBVIOUS
<1>1. Init => TypeOK /\ TrackerInv
  BY TypeInit, TrackerInit
<1>2. (TypeOK /\ TrackerInv) /\ [Next]_vars => (TypeOK /\ TrackerInv)'
  BY TypeStep, TasksOfLogStep, RememberedStep, CommittedStep DEF TrackerInv
<1> QED  BY <1>1, <1>2, PTL DEF Spec

\* A group that has committed before implements AtLeastOnceLog.
THEOREM TrackersImplementLog == KnownStart => (Spec => ImplementsAtLeastOnceLog)
<1> SUFFICES ASSUME KnownStart PROVE Spec => Queue!Spec
  BY DEF ImplementsAtLeastOnceLog
<1>1. Init => TypeOK /\ TrackerInv
  BY TypeInit, TrackerInit
<1>2. (TypeOK /\ TrackerInv) /\ [Next]_vars => (TypeOK /\ TrackerInv)'
  BY TypeStep, TasksOfLogStep, RememberedStep, CommittedStep DEF TrackerInv
<1>3. TypeOK /\ TypeOK' /\ TrackerInv /\ [Next]_vars => [Queue!Next]_Queue!vars
  BY LogStep
<1> QED  BY <1>1, <1>2, <1>3, LogInit, PTL DEF Spec, Queue!Spec
-----------------------------------------------------------------------------
(* A group with one worker never takes a commit back.                      *)

\* The group has one worker.
OneWorker == \E w \in Workers : Workers = {w}

\* What the tracker remembers and the broker does not confirm, or the other way
\* round: after a commit that raised although the broker took it, the offsets
\* that were committed are still among the completed ones.
BehindIsCompleted ==
    \A w \in Workers : \A p \in Partitions :
        nextCommitOffsets[w][p] # NoOffset /\ committed[p] # NoOffset =>
            /\ nextCommitOffsets[w][p] <= committed[p]
            /\ nextCommitOffsets[w][p]..(committed[p] - 1) \subseteq completedOffsets[w][p]

\* A commit in the thread starts at the remembered offset, covers completed
\* ones, and does not end below what is committed.
CommitGoesForward ==
    \A w \in Workers : \A k \in committing[w] :
        /\ committing[w] = {k}
        /\ k.from = nextCommitOffsets[w][k.task.part]
        /\ k.from <= k.to
        /\ k.from..(k.to - 1) \subseteq completedOffsets[w][k.task.part]
        /\ IF k.applied THEN committed[k.task.part] = k.to ELSE committed[k.task.part] <= k.to

ForwardInv == BehindIsCompleted /\ CommitGoesForward

LEMMA ForwardInit == Init => ForwardInv
BY DEF Init, ForwardInv, BehindIsCompleted, CommitGoesForward

\* mark_completed extends a run that contains what is committed beyond it, so
\* the run ends at or after the committed offset.
LEMMA ForwardMark ==
    ASSUME TypeOK, TypeOK', ForwardInv, NEW w \in Workers, Workers = {w},
           NEW t \in tasks[w], MarkCompleted(w, t)
    PROVE  ForwardInv'
<1> DEFINE p == t.part
           next == NextCommitOffset(w, t)
           done == completedOffsets[w][p] \cup {t.offset}
<1>1. t \in Task /\ p \in Partitions /\ t.offset \in Nat
  BY DEF TypeOK, Task
<1>2. /\ next \in Nat
      /\ committed[p] # NoOffset => next <= committed[p] /\ next..(committed[p] - 1) \subseteq completedOffsets[w][p]
  BY <1>1 DEF NextCommitOffset, TypeOK, ForwardInv, BehindIsCompleted
<1>3. UNCHANGED committed /\ committing[w] = {}
  BY DEF MarkCompleted, brokerVars
<1>4. nextCommitOffsets' = [nextCommitOffsets EXCEPT ![w][p] = next]
  BY DEF MarkCompleted
<1>5. \/ UNCHANGED <<completedOffsets, committing>>
      \/ completedOffsets' = [completedOffsets EXCEPT ![w][p] = done]
  BY DEF MarkCompleted
<1>6. \A q \in Partitions :
         /\ nextCommitOffsets'[w][q] = IF q = p THEN next ELSE nextCommitOffsets[w][q]
         /\ completedOffsets[w][q] \subseteq completedOffsets'[w][q]
  <2> HIDE DEF next
  <2>1. \A q \in Partitions : nextCommitOffsets'[w][q] = IF q = p THEN next ELSE nextCommitOffsets[w][q]
    BY <1>1, <1>4 DEF TypeOK
  <2>2. \A q \in Partitions : completedOffsets[w][q] \subseteq completedOffsets'[w][q]
    BY <1>1, <1>5 DEF TypeOK
  <2> QED  BY <2>1, <2>2
<1>7. BehindIsCompleted'
  <2> HIDE DEF next, done, p
  <2> QED  BY <1>1, <1>2, <1>3, <1>6 DEF ForwardInv, BehindIsCompleted
<1>8. CommitGoesForward'
  <2>1. CASE committing' = [committing EXCEPT ![w] = {}] \/ UNCHANGED committing
    <3>1. committing'[w] = {}
      BY <1>3, <2>1 DEF TypeOK
    <3> QED  BY <3>1 DEF CommitGoesForward
  <2>2. CASE \E c \in next..log[p] :
                 /\ RunEndsAt(done, next, c)
                 /\ completedOffsets' = [completedOffsets EXCEPT ![w][p] = done]
                 /\ committing' = [committing EXCEPT ![w] =
                      {[task |-> t, from |-> next, to |-> c, applied |-> FALSE]}]
    <3> PICK c \in next..log[p] :
                 /\ RunEndsAt(done, next, c)
                 /\ completedOffsets' = [completedOffsets EXCEPT ![w][p] = done]
                 /\ committing' = [committing EXCEPT ![w] =
                      {[task |-> t, from |-> next, to |-> c, applied |-> FALSE]}]
      BY <2>2
    <3>1. c \in Nat /\ next <= c /\ next..(c - 1) \subseteq done /\ c \notin done
      BY <1>1, <1>2 DEF TypeOK, RunEndsAt
    <3>2. committed[p] <= c
      <4>1. committed[p] \in Nat \cup {NoOffset}
        BY <1>1 DEF TypeOK
      <4>2. ASSUME committed[p] \in Nat, committed[p] > c PROVE FALSE
        <5>1. c \in next..(committed[p] - 1)
          BY <3>1, <1>2, <4>2
        <5> QED  BY <5>1, <4>2, <3>1, <1>2
      <4> QED  BY <3>1, <4>1, <4>2
    <3>3. completedOffsets'[w][p] = done
      <4> HIDE DEF done
      <4> QED  BY <1>1 DEF TypeOK
    <3>4. committing'[w] = {[task |-> t, from |-> next, to |-> c, applied |-> FALSE]}
      <4> HIDE DEF next
      <4> QED  BY DEF TypeOK
    <3> DEFINE k == [task |-> t, from |-> next, to |-> c, applied |-> FALSE]
    <3>5. k.task.part = p /\ k.from = next /\ k.to = c /\ k.applied = FALSE
      OBVIOUS
    <3>6. nextCommitOffsets'[w][p] = next /\ committed'[p] <= c
      BY <1>1, <1>3, <1>6, <3>2
    <3> HIDE DEF next, done, p, k
    <3>7. \A j \in committing'[w] : j = k
      BY <3>4 DEF k
    <3>8. committing'[w] = {k}
      BY <3>4 DEF k
    <3> QED  BY <3>1, <3>3, <3>5, <3>6, <3>7, <3>8 DEF CommitGoesForward
  <2> QED  BY <1>5, <2>1, <2>2 DEF MarkCompleted
<1> QED  BY <1>7, <1>8 DEF ForwardInv

LEMMA ForwardStep ==
    ASSUME TypeOK, TypeOK', ForwardInv, OneWorker, [Next]_vars
    PROVE  ForwardInv' /\ \A p \in Partitions : committed'[p] >= committed[p]
<1> PICK w \in Workers : Workers = {w}
  BY DEF OneWorker
<1>1. \A k \in committing[w] : k \in Commit /\ k.task.part \in Partitions /\ k.from \in Nat /\ k.to \in Nat
  BY CommitFields DEF TypeOK
<1>2. \A p \in Partitions : committed[p] \in Nat \cup {NoOffset}
  BY DEF TypeOK
<1>3. ASSUME UNCHANGED <<committed, nextCommitOffsets, completedOffsets>>, committing'[w] \in {{}, committing[w]}
      PROVE  ForwardInv' /\ \A p \in Partitions : committed'[p] >= committed[p]
  BY <1>2, <1>3 DEF ForwardInv, BehindIsCompleted, CommitGoesForward
<1>4. CASE Crash(w)
  <2>1. /\ UNCHANGED committed
        /\ committing'[w] = {}
        /\ nextCommitOffsets'[w] = [p \in Partitions |-> NoOffset]
    BY <1>4 DEF Crash, TypeOK
  <2> QED  BY <1>2, <2>1 DEF ForwardInv, BehindIsCompleted, CommitGoesForward
<1>5. ASSUME NEW t \in tasks[w], MarkCompleted(w, t)
      PROVE  ForwardInv' /\ \A p \in Partitions : committed'[p] >= committed[p]
  <2>1. ForwardInv'
    BY <1>5, ForwardMark
  <2>2. UNCHANGED committed
    BY <1>5 DEF MarkCompleted, brokerVars
  <2> QED  BY <1>2, <2>1, <2>2
<1>6. ASSUME NEW k \in committing[w], BrokerCommit(w, k)
      PROVE  ForwardInv' /\ \A p \in Partitions : committed'[p] >= committed[p]
  <2> DEFINE p == k.task.part
             done == [k EXCEPT !.applied = TRUE]
  <2>1. /\ p \in Partitions /\ k.to \in Nat /\ k.from \in Nat
        /\ done.task = k.task /\ done.from = k.from /\ done.to = k.to /\ done.applied
    BY <1>1 DEF Commit
  <2>2. /\ UNCHANGED <<nextCommitOffsets, completedOffsets>>
        /\ committed' = [committed EXCEPT ![p] = k.to]
        /\ committing'[w] = {done}
        /\ ~k.applied
    BY <1>6 DEF BrokerCommit, TypeOK
  <2>3. /\ k.from = nextCommitOffsets[w][p] /\ k.from <= k.to /\ committed[p] <= k.to
        /\ k.from..(k.to - 1) \subseteq completedOffsets[w][p]
    BY <2>2 DEF ForwardInv, CommitGoesForward
  <2>4. \A q \in Partitions : committed'[q] = IF q = p THEN k.to ELSE committed[q]
    BY <2>1, <2>2 DEF TypeOK
  <2> HIDE DEF p, done
  <2>5. BehindIsCompleted'
    BY <2>1, <2>2, <2>3, <2>4 DEF ForwardInv, BehindIsCompleted
  <2>6. CommitGoesForward'
    BY <2>1, <2>2, <2>3, <2>4 DEF CommitGoesForward, p
  <2> QED  BY <1>2, <2>3, <2>4, <2>5, <2>6 DEF ForwardInv
<1>7. ASSUME NEW k \in committing[w], FinishCommit(w, k)
      PROVE  ForwardInv' /\ \A p \in Partitions : committed'[p] >= committed[p]
  <2> DEFINE p == k.task.part
  <2>1. p \in Partitions /\ k.to \in Nat /\ committed[p] = k.to
    BY <1>1, <1>7 DEF FinishCommit, ForwardInv, CommitGoesForward
  <2>2. UNCHANGED committed /\ committing'[w] = {}
    BY <1>7 DEF FinishCommit, brokerVars, TypeOK
  <2>3. \A q \in Partitions : q # p =>
           /\ nextCommitOffsets'[w][q] = nextCommitOffsets[w][q]
           /\ completedOffsets'[w][q] = completedOffsets[w][q]
    BY <1>7, <2>1 DEF FinishCommit, TypeOK
  <2>4. nextCommitOffsets'[w][p] = k.to
    BY <1>7, <2>1 DEF FinishCommit, TypeOK
  <2> HIDE DEF p
  <2>5. BehindIsCompleted'
    BY <2>1, <2>2, <2>3, <2>4 DEF ForwardInv, BehindIsCompleted
  <2> QED  BY <1>2, <2>2, <2>5 DEF ForwardInv, CommitGoesForward
<1>8. ASSUME NEW k \in committing[w], CommitFails(w, k)
      PROVE  UNCHANGED <<committed, nextCommitOffsets, completedOffsets>> /\ committing'[w] = {}
  BY <1>8 DEF CommitFails, brokerVars, TypeOK
<1> QED
  BY <1>3, <1>4, <1>5, <1>6, <1>7, <1>8 DEF Next, Produce, Rebalances, Rebalance, Polls, Poll,
     Marks, Raise, vars, brokerVars, trackerVars

\* A group with one worker never takes a commit back, also after a commit that
\* raised although the broker took it.
THEOREM CommitsNeverMoveBack == OneWorker => (Spec => CommittedMonotone)
<1> SUFFICES ASSUME OneWorker PROVE Spec => CommittedMonotone
  OBVIOUS
<1>1. Init => TypeOK /\ ForwardInv
  BY TypeInit, ForwardInit
<1>2. (TypeOK /\ ForwardInv) /\ [Next]_vars => (TypeOK /\ ForwardInv)'
  BY TypeStep, ForwardStep
<1>3. TypeOK /\ TypeOK' /\ ForwardInv /\ [Next]_vars
         => [\A p \in Partitions : committed'[p] >= committed[p]]_committed
  BY ForwardStep
<1> QED  BY <1>1, <1>2, <1>3, PTL DEF Spec, CommittedMonotone

-----------------------------------------------------------------------------
(* Offsets stay inside the log: nothing below the offset the group started   *)
(* from is ever fetched, remembered or committed, and nothing that was not   *)
(* appended is settled.  It holds for a fresh group too.                     *)

BrokerInLog ==
    \A p \in Partitions :
        /\ FirstOffset(p) <= log[p]
        /\ settled[p] \subseteq 0..(log[p] - 1)
        /\ IF committed[p] = NoOffset THEN FirstOffset(p) = 0 ELSE FirstOffset(p) <= committed[p]
        /\ position[p] # NoOffset => FirstOffset(p) <= position[p]

RememberedInLog ==
    \A w \in Workers : \A p \in Partitions :
        nextCommitOffsets[w][p] # NoOffset => FirstOffset(p) <= nextCommitOffsets[w][p]

TasksInLog ==
    \A w \in Workers : \A t \in tasks[w] :
        FirstOffset(t.part) <= t.offset /\ t.offset < log[t.part]

CommittingInLog ==
    \A w \in Workers : \A k \in committing[w] :
        /\ FirstOffset(k.task.part) <= k.task.offset /\ k.task.offset < log[k.task.part]
        /\ FirstOffset(k.task.part) <= k.from /\ k.from <= k.to

InLog == BrokerInLog /\ RememberedInLog /\ TasksInLog /\ CommittingInLog

LEMMA InLogInit == Init => InLog
BY DEF Init, InLog, BrokerInLog, RememberedInLog, TasksInLog, CommittingInLog, FirstOffset

LEMMA FirstOffsetNat == \A p \in Partitions : FirstOffset(p) \in Nat
BY DEF FirstOffset

LEMMA BrokerInLogStep == ASSUME TypeOK, TypeOK', InLog, [Next]_vars PROVE BrokerInLog'
<1>1. \A p \in Partitions : FirstOffset(p) \in Nat /\ log[p] \in Nat /\ log'[p] \in Nat /\ log[p] <= log'[p]
  BY FirstOffsetNat, OnlyGrows DEF TypeOK
<1>2. ASSUME NEW w \in Workers, NEW upto \in [{p \in Partitions : owner[p] = w} -> 0..MaxOffset], Poll(w, upto)
      PROVE  BrokerInLog'
  <2>1. UNCHANGED <<log, committed, settled>>
    BY <1>2 DEF Poll
  <2>2. ASSUME NEW p \in Partitions, owner[p] = w PROVE FirstOffset(p) <= upto[p]
    <3>1. FetchFrom(p) <= upto[p] /\ upto[p] \in Nat
      BY <1>2, <2>2 DEF Poll
    <3>2. FetchFrom(p) \in Nat /\ FirstOffset(p) <= FetchFrom(p)
      BY <1>1 DEF FetchFrom, TypeOK, InLog, BrokerInLog
    <3> QED  BY <1>1, <3>1, <3>2
  <2>3. \A p \in Partitions : position'[p] = IF owner[p] = w THEN upto[p] ELSE position[p]
    BY <1>2 DEF Poll
  <2> QED  BY <2>1, <2>2, <2>3 DEF InLog, BrokerInLog
<1>3. ASSUME NEW p \in Partitions, Produce(p) PROVE BrokerInLog'
  BY <1>1, <1>3 DEF Produce, InLog, BrokerInLog
<1>4. CASE Rebalances
  BY <1>4 DEF Rebalances, Rebalance, InLog, BrokerInLog
<1>5. ASSUME NEW w \in Workers, NEW t \in tasks[w], MarkCompleted(w, t) PROVE BrokerInLog'
  <2>1. t \in Task /\ t.part \in Partitions /\ t.offset \in 0..(log[t.part] - 1)
    <3>1. t \in Task
      BY DEF TypeOK
    <3> QED  BY <1>1, <3>1 DEF Task, InLog, TasksInLog
  <2>2. UNCHANGED <<log, committed, position>> /\ settled' = [settled EXCEPT ![t.part] = @ \cup {t.offset}]
    BY <1>5 DEF MarkCompleted, brokerVars
  <2>3. \A p \in Partitions : settled'[p] \subseteq 0..(log[p] - 1)
    BY <2>1, <2>2 DEF TypeOK, InLog, BrokerInLog
  <2> QED  BY <2>2, <2>3 DEF InLog, BrokerInLog
<1>6. ASSUME NEW w \in Workers, NEW k \in committing[w], BrokerCommit(w, k) PROVE BrokerInLog'
  <2>1. k.task.part \in Partitions /\ k.from \in Nat /\ k.to \in Nat
    <3>1. k \in Commit
      BY DEF TypeOK
    <3> QED  BY <3>1, CommitFields
  <2>2. FirstOffset(k.task.part) <= k.to
    BY <1>1, <2>1 DEF InLog, CommittingInLog
  <2>3. /\ UNCHANGED <<log, position, settled>>
        /\ committed' = [committed EXCEPT ![k.task.part] = k.to]
    BY <1>6 DEF BrokerCommit
  <2> QED  BY <2>1, <2>2, <2>3 DEF TypeOK, InLog, BrokerInLog
<1>7. CASE UNCHANGED <<log, committed, position, settled>>
  BY <1>7 DEF InLog, BrokerInLog
<1> QED
  BY <1>2, <1>3, <1>4, <1>5, <1>6, <1>7 DEF Next, Polls, Marks, Crash, Raise, FinishCommit,
     CommitFails, vars, brokerVars

LEMMA TasksInLogStep == ASSUME TypeOK, TypeOK', InLog, [Next]_vars PROVE TasksInLog'
<1> DEFINE In(t) == FirstOffset(t.part) <= t.offset /\ t.offset < log'[t.part]
<1>1. \A p \in Partitions : FirstOffset(p) \in Nat /\ log[p] \in Nat /\ log'[p] \in Nat /\ log[p] <= log'[p]
  BY FirstOffsetNat, OnlyGrows DEF TypeOK
<1>2. \A w \in Workers : \A t \in tasks[w] : t \in Task /\ In(t)
  <2>1. \A w \in Workers : \A t \in tasks[w] : t \in Task /\ t.part \in Partitions /\ t.offset \in Nat
    BY DEF TypeOK, Task
  <2> QED  BY <1>1, <2>1 DEF InLog, TasksInLog
<1>3. ASSUME NEW more, \A t \in more : In(t),
             \A w \in Workers : tasks'[w] \subseteq tasks[w] \cup more
      PROVE  TasksInLog'
  BY <1>2, <1>3 DEF TasksInLog
<1>4. ASSUME \A w \in Workers : tasks'[w] \subseteq tasks[w] PROVE TasksInLog'
  BY <1>2, <1>4 DEF TasksInLog
<1>5. ASSUME NEW w \in Workers, NEW upto \in [{p \in Partitions : owner[p] = w} -> 0..MaxOffset], Poll(w, upto)
      PROVE  TasksInLog'
  <2> DEFINE Mine == {p \in Partitions : owner[p] = w}
             Started == UNION {{[part |-> p, offset |-> o, generation |-> generation,
                                 failing |-> FALSE] : o \in FetchFrom(p)..(upto[p] - 1)} : p \in Mine}
  <2>1. /\ tasks' = [tasks EXCEPT ![w] = @ \cup Started]
        /\ \A p \in Mine : upto[p] \in Nat /\ upto[p] <= log[p]
    BY <1>5 DEF Poll
  <2>2. ASSUME NEW p \in Mine, NEW o \in FetchFrom(p)..(upto[p] - 1)
        PROVE  In([part |-> p, offset |-> o, generation |-> generation, failing |-> FALSE])
    <3>1. FetchFrom(p) \in Nat /\ FirstOffset(p) <= FetchFrom(p)
      BY <1>1 DEF FetchFrom, TypeOK, InLog, BrokerInLog
    <3>2. FirstOffset(p) <= o /\ o < log'[p]
      BY <1>1, <2>1, <3>1
    <3> QED  BY <3>2
  <2>3. \A t \in Started : In(t)
    <3> HIDE DEF In
    <3> QED  BY <2>2
  <2>4. \A u \in Workers : tasks'[u] \subseteq tasks[u] \cup Started
    <3> HIDE DEF Started
    <3> QED  BY <2>1 DEF TypeOK
  <2> HIDE DEF Started, In
  <2> QED  BY <1>3, <2>3, <2>4
<1>6. ASSUME NEW w \in Workers, NEW t \in tasks[w], Raise(w, t) PROVE TasksInLog'
  <2>1. \A u \in Workers : tasks'[u] \subseteq tasks[u] \cup AfterException(t)
    BY <1>6 DEF Raise, TypeOK
  <2>2. \A a \in AfterException(t) : In(a)
    BY <1>2, AfterExceptionTasks
  <2> HIDE DEF In
  <2> QED  BY <1>3, <2>1, <2>2
<1>7. ASSUME NEW w \in Workers, NEW k \in committing[w], CommitFails(w, k) PROVE TasksInLog'
  <2>1. k.task \in Task /\ k.task.part \in Partitions /\ k.task.offset \in Nat
    <3>1. k \in Commit
      BY DEF TypeOK
    <3> QED  BY <3>1, CommitFields
  <2>2. \A u \in Workers : tasks'[u] \subseteq tasks[u] \cup AfterException(k.task)
    BY <1>7 DEF CommitFails, TypeOK
  <2>3. In(k.task)
    BY <1>1, <2>1 DEF InLog, CommittingInLog
  <2>4. \A a \in AfterException(k.task) : In(a)
    BY <2>1, <2>3, AfterExceptionTasks
  <2> HIDE DEF In
  <2> QED  BY <1>3, <2>2, <2>4
<1>8. ASSUME NEW w \in Workers, Marks(w) \/ Crash(w) PROVE \A u \in Workers : tasks'[u] \subseteq tasks[u]
  <2>1. \E left \in SUBSET tasks[w] : tasks' = [tasks EXCEPT ![w] = left]
    <3>1. CASE Crash(w)
      BY <3>1 DEF Crash
    <3>2. ASSUME NEW t \in tasks[w], MarkCompleted(w, t) PROVE tasks' = [tasks EXCEPT ![w] = @ \ {t}]
      BY <3>2 DEF MarkCompleted
    <3> QED  BY <1>8, <3>1, <3>2 DEF Marks
  <2> QED  BY <2>1 DEF TypeOK
<1>9. ASSUME UNCHANGED tasks PROVE \A u \in Workers : tasks'[u] \subseteq tasks[u]
  BY <1>9
<1> QED
  BY <1>4, <1>5, <1>6, <1>7, <1>8, <1>9 DEF Next, Polls, Produce, Rebalances, Rebalance,
     BrokerCommit, FinishCommit, vars

LEMMA TrackersInLogStep ==
    ASSUME TypeOK, TypeOK', InLog, [Next]_vars PROVE RememberedInLog' /\ CommittingInLog'
<1>1. \A p \in Partitions : FirstOffset(p) \in Nat /\ log[p] \in Nat /\ log'[p] \in Nat /\ log[p] <= log'[p]
  BY FirstOffsetNat, OnlyGrows DEF TypeOK
<1>2. \A w \in Workers : \A k \in committing[w] :
         /\ k.task.part \in Partitions /\ k.task.offset \in Nat /\ k.from \in Nat /\ k.to \in Nat
         /\ FirstOffset(k.task.part) <= k.task.offset /\ k.task.offset < log'[k.task.part]
         /\ FirstOffset(k.task.part) <= k.from /\ k.from <= k.to
  <2>1. \A w \in Workers : \A k \in committing[w] :
           k.task.part \in Partitions /\ k.task.offset \in Nat /\ k.from \in Nat /\ k.to \in Nat
    BY CommitFields DEF TypeOK
  <2> QED  BY <1>1, <2>1 DEF InLog, CommittingInLog
<1>3. ASSUME \A u \in Workers : \A j \in committing'[u] :
                \E i \in committing[u] : j.task = i.task /\ j.from = i.from /\ j.to = i.to
      PROVE  CommittingInLog'
  BY <1>2, <1>3 DEF CommittingInLog
<1>4. ASSUME \A u \in Workers : committing'[u] \subseteq committing[u] PROVE CommittingInLog'
  BY <1>2, <1>4 DEF CommittingInLog
<1>5. ASSUME NEW w \in Workers, NEW t \in tasks[w], MarkCompleted(w, t)
      PROVE  RememberedInLog' /\ CommittingInLog'
  <2> DEFINE p == t.part
             next == NextCommitOffset(w, t)
             done == completedOffsets[w][p] \cup {t.offset}
  <2>1. p \in Partitions /\ t.offset \in Nat /\ FirstOffset(p) <= t.offset /\ t.offset < log[p]
    <3>1. t \in Task
      BY DEF TypeOK
    <3> QED  BY <3>1 DEF Task, InLog, TasksInLog
  <2>2. next \in Nat /\ FirstOffset(p) <= next
    BY <2>1, <1>1 DEF NextCommitOffset, TypeOK, InLog, RememberedInLog, BrokerInLog
  <2>3. nextCommitOffsets' = [nextCommitOffsets EXCEPT ![w][p] = next]
    BY <1>5 DEF MarkCompleted
  <2>4. RememberedInLog'
    <3> HIDE DEF next, p
    <3> QED  BY <2>1, <2>2, <2>3 DEF TypeOK, InLog, RememberedInLog
  <2>5. CommittingInLog'
    <3>1. CASE committing' = [committing EXCEPT ![w] = {}] \/ UNCHANGED committing
      <4>1. \A u \in Workers : committing'[u] \subseteq committing[u]
        BY <3>1 DEF TypeOK
      <4> QED  BY <4>1, <1>4
    <3>2. ASSUME NEW c \in next..log[p], committing' = [committing EXCEPT ![w] =
                        {[task |-> t, from |-> next, to |-> c, applied |-> FALSE]}]
          PROVE  CommittingInLog'
      <4>1. \A u \in Workers : \A k \in committing'[u] :
               \/ k \in committing[u]
               \/ k.task = t /\ k.from = next /\ k.to = c
        <5> HIDE DEF next, p
        <5> QED  BY <3>2 DEF TypeOK
      <4>2. next <= c /\ t.offset < log'[p]
        BY <1>1, <2>1, <2>2
      <4> HIDE DEF next
      <4> QED  BY <4>1, <4>2, <1>2, <2>1, <2>2 DEF CommittingInLog
    <3> QED  BY <1>5, <3>1, <3>2 DEF MarkCompleted
  <2> QED  BY <2>4, <2>5
<1>6. ASSUME NEW w \in Workers, NEW k \in committing[w], BrokerCommit(w, k)
      PROVE  CommittingInLog' /\ UNCHANGED nextCommitOffsets
  <2> DEFINE done == [k EXCEPT !.applied = TRUE]
  <2>1. k \in Commit /\ done.task = k.task /\ done.from = k.from /\ done.to = k.to
    BY DEF TypeOK, Commit
  <2>2. \A u \in Workers : \A j \in committing'[u] : j \in committing[u] \/ (u = w /\ j = done)
    BY <1>6 DEF BrokerCommit, TypeOK
  <2> HIDE DEF done
  <2>3. CommittingInLog'
    BY <1>3, <2>1, <2>2
  <2> QED  BY <1>6, <2>3 DEF BrokerCommit
<1>7. ASSUME NEW w \in Workers, NEW k \in committing[w], FinishCommit(w, k)
      PROVE  RememberedInLog' /\ CommittingInLog'
  <2>1. \A u \in Workers : committing'[u] \subseteq committing[u]
    BY <1>7 DEF FinishCommit, TypeOK
  <2>2. k.to \in Nat /\ FirstOffset(k.task.part) <= k.to
    BY <1>1, <1>2
  <2>3. nextCommitOffsets' = [nextCommitOffsets EXCEPT ![w][k.task.part] = k.to]
    BY <1>7 DEF FinishCommit
  <2>4. RememberedInLog'
    BY <1>2, <2>2, <2>3 DEF TypeOK, InLog, RememberedInLog
  <2> QED  BY <1>4, <2>1, <2>4
<1>8. ASSUME NEW w \in Workers, NEW k \in committing[w], CommitFails(w, k)
      PROVE  CommittingInLog' /\ UNCHANGED nextCommitOffsets
  <2>1. \A u \in Workers : committing'[u] \subseteq committing[u]
    BY <1>8 DEF CommitFails, TypeOK
  <2> QED  BY <1>4, <1>8, <2>1 DEF CommitFails
<1>9. ASSUME NEW w \in Workers, Crash(w) PROVE RememberedInLog' /\ CommittingInLog'
  <2>1. \A u \in Workers : committing'[u] \subseteq committing[u]
    BY <1>9 DEF Crash, TypeOK
  <2>2. \A u \in Workers : \A p \in Partitions :
           nextCommitOffsets'[u][p] \in {NoOffset, nextCommitOffsets[u][p]}
    BY <1>9 DEF Crash, TypeOK
  <2> QED  BY <1>4, <2>1, <2>2 DEF InLog, RememberedInLog
<1>10. ASSUME UNCHANGED trackerVars PROVE CommittingInLog' /\ UNCHANGED nextCommitOffsets
  BY <1>4, <1>10 DEF trackerVars
<1>11. UNCHANGED nextCommitOffsets => RememberedInLog'
  BY DEF InLog, RememberedInLog
<1> QED
  BY <1>5, <1>6, <1>7, <1>8, <1>9, <1>10, <1>11 DEF Next, Produce, Rebalances, Rebalance,
     Polls, Poll, Marks, Raise, vars

LEMMA InLogStep == ASSUME TypeOK, TypeOK', InLog, [Next]_vars PROVE InLog'
BY BrokerInLogStep, TasksInLogStep, TrackersInLogStep DEF InLog
=============================================================================
