------------------------------ MODULE ExamRoom ------------------------------
(***************************************************************************)
(* One exam room in core_api/views.py: its teacher's changes and deletions, *)
(* joining, presence, moderation and the admission of submissions, with the *)
(* signals of core_api/suspicion.py.                                        *)
(*                                                                          *)
(* Django serves requests in threads and every ORM statement commits on its *)
(* own, so a request is a sequence of steps that act on what the request    *)
(* read earlier; only a create request saves its row and an automatic lock  *)
(* in one transaction.  A request that is answered with an error at its     *)
(* first read changes nothing and is no step.                               *)
(*                                                                          *)
(* All rows are young enough for every look-back window.  The audit events  *)
(* of joins and locks are written and never read, and are left out, and so  *)
(* are the workspace snapshots.  The schedule of a room only decides when   *)
(* joins are refused.  A create request ends here when its row is judged at *)
(* once, sent to a judge or not sent; the message is in Submissions.        *)
(***************************************************************************)
EXTENDS Integers, FiniteSets

CONSTANTS
    Students,
    Questions,          \* questions the room may ever have
    NoQuestion,         \* of a submission without a question, the page's Run Test
    Workspaces,         \* signatures of what a student hands in
    Assignable,         \* what the teacher may set questions_to_assign to
    Threads,            \* Django's request threads
    BurstThreshold,     \* SUSPICIOUS_SUBMISSION_BURST_THRESHOLD
    StormThreshold,     \* SUSPICIOUS_FAILURE_STORM_THRESHOLD
    MaxRequests,        \* bound: requests of more than one step
    MaxIncidents        \* bound: requests that die half way, deletions

ASSUME ExamRoomAssumption ==
    /\ IsFiniteSet(Threads)
    /\ NoQuestion \notin Questions
    /\ Assignable \subseteq Nat \ {0} /\ Assignable # {}
    /\ BurstThreshold \in Nat \ {0, 1}
    /\ StormThreshold \in Nat \ {0, 1}
    /\ MaxRequests \in Nat
    /\ MaxIncidents \in Nat

Patterns == {"burst", "reuse", "storm"}

VARIABLES
    roomOpen,       \* is there an ExamRoom row
    questionsToAssign,  \* its questions_to_assign
    pool,           \* pool[q]: is question q not yet written, in the room, or deleted
    joined,         \* students with a RoomParticipant row
    assigned,       \* assigned[s]: RoomParticipant.assigned_questions
    accessLocked,   \* students whose row has access_locked
    present,        \* students whose row has a last_presence_at
    submissions,    \* Submission rows of the room
    signals,        \* signals[s][pattern]: ExamEvents of a suspicious pattern
    request,        \* request[t]: what thread t is in the middle of
    requests,       \* requests begun so far
    inserted,       \* history: submissions saved for the first time so far
    deleted,        \* history: ids of submissions that were deleted
    lateAdmissions, \* history: lateAdmissions[s], ordinary rows saved since s was locked
    faults,         \* requests that died so far
    removals        \* deletions so far

roomVars == <<roomOpen, questionsToAssign, pool>>
participantVars == <<joined, assigned, accessLocked, present>>
historyVars == <<inserted, deleted, lateAdmissions>>
incidentVars == <<faults, removals>>
vars == <<roomVars, participantVars, submissions, signals, request, requests, historyVars,
          incidentVars>>

-----------------------------------------------------------------------------

\* Rows are numbered in the order in which they are saved.  failure: how the row came by
\* one of FAILURE_STATUSES, from its judgement or because it could not be sent to a judge.
Submission == [id : Nat, student : Students, question : Questions \cup {NoQuestion},
               workspace : Workspaces, failure : {"none", "reported", "unsent"}]

\* sawLocked is participant.access_locked as the request read it.
Idle == [kind |-> "idle"]
\* wanted is room.questions_to_assign as the request read it.
PatchRoom == [kind : {"patchRoom"}, assign : Assignable]
EditQuestion == [kind : {"editQuestion"}, question : Questions]
Join == [kind : {"join"}, student : Students, step : {"sample", "create", "assign"},
         wanted : Assignable, picks : SUBSET Questions]
Visit == [kind : {"visit"}, student : Students]
Moderate == [kind : {"lock", "unlock"}, student : Students, sawLocked : BOOLEAN]
Submit == [kind : {"submit", "disqualify"}, student : Students, sawLocked : BOOLEAN,
           heartbeat : BOOLEAN, question : Questions \cup {NoQuestion}, workspace : Workspaces]
Update == [kind : {"update"}, student : Students, row : Submission]
Detect == [kind : {"detect"}, student : Students, row : Submission, pattern : Patterns,
           step : {"record", "look", "check", "insert"}]
Enqueue == [kind : {"enqueue"}, student : Students, row : Submission]

Request == {Idle} \cup PatchRoom \cup EditQuestion \cup Join \cup Visit \cup Moderate
           \cup Submit \cup Update \cup Detect \cup Enqueue

TypeOK ==
    /\ roomOpen \in BOOLEAN
    /\ questionsToAssign \in Assignable
    /\ pool \in [Questions -> {"unwritten", "open", "deleted"}]
    /\ joined \subseteq Students
    /\ assigned \in [Students -> SUBSET Questions]
    /\ accessLocked \subseteq joined
    /\ present \subseteq joined
    /\ submissions \subseteq Submission
    /\ signals \in [Students -> [Patterns -> Nat]]
    /\ \A t \in Threads : request[t] \in Request
    /\ requests \in Nat
    /\ inserted \in Nat
    /\ deleted \subseteq Nat
    /\ lateAdmissions \in [Students -> Nat]
    /\ faults \in Nat
    /\ removals \in Nat

\* The room has just been created.
Init ==
    /\ roomOpen = TRUE
    /\ questionsToAssign \in Assignable
    /\ pool = [q \in Questions |-> "unwritten"]
    /\ joined = {}
    /\ assigned = [s \in Students |-> {}]
    /\ accessLocked = {}
    /\ present = {}
    /\ submissions = {}
    /\ signals = [s \in Students |-> [p \in Patterns |-> 0]]
    /\ request = [t \in Threads |-> Idle]
    /\ requests = 0
    /\ inserted = 0
    /\ deleted = {}
    /\ lateAdmissions = [s \in Students |-> 0]
    /\ faults = 0
    /\ removals = 0

Open == {q \in Questions : pool[q] = "open"}

\* The budget for what can go wrong.
MayHappen == faults + removals < MaxIncidents

-----------------------------------------------------------------------------
(* Requests begin, go on, and end. *)

Begins(t, r) ==
    /\ request[t] = Idle
    /\ requests < MaxRequests
    /\ requests' = requests + 1
    /\ request' = [request EXCEPT ![t] = r]

Goes(t, r) == request' = [request EXCEPT ![t] = r] /\ UNCHANGED requests
Ends(t) == Goes(t, Idle)

\* An exception, or the end of the process.
Dies(t) ==
    /\ request[t] # Idle
    /\ MayHappen
    /\ faults' = faults + 1
    /\ Ends(t)
    /\ UNCHANGED removals
    /\ UNCHANGED <<roomVars, participantVars, submissions, signals, historyVars>>

-----------------------------------------------------------------------------
(* The teacher's room and questions. *)

AddQuestion(q) ==
    /\ roomOpen
    /\ pool[q] = "unwritten"
    /\ pool' = [pool EXCEPT ![q] = "open"]
    /\ UNCHANGED <<roomOpen, questionsToAssign, participantVars, submissions, signals, request,
                   requests, historyVars, incidentVars>>

Removes == MayHappen /\ removals' = removals + 1 /\ UNCHANGED faults

\* Assignments and submissions go with their question.
DeleteQuestion(q) ==
    LET gone == {r \in submissions : r.question = q}
    IN  /\ pool[q] = "open"
        /\ Removes
        /\ pool' = [pool EXCEPT ![q] = "deleted"]
        /\ assigned' = [s \in Students |-> assigned[s] \ {q}]
        /\ submissions' = submissions \ gone
        /\ deleted' = deleted \cup {r.id : r \in gone}
        /\ UNCHANGED <<roomOpen, questionsToAssign, joined, accessLocked, present, signals,
                       request, requests, inserted, lateAdmissions>>

\* A request that holds a participant of a deleted room: its next statement about that
\* row raises, or is left out (the presence is young, the row was read as locked).
Orphaned(r) ==
    IF r.kind = "submit" THEN [r EXCEPT !.heartbeat = FALSE]
    ELSE IF \/ r.kind \in {"visit", "lock", "unlock", "disqualify"}
            \/ r.kind = "join" /\ r.step = "assign"
         THEN Idle ELSE r

\* Everything goes with the room; its events stay, but are of no room any more.
DeleteRoom ==
    /\ roomOpen
    /\ Removes
    /\ roomOpen' = FALSE
    /\ pool' = [q \in Questions |-> IF pool[q] = "open" THEN "deleted" ELSE pool[q]]
    /\ joined' = {} /\ accessLocked' = {} /\ present' = {}
    /\ assigned' = [s \in Students |-> {}]
    /\ submissions' = {}
    /\ deleted' = deleted \cup {r.id : r \in submissions}
    /\ lateAdmissions' = [s \in Students |-> 0]
    /\ signals' = [s \in Students |-> [p \in Patterns |-> 0]]
    /\ request' = [t \in Threads |-> Orphaned(request[t])]
    /\ UNCHANGED <<questionsToAssign, requests, inserted>>

\* RoomDetailView.patch, of this field or of others.
PatchRoomBegins(t, n) ==
    /\ roomOpen
    /\ Begins(t, [kind |-> "patchRoom", assign |-> n])
    /\ UNCHANGED <<roomVars, participantVars, submissions, signals, historyVars, incidentVars>>

\* The whole row is saved, or inserted again.
PatchRoomSaves(t) ==
    /\ request[t].kind = "patchRoom"
    /\ questionsToAssign' = request[t].assign
    /\ roomOpen' = TRUE
    /\ Ends(t)
    /\ UNCHANGED <<pool, participantVars, submissions, signals, historyVars, incidentVars>>

\* RoomQuestionDeleteView.patch.
EditBegins(t, q) ==
    /\ pool[q] = "open"
    /\ Begins(t, [kind |-> "editQuestion", question |-> q])
    /\ UNCHANGED <<roomVars, participantVars, submissions, signals, historyVars, incidentVars>>

\* The whole row is saved: a question deleted meanwhile is back, without what went with
\* it, unless its room is gone.
EditSaves(t) ==
    /\ request[t].kind = "editQuestion"
    /\ pool' = IF roomOpen THEN [pool EXCEPT ![request[t].question] = "open"] ELSE pool
    /\ Ends(t)
    /\ UNCHANGED <<roomOpen, questionsToAssign, participantVars, submissions, signals,
                   historyVars, incidentVars>>

-----------------------------------------------------------------------------
(* join_room_view. *)

\* Mutant: present before there is a row.
JoinBeginsPresent(t, s) ==
    /\ roomOpen /\ s \notin joined
    /\ Begins(t, [kind |-> "join", student |-> s, step |-> "sample",
                  wanted |-> questionsToAssign, picks |-> {}])
    /\ present' = present \cup {s}
    /\ UNCHANGED <<roomVars, joined, assigned, accessLocked, submissions, signals, historyVars, incidentVars>>

JoinBegins(t, s) ==
    /\ roomOpen /\ s \notin joined
    /\ Begins(t, [kind |-> "join", student |-> s, step |-> "sample",
                  wanted |-> questionsToAssign, picks |-> {}])
    /\ UNCHANGED <<roomVars, participantVars, submissions, signals, historyVars, incidentVars>>

\* Mutant: as many questions as there are.
JoinSamplesFewer(t) ==
    LET r == request[t]
    IN  /\ r.kind = "join" /\ r.step = "sample"
        /\ IF r.student \in joined THEN Ends(t)
           ELSE \E picks \in SUBSET Open :
                   /\ Cardinality(picks) <= r.wanted
                   /\ Goes(t, [r EXCEPT !.step = "create", !.picks = picks])
        /\ UNCHANGED <<roomVars, participantVars, submissions, signals, historyVars, incidentVars>>

\* The second look for the student, then random.sample, if there are enough.
JoinSamples(t) ==
    LET r == request[t]
    IN  /\ r.kind = "join" /\ r.step = "sample"
        /\ IF r.student \in joined \/ Cardinality(Open) < r.wanted THEN Ends(t)
           ELSE \E picks \in SUBSET Open :
                   /\ Cardinality(picks) = r.wanted
                   /\ Goes(t, [r EXCEPT !.step = "create", !.picks = picks])
        /\ UNCHANGED <<roomVars, participantVars, submissions, signals, historyVars, incidentVars>>

\* Mutant: get_or_create.
JoinCreatesOrGets(t) ==
    LET r == request[t]
    IN  /\ r.kind = "join" /\ r.step = "create"
        /\ joined' = joined \cup {r.student}
        /\ Goes(t, [r EXCEPT !.step = "assign"])
        /\ UNCHANGED <<roomVars, assigned, accessLocked, present, submissions, signals,
                       historyVars, incidentVars>>

\* unique_together lets one request create the row; any other one raises, as does a
\* room that is gone.
JoinCreates(t) ==
    LET r == request[t]
    IN  /\ r.kind = "join" /\ r.step = "create"
        /\ IF r.student \in joined \/ ~roomOpen THEN Ends(t) /\ UNCHANGED joined
           ELSE /\ joined' = joined \cup {r.student}
                /\ Goes(t, [r EXCEPT !.step = "assign"])
        /\ UNCHANGED <<roomVars, assigned, accessLocked, present, submissions, signals,
                       historyVars, incidentVars>>

\* assigned_questions.set(): a question that is gone breaks its foreign key.
JoinAssigns(t) ==
    LET r == request[t]
    IN  /\ r.kind = "join" /\ r.step = "assign"
        /\ IF r.picks \subseteq Open
           THEN /\ assigned' = [assigned EXCEPT ![r.student] = r.picks]
                /\ Goes(t, [kind |-> "visit", student |-> r.student])
           ELSE Ends(t) /\ UNCHANGED assigned
        /\ UNCHANGED <<roomVars, joined, accessLocked, present, submissions, signals,
                       historyVars, incidentVars>>

-----------------------------------------------------------------------------
(* Presence: a resumed join, a read of the room's state, a saved workspace. *)

VisitBegins(t, s) ==
    /\ s \in joined \ accessLocked
    /\ Begins(t, [kind |-> "visit", student |-> s])
    /\ UNCHANGED <<roomVars, participantVars, submissions, signals, historyVars, incidentVars>>

\* Mutant: save() without update_fields writes back the access_locked it read.
MarkPresentWholeRow(s) ==
    \/ present' = present \cup {s} /\ accessLocked' = accessLocked \ {s}
    \/ UNCHANGED <<present, accessLocked>>

\* mark_participant_present: saved unless the last one is seconds old.
MarkPresent(s) ==
    /\ present' = present \cup {s} \/ UNCHANGED present
    /\ UNCHANGED accessLocked

VisitEnds(t) ==
    /\ request[t].kind = "visit"
    /\ MarkPresent(request[t].student)
    /\ Ends(t)
    /\ UNCHANGED <<roomVars, joined, assigned, submissions, signals, historyVars, incidentVars>>

-----------------------------------------------------------------------------
(* RoomParticipantDeleteView, StudentRoomLockView. *)

\* A lock request that reads a locked row has nothing to do.
ModerateBegins(t, s, kind) ==
    /\ s \in joined
    /\ kind = "lock" => s \notin accessLocked
    /\ Begins(t, [kind |-> kind, student |-> s, sawLocked |-> s \in accessLocked])
    /\ UNCHANGED <<roomVars, participantVars, submissions, signals, historyVars, incidentVars>>

\* lock_participant_access: nothing to do for a row that was read as locked.
LockAccess(s, sawLocked) ==
    IF sawLocked THEN UNCHANGED <<accessLocked, present, lateAdmissions>>
    ELSE /\ accessLocked' = accessLocked \cup {s}
         /\ present' = present \ {s}
         /\ lateAdmissions' = [lateAdmissions EXCEPT ![s] = IF s \in accessLocked THEN @ ELSE 0]

LockSaves(t) ==
    LET r == request[t]
    IN  /\ r.kind = "lock"
        /\ LockAccess(r.student, r.sawLocked)
        /\ Ends(t)
        /\ UNCHANGED <<roomVars, joined, assigned, submissions, signals, inserted, deleted,
                       incidentVars>>

UnlockSaves(t) ==
    LET r == request[t]
    IN  /\ r.kind = "unlock"
        /\ accessLocked' = accessLocked \ {r.student}
        /\ present' = present \ {r.student}
        /\ Ends(t)
        /\ UNCHANGED <<roomVars, joined, assigned, submissions, signals, historyVars, incidentVars>>

-----------------------------------------------------------------------------
(* SubmissionCreateView.perform_create. *)

\* Mutant: the lock is only looked at by the client.
AdmitsAnyone(s, kind) == s \in joined

\* A request is a disqualification by what it carries as user_input, and a locked student
\* may send any number of them.
Admits(s, kind) == s \in joined /\ (s \in accessLocked => kind = "disqualify")

SubmitBegins(t, s, q, x, kind) ==
    /\ Admits(s, kind)
    /\ q \in assigned[s] \cup {NoQuestion}
    /\ Begins(t, [kind |-> kind, student |-> s, sawLocked |-> s \in accessLocked,
                  heartbeat |-> kind = "submit", question |-> q, workspace |-> x])
    /\ UNCHANGED <<roomVars, participantVars, submissions, signals, historyVars, incidentVars>>

SubmitMarksPresent(t) ==
    LET r == request[t]
    IN  /\ r.kind = "submit" /\ r.heartbeat
        /\ MarkPresent(r.student)
        /\ Goes(t, [r EXCEPT !.heartbeat = FALSE])
        /\ UNCHANGED <<roomVars, joined, assigned, submissions, signals, historyVars, incidentVars>>

Saved(r) == \E o \in submissions : o.id = r.id

\* The foreign keys of a row of question q.
MayRefer(q) == IF q = NoQuestion THEN roomOpen ELSE q \in Open

\* Where the detection of a pattern starts.
Looks(r, pattern) ==
    [kind |-> "detect", student |-> r.student, row |-> r, pattern |-> pattern, step |-> "look"]

\* Before it looks for patterns, a create request writes a snapshot and an event.
Records(r) == [Looks(r, "burst") EXCEPT !.step = "record"]

Enqueues(r) == [kind |-> "enqueue", student |-> r.student, row |-> r]

\* The row and the lock of a disqualification in one transaction.
SubmitSaves(t) ==
    LET r == request[t]
        s == r.student
        row == [id |-> inserted, student |-> s, question |-> r.question,
                workspace |-> r.workspace, failure |-> "none"]
    IN  /\ r.kind \in {"submit", "disqualify"} /\ ~r.heartbeat
        /\ IF ~MayRefer(r.question)
           THEN Ends(t) /\ UNCHANGED <<submissions, inserted, accessLocked, present, lateAdmissions>>
           ELSE /\ submissions' = submissions \cup {row}
                /\ inserted' = inserted + 1
                /\ Goes(t, Records(row))
                /\ IF r.kind = "disqualify" THEN LockAccess(s, r.sawLocked)
                   ELSE /\ lateAdmissions' = [lateAdmissions EXCEPT ![s] =
                               IF s \in accessLocked THEN @ + 1 ELSE @]
                        /\ UNCHANGED <<accessLocked, present>>
        /\ UNCHANGED <<roomVars, joined, assigned, signals, deleted, incidentVars>>

\* Without a question nobody looks for patterns, and the row may be judged at once,
\* which ends like an update.
SubmitGoesOn(t, r) ==
    IF r.question # NoQuestion THEN Goes(t, Looks(r, "burst"))
    ELSE \/ Goes(t, Enqueues(r))
         \/ \E failure \in {"none", "reported"} :
               Goes(t, [kind |-> "update", student |-> r.student, row |-> [r EXCEPT !.failure = failure]])

\* Both refer to the row and raise if it is gone.
SubmitRecords(t) ==
    LET r == request[t]
    IN  /\ r.kind = "detect" /\ r.step = "record"
        /\ IF Saved(r.row) THEN SubmitGoesOn(t, r.row) ELSE Ends(t)
        /\ UNCHANGED <<roomVars, participantVars, submissions, signals, historyVars, incidentVars>>

SubmitIsSent(t) ==
    /\ request[t].kind = "enqueue"
    /\ Ends(t)
    /\ UNCHANGED <<roomVars, participantVars, submissions, signals, historyVars, incidentVars>>

\* No producer, or it raises: the status of the row is saved, and a row that is gone raises.
SubmitIsUnsent(t) ==
    LET id == request[t].row.id
    IN  /\ request[t].kind = "enqueue"
        /\ submissions' = {IF o.id = id THEN [o EXCEPT !.failure = "unsent"] ELSE o : o \in submissions}
        /\ Ends(t)
        /\ UNCHANGED <<roomVars, participantVars, signals, historyVars, incidentVars>>

\* There is no topic for the language: the request takes its row back.
SubmitIsTakenBack(t) ==
    LET id == request[t].row.id
    IN  /\ request[t].kind = "enqueue"
        /\ submissions' = {o \in submissions : o.id # id}
        /\ deleted' = deleted \cup {id}
        /\ Ends(t)
        /\ UNCHANGED <<roomVars, participantVars, signals, inserted, lateAdmissions, incidentVars>>

\* SubmissionDeleteView.
DeleteSubmission(r) ==
    /\ Removes
    /\ submissions' = submissions \ {r}
    /\ deleted' = deleted \cup {r.id}
    /\ UNCHANGED <<roomVars, participantVars, signals, request, requests, inserted, lateAdmissions>>

-----------------------------------------------------------------------------
(* SubmissionUpdateView: the whole row is saved, or inserted again. *)

UpdateBegins(t, r, failure) ==
    /\ r \in submissions
    /\ Begins(t, [kind |-> "update", student |-> r.student, row |-> [r EXCEPT !.failure = failure]])
    /\ UNCHANGED <<roomVars, participantVars, submissions, signals, historyVars, incidentVars>>

UpdateSaves(t) ==
    LET r == request[t].row
    IN  /\ request[t].kind = "update"
        /\ submissions' = IF MayRefer(r.question)
                          THEN {o \in submissions : o.id # r.id} \cup {r} ELSE submissions
        /\ IF MayRefer(r.question) /\ r.failure # "none" THEN Goes(t, Looks(r, "storm")) ELSE Ends(t)
        /\ UNCHANGED <<roomVars, participantVars, signals, historyVars, incidentVars>>

-----------------------------------------------------------------------------
(* detect_suspicious_submission_patterns, detect_suspicious_result_patterns. *)

RowsOf(s, rows) == {r \in rows : r.student = s}
Burst(s, rows) == Cardinality({r.id : r \in RowsOf(s, rows)}) >= BurstThreshold
Storm(s, rows) == Cardinality({r \in RowsOf(s, rows) : r.failure # "none"}) >= StormThreshold
Reuses(r, o) == o.workspace = r.workspace /\ o.question # r.question

\* What a request that just saved r sees in the room.
Shows(r, pattern, rows) ==
    CASE pattern = "burst" -> Burst(r.student, rows)
      [] pattern = "storm" -> Storm(r.student, rows)
      [] pattern = "reuse" -> \E o \in RowsOf(r.student, rows) : Reuses(r, o)

\* A burst is looked for first, reuse after it; a storm on its own.
GoesToNextPattern(t, r) ==
    CASE r.pattern = "burst" -> Goes(t, Looks(r.row, "reuse"))
      [] r.pattern = "reuse" -> Goes(t, Enqueues(r.row))
      [] r.pattern = "storm" -> Ends(t)

\* Mutant: the new row is not counted.
DetectLooksAtOthers(t) ==
    LET r == request[t]
    IN  /\ r.kind = "detect" /\ r.step = "look"
        /\ IF Shows(r.row, r.pattern, submissions \ {r.row}) THEN Goes(t, [r EXCEPT !.step = "check"])
           ELSE GoesToNextPattern(t, r)
        /\ UNCHANGED <<roomVars, participantVars, submissions, signals, historyVars, incidentVars>>

DetectLooks(t) ==
    LET r == request[t]
    IN  /\ r.kind = "detect" /\ r.step = "look"
        /\ IF Shows(r.row, r.pattern, submissions) THEN Goes(t, [r EXCEPT !.step = "check"])
           ELSE GoesToNextPattern(t, r)
        /\ UNCHANGED <<roomVars, participantVars, submissions, signals, historyVars, incidentVars>>

\* _pattern_logged_recently.
DetectChecks(t) ==
    LET r == request[t]
    IN  /\ r.kind = "detect" /\ r.step = "check"
        /\ IF signals[r.student][r.pattern] = 0 THEN Goes(t, [r EXCEPT !.step = "insert"])
           ELSE GoesToNextPattern(t, r)
        /\ UNCHANGED <<roomVars, participantVars, submissions, signals, historyVars, incidentVars>>

\* The event refers to the row and raises if it is gone.
DetectInserts(t) ==
    LET r == request[t]
    IN  /\ r.kind = "detect" /\ r.step = "insert"
        /\ IF Saved(r.row)
           THEN /\ signals' = [signals EXCEPT ![r.student][r.pattern] = @ + 1]
                /\ GoesToNextPattern(t, r)
           ELSE Ends(t) /\ UNCHANGED signals
        /\ UNCHANGED <<roomVars, participantVars, submissions, historyVars, incidentVars>>

-----------------------------------------------------------------------------

Begin(t, s) ==
    \/ JoinBegins(t, s)
    \/ VisitBegins(t, s)
    \/ \E kind \in {"lock", "unlock"} : ModerateBegins(t, s, kind)
    \/ \E q \in Questions \cup {NoQuestion}, x \in Workspaces, kind \in {"submit", "disqualify"} :
          SubmitBegins(t, s, q, x, kind)
    \/ \E r \in RowsOf(s, submissions), failure \in {"none", "reported"} :
          UpdateBegins(t, r, failure)

Continue(t) ==
    \/ PatchRoomSaves(t) \/ EditSaves(t)
    \/ JoinSamples(t) \/ JoinCreates(t) \/ JoinAssigns(t)
    \/ VisitEnds(t)
    \/ LockSaves(t) \/ UnlockSaves(t)
    \/ SubmitMarksPresent(t) \/ SubmitSaves(t) \/ SubmitRecords(t)
    \/ SubmitIsSent(t) \/ SubmitIsUnsent(t) \/ SubmitIsTakenBack(t)
    \/ UpdateSaves(t)
    \/ DetectLooks(t) \/ DetectChecks(t) \/ DetectInserts(t)

Next ==
    \/ \E q \in Questions : AddQuestion(q) \/ DeleteQuestion(q)
    \/ DeleteRoom
    \/ \E r \in submissions : DeleteSubmission(r)
    \/ \E t \in Threads :
          \/ \E n \in Assignable : PatchRoomBegins(t, n)
          \/ \E q \in Questions : EditBegins(t, q)
          \/ \E s \in Students : Begin(t, s)
          \/ Continue(t)
          \/ Dies(t)

Spec == Init /\ [][Next]_vars

-----------------------------------------------------------------------------

\* A heartbeat, a submission or a second lock that still holds the participant it
\* read before a lock never undoes the lock: that takes an unlock request, or the
\* end of the room.
OnlyUnlockUnlocks ==
    [][\A s \in accessLocked \ accessLocked' :
          \/ s \notin joined'
          \/ \E t \in Threads : request[t].kind = "unlock" /\ request[t].student = s
                                /\ request'[t] = Idle]_accessLocked

\* Two joins of one student assign once: what a student was given is never
\* exchanged, and is only taken away with the question.  Nor does an edit that
\* brings a deleted question back give it to anybody.
AssignmentIsStable ==
    [][\A s \in Students : assigned[s] # {} =>
          assigned'[s] = {q \in assigned[s] : pool'[q] = "open"}]_assigned

\* A participant without questions is still joining, or a join died half way, or
\* something was deleted; concurrent joins alone leave nobody empty-handed.  The last
\* cause is one of the room, not of this participant: any death or deletion is one.
EmptyHandedHasCause ==
    \A s \in joined : assigned[s] = {} =>
        \/ \E t \in Threads : request[t].kind = "join" /\ request[t].student = s
                              /\ request[t].step = "assign"
        \/ faults + removals > 0

\* A lock stops a student's ordinary submissions: only requests that were already past
\* the check when the lock was saved may still store one, fewer than there are threads.
\* Nothing bounds what carries the auto-disqualify sentinel: a locked student may have
\* any number of such rows saved and judged.
LockStopsOrdinarySubmissions ==
    \A s \in accessLocked : lateAdmissions[s] < Cardinality(Threads)

\* The rows for which a request looks: for a burst or reuse those with a question, for a
\* storm those whose failure was reported by a judgement.
Watched(r, pattern) ==
    IF pattern = "storm" THEN r.failure = "reported" ELSE r.question # NoQuestion

\* What its look cannot have missed: rows saved before it, Run Tests too; failures that
\* were reported.
Evidence(r, pattern, rows) ==
    IF pattern = "storm" THEN {o \in rows : o.failure = "reported"}
    ELSE {o \in rows : o.id <= r.id}

\* Once nobody is looking any more, a pattern that a watched row shows together with the
\* rows before it has been signalled, however the requests overlapped.  A Run Test saved
\* after the last watched row, and failures of the queue, make nobody look, though they
\* count when somebody does: what they complete may stay without a signal.  Nor
\* does a row count that was deleted: an update that overlaps the deletion brings it back,
\* and nobody looks for what it adds then.  And the check for an earlier signal and
\* the insert are two statements, but overlapping requests double a signal at most once
\* for each thread.
Signalled ==
    \A s \in Students, pattern \in Patterns :
        LET rows == {r \in RowsOf(s, submissions) : r.id \notin deleted}
            quiet == \A t \in Threads : request[t].kind # "detect"
        IN  /\ quiet /\ faults = 0 =>
                  \A r \in rows : Watched(r, pattern) /\ Shows(r, pattern, Evidence(r, pattern, rows)) =>
                      signals[s][pattern] > 0
            /\ signals[s][pattern] <= Cardinality(Threads)
=============================================================================
