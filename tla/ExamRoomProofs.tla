--------------------------- MODULE ExamRoomProofs ---------------------------
(***************************************************************************)
(* The theorems about ExamRoom, for any students, questions, threads and    *)
(* bounds.                                                                  *)
(***************************************************************************)
EXTENDS ExamRoom, FiniteSetTheorems, TLAPS

-----------------------------------------------------------------------------
(* Type correctness.                                                        *)

\* The requests whose next statements rely on the participant's row.
HoldsParticipant(r) ==
    \/ r.kind \in {"visit", "lock", "unlock", "disqualify"}
    \/ r.kind = "join" /\ r.step = "assign"
    \/ r.kind = "submit" /\ r.heartbeat

HoldersHaveJoined ==
    \A t \in Threads : HoldsParticipant(request[t]) => request[t].student \in joined

\* The rows a request saves are rows of those who have joined only as long as the
\* participants that requests hold are there.
Typed == TypeOK /\ request \in [Threads -> Request] /\ HoldersHaveJoined

\* What a request holds follows from its kind.
LEMMA Kinds ==
    ASSUME NEW r \in Request
    PROVE  /\ r.kind = "patchRoom" => r \in PatchRoom
           /\ r.kind = "editQuestion" => r \in EditQuestion
           /\ r.kind = "join" => r \in Join
           /\ r.kind = "visit" => r \in Visit
           /\ r.kind \in {"lock", "unlock"} => r \in Moderate
           /\ r.kind \in {"submit", "disqualify"} => r \in Submit
           /\ r.kind = "update" => r \in Update
           /\ r.kind = "detect" => r \in Detect
           /\ r.kind = "enqueue" => r \in Enqueue
BY DEF Request, Idle, PatchRoom, EditQuestion, Join, Visit, Moderate, Submit, Update, Detect, Enqueue

LEMMA Made ==
    /\ Idle \in Request
    /\ \A r \in PatchRoom \cup EditQuestion \cup Join \cup Visit \cup Moderate \cup Submit
                \cup Update \cup Detect \cup Enqueue : r \in Request
BY DEF Request

LEMMA TypeInit == ASSUME ExamRoomAssumption, Init PROVE Typed
BY Made DEF Init, Typed, TypeOK, HoldersHaveJoined, HoldsParticipant, Idle

LEMMA GoesType ==
    ASSUME Typed, NEW t \in Threads, NEW r \in Request, Begins(t, r) \/ Goes(t, r),
           joined \subseteq joined', HoldsParticipant(r) => r.student \in joined'
    PROVE  request' \in [Threads -> Request] /\ requests' \in Nat /\ HoldersHaveJoined'
<1>1. request' = [request EXCEPT ![t] = r] /\ requests' \in Nat
  BY DEF Begins, Goes, Typed, TypeOK
<1>2. \A u \in Threads : request'[u] = IF u = t THEN r ELSE request[u]
  BY <1>1 DEF Typed
<1> HIDE DEF HoldsParticipant
<1>3. HoldersHaveJoined'
  BY <1>2 DEF HoldersHaveJoined, Typed
<1> QED BY <1>1, <1>3 DEF Typed

LEMMA EndsType ==
    ASSUME Typed, NEW t \in Threads, Ends(t), joined \subseteq joined'
    PROVE  request' \in [Threads -> Request] /\ requests' \in Nat /\ HoldersHaveJoined'
<1>1. ~HoldsParticipant(Idle)
  BY DEF HoldsParticipant, Idle
<1> QED BY <1>1, Made, GoesType DEF Ends

LEMMA LooksType ==
    ASSUME NEW r \in Submission, NEW pattern \in Patterns
    PROVE  Looks(r, pattern) \in Detect /\ Records(r) \in Detect
BY DEF Looks, Records, Detect, Submission, Patterns

\* What a request goes on to once its row is saved.
Later == Detect \cup Enqueue \cup Update \cup {Idle}

LEMMA LaterType ==
    ASSUME NEW r \in Later
    PROVE  r \in Request /\ ~HoldsParticipant(r) /\ r.kind \in {"detect", "enqueue", "update", "idle"}
BY Made DEF Later, Detect, Enqueue, Update, Idle, HoldsParticipant

\* The steps of a request whose row is saved, but for the saving of an update.
FollowsUp(t) ==
    \/ SubmitRecords(t)
    \/ SubmitIsSent(t) \/ SubmitIsUnsent(t) \/ SubmitIsTakenBack(t)
    \/ DetectLooks(t) \/ DetectChecks(t) \/ DetectInserts(t)

LEMMA FollowsUpLater ==
    ASSUME request \in [Threads -> Request], NEW t \in Threads, FollowsUp(t)
    PROVE  /\ request[t] \in Detect \cup Enqueue
           /\ \E r \in Later : Goes(t, r)
<1>1. request[t] \in Detect \cup Enqueue
  BY Kinds DEF FollowsUp, SubmitRecords, SubmitIsSent, SubmitIsUnsent, SubmitIsTakenBack,
     DetectLooks, DetectChecks, DetectInserts
<1>2. request[t].row \in Submission /\ request[t].student \in Students
  BY <1>1 DEF Detect, Enqueue
<1> DEFINE n == request[t].row
           l == Looks(n, "burst")
           u == Looks(n, "reuse")
           e == Enqueues(n)
<1>3. l \in Later /\ u \in Later /\ e \in Later /\ Idle \in Later
  <2>1. l \in Detect /\ u \in Detect
    BY <1>2, LooksType DEF Patterns
  <2>2. e \in Enqueue
    BY <1>2 DEF Enqueues, Enqueue, Submission
  <2> QED BY <2>1, <2>2 DEF Later
<1>4. ASSUME SubmitRecords(t) PROVE \E r \in Later : Goes(t, r)
  <2>1. ASSUME NEW failure \in {"none", "reported"}
        PROVE  [kind |-> "update", student |-> n.student, row |-> [n EXCEPT !.failure = failure]] \in Later
    BY <1>2 DEF Later, Update, Submission
  <2> QED BY <1>3, <1>4, <2>1 DEF SubmitRecords, SubmitGoesOn, Ends
<1>5. ASSUME SubmitIsSent(t) \/ SubmitIsUnsent(t) \/ SubmitIsTakenBack(t)
      PROVE  \E r \in Later : Goes(t, r)
  BY <1>3, <1>5 DEF SubmitIsSent, SubmitIsUnsent, SubmitIsTakenBack, Ends
<1>6. ASSUME DetectLooks(t) \/ DetectChecks(t) \/ DetectInserts(t)
      PROVE  \E r \in Later : Goes(t, r)
  <2>1. request[t] \in Detect
    BY <1>6, Kinds DEF DetectLooks, DetectChecks, DetectInserts
  <2>2. \A step \in {"check", "insert"} : [request[t] EXCEPT !.step = step] \in Later
    BY <2>1 DEF Detect, Later
  <2>3. request[t].pattern \in Patterns
    BY <2>1 DEF Detect
  <2>4. GoesToNextPattern(t, request[t]) => \E r \in Later : Goes(t, r)
    BY <1>3, <2>3 DEF GoesToNextPattern, Ends, Patterns
  <2> QED BY <1>3, <1>6, <2>2, <2>4 DEF DetectLooks, DetectChecks, DetectInserts, Ends
<1> QED BY <1>1, <1>4, <1>5, <1>6 DEF FollowsUp

\* A step that changes nothing but what the threads are doing.
LEMMA OnlyRequestType ==
    ASSUME Typed, request' \in [Threads -> Request], requests' \in Nat, HoldersHaveJoined',
           UNCHANGED <<roomVars, participantVars, submissions, signals, historyVars, incidentVars>>
    PROVE  Typed'
BY DEF Typed, TypeOK, roomVars, participantVars, historyVars, incidentVars

LEMMA RoomType ==
    ASSUME ExamRoomAssumption, Typed,
           \/ \E q \in Questions : AddQuestion(q) \/ DeleteQuestion(q)
           \/ \E r \in submissions : DeleteSubmission(r)
           \/ \E t \in Threads : \/ PatchRoomSaves(t) \/ EditSaves(t) \/ Dies(t)
                                 \/ \E n \in Assignable : PatchRoomBegins(t, n)
                                 \/ \E q \in Questions : EditBegins(t, q)
    PROVE  Typed'
<1>1. ASSUME NEW q \in Questions, AddQuestion(q) PROVE Typed'
  BY <1>1 DEF AddQuestion, Typed, TypeOK, HoldersHaveJoined, participantVars, historyVars, incidentVars
<1>2. ASSUME NEW q \in Questions, DeleteQuestion(q) PROVE Typed'
  <2>1. {r \in submissions : r.question = q} \subseteq submissions /\ submissions' \subseteq Submission
    BY <1>2 DEF DeleteQuestion, Typed, TypeOK
  <2>2. deleted' \subseteq Nat
    BY <1>2, <2>1 DEF DeleteQuestion, Typed, TypeOK, Submission
  <2>3. removals' \in Nat /\ faults' \in Nat
    BY <1>2 DEF DeleteQuestion, Typed, TypeOK, Removes
  <2>4. HoldersHaveJoined'
    BY <1>2 DEF DeleteQuestion, Typed, HoldersHaveJoined
  <2> QED BY <1>2, <2>1, <2>2, <2>3, <2>4 DEF DeleteQuestion, Typed, TypeOK
<1>3. ASSUME NEW r \in submissions, DeleteSubmission(r) PROVE Typed'
  <2>1. deleted' \subseteq Nat /\ submissions' \subseteq Submission
    BY <1>3 DEF DeleteSubmission, Typed, TypeOK, Submission
  <2>2. removals' \in Nat /\ faults' \in Nat
    BY <1>3 DEF DeleteSubmission, Removes, Typed, TypeOK
  <2>3. HoldersHaveJoined'
    BY <1>3 DEF DeleteSubmission, Typed, HoldersHaveJoined, participantVars
  <2> QED BY <1>3, <2>1, <2>2, <2>3 DEF DeleteSubmission, Typed, TypeOK, roomVars, participantVars
<1>4. ASSUME NEW t \in Threads, PatchRoomSaves(t) PROVE Typed'
  <2>1. request[t] \in PatchRoom
    BY <1>4, Kinds DEF Typed, PatchRoomSaves
  <2>2. request' \in [Threads -> Request] /\ requests' \in Nat /\ HoldersHaveJoined'
    BY <1>4, EndsType DEF PatchRoomSaves, participantVars
  <2> QED BY <1>4, <2>1, <2>2 DEF PatchRoomSaves, PatchRoom, Typed, TypeOK, participantVars,
          historyVars, incidentVars
<1>5. ASSUME NEW t \in Threads, EditSaves(t) PROVE Typed'
  <2>1. request[t] \in EditQuestion
    BY <1>5, Kinds DEF Typed, EditSaves
  <2>2. request' \in [Threads -> Request] /\ requests' \in Nat /\ HoldersHaveJoined'
    BY <1>5, EndsType DEF EditSaves, participantVars
  <2> QED BY <1>5, <2>1, <2>2 DEF EditSaves, EditQuestion, Typed, TypeOK, participantVars,
          historyVars, incidentVars
<1>6. ASSUME NEW t \in Threads, Dies(t) PROVE Typed'
  <2>1. request' \in [Threads -> Request] /\ requests' \in Nat /\ HoldersHaveJoined'
    BY <1>6, EndsType DEF Dies, participantVars
  <2> QED BY <1>6, <2>1 DEF Dies, Typed, TypeOK, roomVars, participantVars, historyVars
<1>7. ASSUME NEW t \in Threads, NEW n \in Assignable, PatchRoomBegins(t, n) PROVE Typed'
  <2>1. LET r == [kind |-> "patchRoom", assign |-> n]
        IN  r \in Request /\ ~HoldsParticipant(r)
    BY DEF Request, PatchRoom, HoldsParticipant
  <2> QED BY <1>7, <2>1, GoesType, OnlyRequestType DEF PatchRoomBegins, participantVars
<1>8. ASSUME NEW t \in Threads, NEW q \in Questions, EditBegins(t, q) PROVE Typed'
  <2>1. LET r == [kind |-> "editQuestion", question |-> q]
        IN  r \in Request /\ ~HoldsParticipant(r)
    BY DEF Request, EditQuestion, HoldsParticipant
  <2> QED BY <1>8, <2>1, GoesType, OnlyRequestType DEF EditBegins, participantVars
<1> QED BY <1>1, <1>2, <1>3, <1>4, <1>5, <1>6, <1>7, <1>8

LEMMA OrphanedType ==
    ASSUME NEW r \in Request
    PROVE  Orphaned(r) \in Request /\ ~HoldsParticipant(Orphaned(r))
<1>1. CASE r.kind = "submit"
  <2>1. r \in Submit
    BY <1>1, Kinds
  <2>2. [r EXCEPT !.heartbeat = FALSE] \in Submit
    BY <2>1 DEF Submit
  <2>3. ~HoldsParticipant([r EXCEPT !.heartbeat = FALSE])
    BY <1>1, <2>1 DEF Submit, HoldsParticipant
  <2> QED BY <1>1, <2>2, <2>3, Made DEF Orphaned
<1>2. CASE r.kind # "submit"
  BY <1>2, Made DEF Orphaned, HoldsParticipant, Idle
<1> QED BY <1>1, <1>2

LEMMA DeleteRoomType == ASSUME Typed, DeleteRoom PROVE Typed'
<1>1. request' \in [Threads -> Request] /\ HoldersHaveJoined'
  BY OrphanedType DEF DeleteRoom, Typed, HoldersHaveJoined
<1>2. deleted' \subseteq Nat
  BY DEF DeleteRoom, Typed, TypeOK, Submission
<1>3. removals' \in Nat /\ faults' \in Nat
  BY DEF DeleteRoom, Typed, TypeOK, Removes
<1>4. pool' \in [Questions -> {"unwritten", "open", "deleted"}]
  BY DEF DeleteRoom, Typed, TypeOK
<1> QED BY <1>1, <1>2, <1>3, <1>4 DEF DeleteRoom, Typed, TypeOK

LEMMA JoinType ==
    ASSUME ExamRoomAssumption, Typed, NEW t \in Threads,
           \/ \E s \in Students : JoinBegins(t, s)
           \/ JoinSamples(t) \/ JoinCreates(t) \/ JoinAssigns(t)
    PROVE  Typed'
<1>1. ASSUME NEW s \in Students, JoinBegins(t, s) PROVE Typed'
  <2>1. LET r == [kind |-> "join", student |-> s, step |-> "sample", wanted |-> questionsToAssign,
                  picks |-> {}]
        IN  r \in Request /\ ~HoldsParticipant(r)
    BY DEF Request, Join, Typed, TypeOK, HoldsParticipant
  <2> QED BY <1>1, <2>1, GoesType, OnlyRequestType DEF JoinBegins, participantVars
<1>2. CASE ~\E s \in Students : JoinBegins(t, s)
  <2>1. request[t] \in Join
    BY <1>2, Kinds DEF Typed, JoinSamples, JoinCreates, JoinAssigns
  <2>3. CASE JoinSamples(t)
    <3>1. ASSUME NEW picks \in SUBSET Open, Goes(t, [request[t] EXCEPT !.step = "create", !.picks = picks])
          PROVE  request' \in [Threads -> Request] /\ requests' \in Nat /\ HoldersHaveJoined'
      <4>1. LET r == [request[t] EXCEPT !.step = "create", !.picks = picks]
            IN  r \in Request /\ ~HoldsParticipant(r)
        BY <2>1, Made DEF Join, Open, HoldsParticipant
      <4> QED BY <2>3, <3>1, <4>1, GoesType DEF JoinSamples, participantVars
    <3>2. request' \in [Threads -> Request] /\ requests' \in Nat /\ HoldersHaveJoined'
      BY <2>3, <3>1, EndsType DEF JoinSamples, participantVars
    <3> QED BY <2>3, <3>2, OnlyRequestType DEF JoinSamples
  <2>4. CASE JoinCreates(t)
    <3>1. [request[t] EXCEPT !.step = "assign"] \in Request
      BY <2>1, Made DEF Join
    <3>2. joined' \subseteq Students /\ joined \subseteq joined'
      BY <2>1, <2>4 DEF JoinCreates, Join, Typed, TypeOK
    <3>3. request' \in [Threads -> Request] /\ requests' \in Nat /\ HoldersHaveJoined'
      <4>1. CASE request[t].student \in joined \/ ~roomOpen
        BY <2>4, <3>2, <4>1, EndsType DEF JoinCreates
      <4>2. CASE ~(request[t].student \in joined \/ ~roomOpen)
        <5>1. [request[t] EXCEPT !.step = "assign"].student \in joined'
          BY <2>1, <2>4, <4>2 DEF JoinCreates, Join
        <5> QED BY <2>4, <3>1, <3>2, <4>2, <5>1, GoesType DEF JoinCreates
      <4> QED BY <4>1, <4>2
    <3> QED BY <2>4, <3>2, <3>3 DEF JoinCreates, Typed, TypeOK, roomVars, historyVars, incidentVars
  <2>5. CASE JoinAssigns(t)
    <3>1. [kind |-> "visit", student |-> request[t].student] \in Request
      BY <2>1, Made DEF Join, Visit
    <3>2. request[t].student \in joined
      BY <2>5 DEF JoinAssigns, Typed, HoldersHaveJoined, HoldsParticipant
    <3>3. request' \in [Threads -> Request] /\ requests' \in Nat /\ HoldersHaveJoined'
      BY <2>5, <3>1, <3>2, GoesType, EndsType DEF JoinAssigns
    <3>4. assigned' \in [Students -> SUBSET Questions]
      BY <2>1, <2>5 DEF JoinAssigns, Join, Typed, TypeOK, Open
    <3> QED BY <2>5, <3>3, <3>4 DEF JoinAssigns, Typed, TypeOK, roomVars, historyVars, incidentVars
  <2> QED BY <1>2, <2>3, <2>4, <2>5
<1> QED BY <1>1, <1>2

LEMMA MarkPresentType ==
    ASSUME Typed, NEW s \in joined, MarkPresent(s), UNCHANGED joined
    PROVE  accessLocked' \subseteq joined' /\ present' \subseteq joined'
BY DEF MarkPresent, Typed, TypeOK

LEMMA LockAccessType ==
    ASSUME Typed, NEW s \in joined, NEW sawLocked \in BOOLEAN, LockAccess(s, sawLocked),
           UNCHANGED joined
    PROVE  /\ accessLocked' \subseteq joined' /\ present' \subseteq joined'
           /\ lateAdmissions' \in [Students -> Nat]
BY DEF LockAccess, Typed, TypeOK

LEMMA VisitType ==
    ASSUME ExamRoomAssumption, Typed, NEW t \in Threads,
           \/ \E s \in Students : \/ VisitBegins(t, s)
                                  \/ \E kind \in {"lock", "unlock"} : ModerateBegins(t, s, kind)
           \/ VisitEnds(t) \/ LockSaves(t) \/ UnlockSaves(t)
    PROVE  Typed'
<1>1. ASSUME NEW s \in Students, VisitBegins(t, s) PROVE Typed'
  <2>1. [kind |-> "visit", student |-> s] \in Request
    BY DEF Request, Visit
  <2> QED BY <1>1, <2>1, GoesType, OnlyRequestType DEF VisitBegins, participantVars
<1>2. ASSUME NEW s \in Students, NEW kind \in {"lock", "unlock"}, ModerateBegins(t, s, kind)
      PROVE  Typed'
  <2>1. [kind |-> kind, student |-> s, sawLocked |-> s \in accessLocked] \in Moderate
    BY DEF Moderate
  <2> QED BY <1>2, <2>1, Made, GoesType, OnlyRequestType DEF ModerateBegins, participantVars
<1>3. CASE VisitEnds(t)
  <2>1. request[t].student \in joined
    BY <1>3 DEF VisitEnds, Typed, HoldersHaveJoined, HoldsParticipant
  <2>2. request' \in [Threads -> Request] /\ requests' \in Nat /\ HoldersHaveJoined'
    BY <1>3, EndsType DEF VisitEnds
  <2> QED BY <1>3, <2>1, <2>2, MarkPresentType DEF VisitEnds, Typed, TypeOK, roomVars, historyVars,
          incidentVars
<1>4. CASE LockSaves(t)
  <2>1. request[t].student \in joined /\ request[t].sawLocked \in BOOLEAN
    BY <1>4, Kinds DEF LockSaves, Typed, HoldersHaveJoined, HoldsParticipant, Moderate
  <2>2. request' \in [Threads -> Request] /\ requests' \in Nat /\ HoldersHaveJoined'
    BY <1>4, EndsType DEF LockSaves
  <2> QED BY <1>4, <2>1, <2>2, LockAccessType DEF LockSaves, Typed, TypeOK, roomVars, incidentVars
<1>5. CASE UnlockSaves(t)
  <2>1. request' \in [Threads -> Request] /\ requests' \in Nat /\ HoldersHaveJoined'
    BY <1>5, EndsType DEF UnlockSaves
  <2> QED BY <1>5, <2>1 DEF UnlockSaves, Typed, TypeOK, roomVars, historyVars, incidentVars
<1> QED BY <1>1, <1>2, <1>3, <1>4, <1>5

LEMMA SubmitType ==
    ASSUME ExamRoomAssumption, Typed, NEW t \in Threads,
           \/ \E s \in Students, q \in Questions \cup {NoQuestion}, x \in Workspaces,
                 kind \in {"submit", "disqualify"} : SubmitBegins(t, s, q, x, kind)
           \/ \E r \in submissions, failure \in {"none", "reported"} : UpdateBegins(t, r, failure)
           \/ SubmitMarksPresent(t) \/ SubmitSaves(t) \/ UpdateSaves(t)
    PROVE  Typed'
<1>1. ASSUME NEW s \in Students, NEW q \in Questions \cup {NoQuestion}, NEW x \in Workspaces,
             NEW kind \in {"submit", "disqualify"}, SubmitBegins(t, s, q, x, kind)
      PROVE  Typed'
  <2> DEFINE r == [kind |-> kind, student |-> s, sawLocked |-> s \in accessLocked,
                   heartbeat |-> kind = "submit", question |-> q, workspace |-> x]
  <2>1. r \in Submit /\ r.student \in joined
    BY <1>1 DEF Submit, SubmitBegins, Admits
  <2>2. Begins(t, r)
    BY <1>1 DEF SubmitBegins
  <2> HIDE DEF r
  <2> QED BY <1>1, <2>1, <2>2, Made, GoesType, OnlyRequestType DEF SubmitBegins, participantVars
<1>2. ASSUME NEW r \in submissions, NEW failure \in {"none", "reported"}, UpdateBegins(t, r, failure)
      PROVE  Typed'
  <2> DEFINE u == [kind |-> "update", student |-> r.student, row |-> [r EXCEPT !.failure = failure]]
  <2>1. u \in Update /\ ~HoldsParticipant(u)
    BY DEF Update, Submission, Typed, TypeOK, HoldsParticipant
  <2>2. Begins(t, u)
    BY <1>2 DEF UpdateBegins
  <2> HIDE DEF u
  <2> QED BY <1>2, <2>1, <2>2, Made, GoesType, OnlyRequestType DEF UpdateBegins, participantVars
<1>3. CASE SubmitMarksPresent(t)
  <2>1. request[t] \in Submit /\ request[t].student \in joined
    BY <1>3, Kinds DEF SubmitMarksPresent, Typed, HoldersHaveJoined, HoldsParticipant
  <2>2. [request[t] EXCEPT !.heartbeat = FALSE] \in Submit
        /\ ~HoldsParticipant([request[t] EXCEPT !.heartbeat = FALSE])
    BY <1>3, <2>1 DEF Submit, HoldsParticipant, SubmitMarksPresent
  <2>3. request' \in [Threads -> Request] /\ requests' \in Nat /\ HoldersHaveJoined'
    BY <1>3, <2>2, Made, GoesType DEF SubmitMarksPresent
  <2> QED BY <1>3, <2>1, <2>3, MarkPresentType DEF SubmitMarksPresent, Typed, TypeOK, roomVars,
          historyVars, incidentVars
<1>4. CASE SubmitSaves(t)
  <2>1. request[t] \in Submit
    BY <1>4, Kinds DEF SubmitSaves, Typed
  <2>2. request[t].student \in Students /\ request[t].sawLocked \in BOOLEAN
    BY <2>1 DEF Submit
  <2> DEFINE n == [id |-> inserted, student |-> request[t].student, question |-> request[t].question,
                   workspace |-> request[t].workspace, failure |-> "none"]
  <2>3. n \in Submission
    BY <2>1 DEF Submit, Submission, Typed, TypeOK
  <2> HIDE DEF n
  <2>4. Records(n) \in Request /\ ~HoldsParticipant(Records(n))
    BY <2>3, LooksType, Made DEF HoldsParticipant, Detect, Patterns
  <2>5. /\ Ends(t) \/ Goes(t, Records(n))
        /\ joined' = joined
        /\ submissions' \in {submissions, submissions \cup {n}} /\ inserted' \in {inserted, inserted + 1}
    BY <1>4 DEF SubmitSaves, n
  <2>6. request' \in [Threads -> Request] /\ requests' \in Nat /\ HoldersHaveJoined'
    BY <1>4, <2>4, <2>5, GoesType, EndsType DEF SubmitSaves
  <2>7. submissions' \subseteq Submission /\ inserted' \in Nat
    BY <2>3, <2>5 DEF Typed, TypeOK
  <2>8. /\ accessLocked' \subseteq joined' /\ present' \subseteq joined'
        /\ lateAdmissions' \in [Students -> Nat]
    <3>1. CASE MayRefer(request[t].question) /\ request[t].kind = "disqualify"
      <4>1. request[t].student \in joined
        BY <3>1 DEF Typed, HoldersHaveJoined, HoldsParticipant
      <4> QED BY <1>4, <2>2, <3>1, <4>1, LockAccessType DEF SubmitSaves
    <3>2. CASE ~(MayRefer(request[t].question) /\ request[t].kind = "disqualify")
      BY <1>4, <2>2, <3>2 DEF SubmitSaves, Typed, TypeOK
    <3> QED BY <3>1, <3>2
  <2> QED BY <1>4, <2>6, <2>7, <2>8 DEF SubmitSaves, Typed, TypeOK, roomVars, incidentVars
<1>5. CASE UpdateSaves(t)
  <2>1. request[t] \in Update
    BY <1>5, Kinds DEF UpdateSaves, Typed
  <2>2. request[t].row \in Submission
    BY <2>1 DEF Update
  <2>3. Looks(request[t].row, "storm") \in Request /\ ~HoldsParticipant(Looks(request[t].row, "storm"))
    BY <2>2, LooksType, Made DEF HoldsParticipant, Detect, Patterns
  <2>4. request' \in [Threads -> Request] /\ requests' \in Nat /\ HoldersHaveJoined'
    BY <1>5, <2>3, GoesType, EndsType DEF UpdateSaves, participantVars
  <2>5. submissions' \subseteq Submission
    BY <1>5, <2>2 DEF UpdateSaves, Typed, TypeOK
  <2> QED BY <1>5, <2>4, <2>5 DEF UpdateSaves, Typed, TypeOK, roomVars, participantVars,
          historyVars, incidentVars
<1> QED BY <1>1, <1>2, <1>3, <1>4, <1>5

LEMMA SignalType ==
    ASSUME Typed, NEW s \in Students, NEW p \in Patterns
    PROVE  [signals EXCEPT ![s][p] = @ + 1] \in [Students -> [Patterns -> Nat]]
<1>1. signals[s] \in [Patterns -> Nat]
  BY DEF Typed, TypeOK
<1>2. [signals[s] EXCEPT ![p] = @ + 1] \in [Patterns -> Nat]
  BY <1>1
<1> QED BY <1>2 DEF Typed, TypeOK

LEMMA FollowsUpType ==
    ASSUME Typed, NEW t \in Threads, FollowsUp(t)
    PROVE  Typed'
<1>1. request[t] \in Detect \cup Enqueue /\ \E r \in Later : Goes(t, r)
  BY FollowsUpLater DEF Typed
<1>2. request[t].row \in Submission
  BY <1>1 DEF Detect, Enqueue
<1>3. UNCHANGED <<roomVars, participantVars, inserted, lateAdmissions, incidentVars>>
  BY DEF FollowsUp, SubmitRecords, SubmitIsSent, SubmitIsUnsent, SubmitIsTakenBack, DetectLooks,
     DetectChecks, DetectInserts, historyVars
<1>4. request' \in [Threads -> Request] /\ requests' \in Nat /\ HoldersHaveJoined'
  BY <1>1, <1>3, LaterType, GoesType DEF participantVars
<1>5. submissions' \subseteq Submission /\ deleted' \subseteq Nat
  <2>1. CASE SubmitIsUnsent(t)
    <3>1. \A o \in submissions : [o EXCEPT !.failure = "unsent"] \in Submission /\ o \in Submission
      BY DEF Typed, TypeOK, Submission
    <3> QED BY <2>1, <3>1 DEF SubmitIsUnsent, historyVars, Typed, TypeOK
  <2>2. CASE SubmitIsTakenBack(t)
    BY <1>2, <2>2 DEF SubmitIsTakenBack, Submission, Typed, TypeOK
  <2>3. CASE ~SubmitIsUnsent(t) /\ ~SubmitIsTakenBack(t)
    BY <2>3 DEF FollowsUp, SubmitRecords, SubmitIsSent, DetectLooks, DetectChecks, DetectInserts,
       historyVars, Typed, TypeOK
  <2> QED BY <2>1, <2>2, <2>3
<1>6. signals' \in [Students -> [Patterns -> Nat]]
  <2>1. CASE DetectInserts(t)
    <3>1. request[t] \in Detect
      BY <2>1, Kinds DEF DetectInserts, Typed
    <3>2. [signals EXCEPT ![request[t].student][request[t].pattern] = @ + 1]
          \in [Students -> [Patterns -> Nat]]
      BY <3>1, SignalType DEF Detect
    <3> QED BY <2>1, <3>2 DEF DetectInserts, Typed, TypeOK
  <2>2. CASE ~DetectInserts(t)
    BY <2>2 DEF FollowsUp, SubmitRecords, SubmitIsSent, SubmitIsUnsent, SubmitIsTakenBack, DetectLooks,
       DetectChecks, Typed, TypeOK
  <2> QED BY <2>1, <2>2
<1> QED BY <1>3, <1>4, <1>5, <1>6 DEF Typed, TypeOK, roomVars, participantVars, incidentVars

LEMMA TypeStep == ASSUME ExamRoomAssumption, Typed, [Next]_vars PROVE Typed'
<1>1. CASE UNCHANGED vars
  BY <1>1 DEF vars, Typed, TypeOK, HoldersHaveJoined, roomVars, participantVars, historyVars, incidentVars
<1>2. ASSUME NEW t \in Threads, NEW s \in Students, Begin(t, s) PROVE Typed'
  BY <1>2, JoinType, VisitType, SubmitType DEF Begin, RowsOf
<1>3. ASSUME NEW t \in Threads, Continue(t) PROVE Typed'
  <2>1. CASE PatchRoomSaves(t) \/ EditSaves(t)
    BY <2>1, RoomType
  <2>2. CASE JoinSamples(t) \/ JoinCreates(t) \/ JoinAssigns(t)
    BY <2>2, JoinType
  <2>3. CASE VisitEnds(t) \/ LockSaves(t) \/ UnlockSaves(t)
    BY <2>3, VisitType
  <2>4. CASE SubmitMarksPresent(t) \/ SubmitSaves(t) \/ UpdateSaves(t)
    BY <2>4, SubmitType
  <2>5. CASE FollowsUp(t)
    BY <2>5, FollowsUpType
  <2> QED BY <1>3, <2>1, <2>2, <2>3, <2>4, <2>5 DEF Continue, FollowsUp
<1> QED BY <1>1, <1>2, <1>3, RoomType, DeleteRoomType DEF Next

\* The variables keep their types.  A row of a participant who left with the room is
\* never written again: the requests that hold it end with the room.
THEOREM TypeCorrect == Spec => []TypeOK
<1> SUFFICES ASSUME ExamRoomAssumption PROVE Spec => []TypeOK
  BY ExamRoomAssumption
<1>1. Init => Typed
  BY TypeInit
<1>2. Typed /\ [Next]_vars => Typed'
  BY TypeStep
<1>3. Typed => TypeOK
  BY DEF Typed
<1> QED BY <1>1, <1>2, <1>3, PTL DEF Spec

-----------------------------------------------------------------------------
(* Locks.                                                                   *)

\* What a step does to the locks.
LEMMA LocksGrow ==
    ASSUME Next
    PROVE  \/ accessLocked \subseteq accessLocked'
           \/ DeleteRoom
           \/ \E t \in Threads : UnlockSaves(t)
<1>1. ASSUME NEW t \in Threads, NEW s \in Students, Begin(t, s) PROVE accessLocked' = accessLocked
  BY <1>1 DEF Begin, JoinBegins, VisitBegins, ModerateBegins, SubmitBegins, UpdateBegins, participantVars
<1>2. ASSUME NEW t \in Threads, Continue(t), ~UnlockSaves(t) PROVE accessLocked \subseteq accessLocked'
  BY <1>2 DEF Continue, PatchRoomSaves, EditSaves, JoinSamples, JoinCreates, JoinAssigns, VisitEnds,
     LockSaves, SubmitMarksPresent, SubmitSaves, SubmitRecords, SubmitIsSent, SubmitIsUnsent,
     SubmitIsTakenBack, UpdateSaves, DetectLooks, DetectChecks, DetectInserts, MarkPresent, LockAccess, participantVars
<1>3. ASSUME NEW q \in Questions, AddQuestion(q) \/ DeleteQuestion(q) PROVE accessLocked' = accessLocked
  BY <1>3 DEF AddQuestion, DeleteQuestion, participantVars
<1>4. ASSUME NEW r \in submissions, DeleteSubmission(r) PROVE accessLocked' = accessLocked
  BY <1>4 DEF DeleteSubmission, participantVars
<1>5. ASSUME NEW t \in Threads, \/ Dies(t)
                                \/ \E n \in Assignable : PatchRoomBegins(t, n)
                                \/ \E q \in Questions : EditBegins(t, q)
      PROVE  accessLocked' = accessLocked
  BY <1>5 DEF Dies, PatchRoomBegins, EditBegins, participantVars
<1> QED BY <1>1, <1>2, <1>3, <1>4, <1>5 DEF Next

\* No heartbeat, submission or second lock that holds an older copy of the participant
\* undoes a lock: only an unlock request does, or the end of the room.
THEOREM UnlocksAreAsked == Spec => OnlyUnlockUnlocks
<1> SUFFICES ASSUME ExamRoomAssumption PROVE Spec => OnlyUnlockUnlocks
  BY ExamRoomAssumption
<1>1. Init => Typed
  BY TypeInit
<1>2. Typed /\ [Next]_vars => Typed'
  BY TypeStep
<1>3. Typed /\ [Next]_vars =>
        [\A s \in accessLocked \ accessLocked' :
            \/ s \notin joined'
            \/ \E t \in Threads : request[t].kind = "unlock" /\ request[t].student = s
                                  /\ request'[t] = Idle]_accessLocked
  <2> SUFFICES ASSUME Typed, Next, NEW s \in accessLocked \ accessLocked', ~DeleteRoom
               PROVE  \E t \in Threads : request[t].kind = "unlock" /\ request[t].student = s
                                         /\ request'[t] = Idle
    BY DEF vars, participantVars, DeleteRoom
  <2>1. PICK t \in Threads : UnlockSaves(t)
    BY LocksGrow
  <2>2. request[t].kind = "unlock" /\ request[t].student = s
    BY <2>1 DEF UnlockSaves
  <2>3. request'[t] = Idle
    BY <2>1 DEF UnlockSaves, Ends, Goes, Typed
  <2> QED BY <2>2, <2>3
<1> QED BY <1>1, <1>2, <1>3, PTL DEF Spec, OnlyUnlockUnlocks

-----------------------------------------------------------------------------
(* Joins.                                                                   *)

Joining(r, steps) == r.kind = "join" /\ r.step \in steps

\* The row of a participant who is being joined has no questions yet, and one request
\* alone is giving it some.
JoinersComeFirst ==
    /\ \A s \in Students \ joined : assigned[s] = {}
    /\ \A t \in Threads : Joining(request[t], {"assign"}) =>
          /\ assigned[request[t].student] = {}
          /\ \A u \in Threads \ {t} : Joining(request[u], {"assign"}) =>
                request[u].student # request[t].student

AssignedAreOpen == \A s \in Students : assigned[s] \subseteq Open

\* A join has questions to give, and they are there unless something was deleted.
PicksAreOpen ==
    \A t \in Threads : Joining(request[t], {"create", "assign"}) =>
        /\ request[t].picks # {}
        /\ removals = 0 => request[t].picks \subseteq Open

JoinInv ==
    /\ Typed
    /\ JoinersComeFirst
    /\ AssignedAreOpen
    /\ PicksAreOpen
    /\ EmptyHandedHasCause

LEMMA JoinInit == ASSUME ExamRoomAssumption, Init PROVE JoinInv
BY TypeInit DEF Init, JoinInv, JoinersComeFirst, AssignedAreOpen, PicksAreOpen, EmptyHandedHasCause,
   Joining, Idle

\* A step of a thread that is not giving questions to anybody.
LEMMA NotJoining ==
    ASSUME ExamRoomAssumption, JoinInv, Typed', UNCHANGED <<joined, assigned>>, Open \subseteq Open',
           UNCHANGED incidentVars,
           NEW t \in Threads, NEW r, request' = [request EXCEPT ![t] = r],
           ~Joining(request[t], {"assign"}), ~Joining(r, {"create", "assign"})
    PROVE  JoinInv'
<1>1. \A u \in Threads : request'[u] = IF u = t THEN r ELSE request[u]
  BY DEF JoinInv, Typed
<1>2. JoinersComeFirst'
  BY <1>1 DEF JoinInv, JoinersComeFirst, Joining
<1>3. AssignedAreOpen'
  BY DEF JoinInv, AssignedAreOpen
<1>4. PicksAreOpen'
  BY <1>1 DEF JoinInv, PicksAreOpen, incidentVars
<1>5. EmptyHandedHasCause'
  <2> SUFFICES ASSUME NEW s \in joined, assigned[s] = {}, faults + removals = 0
               PROVE  \E u \in Threads : request'[u].kind = "join" /\ request'[u].student = s
                                         /\ request'[u].step = "assign"
    BY DEF EmptyHandedHasCause, incidentVars, JoinInv, Typed, TypeOK
  <2>1. PICK u \in Threads : request[u].kind = "join" /\ request[u].student = s
                             /\ request[u].step = "assign"
    BY DEF EmptyHandedHasCause, JoinInv
  <2>2. u # t
    BY <2>1 DEF Joining
  <2> QED BY <1>1, <2>1, <2>2
<1> QED BY <1>2, <1>3, <1>4, <1>5 DEF JoinInv

\* What all steps of threads do but those of a join that goes on.
DoesNotJoin(t) ==
    /\ UNCHANGED <<joined, assigned>> /\ Open \subseteq Open'
    /\ UNCHANGED incidentVars
    /\ \E r : /\ request' = [request EXCEPT ![t] = r] /\ ~Joining(r, {"create", "assign"})
              /\ ~Joining(request[t], {"assign"})

LEMMA OthersDoNotJoin ==
    ASSUME ExamRoomAssumption, JoinInv, NEW t \in Threads,
           \/ \E n \in Assignable : PatchRoomBegins(t, n)
           \/ \E q \in Questions : EditBegins(t, q)
           \/ \E s \in Students : Begin(t, s)
           \/ Continue(t) /\ request[t].kind # "join"
           \/ JoinSamples(t) /\ request'[t] = Idle
    PROVE  DoesNotJoin(t)
<1>1. ASSUME NEW n \in Assignable, PatchRoomBegins(t, n)
      PROVE  /\ UNCHANGED <<joined, assigned, pool>> /\ UNCHANGED incidentVars
             /\ \E r : Begins(t, r) /\ ~Joining(r, {"create", "assign"})
  BY <1>1 DEF PatchRoomBegins, roomVars, participantVars, Joining
<1>2. ASSUME NEW q \in Questions, EditBegins(t, q)
      PROVE  /\ UNCHANGED <<joined, assigned, pool>> /\ UNCHANGED incidentVars
             /\ \E r : Begins(t, r) /\ ~Joining(r, {"create", "assign"})
  BY <1>2 DEF EditBegins, roomVars, participantVars, Joining
<1>3. ASSUME NEW s \in Students, Begin(t, s)
      PROVE  /\ UNCHANGED <<joined, assigned, pool>> /\ UNCHANGED incidentVars
             /\ \E r : Begins(t, r) /\ ~Joining(r, {"create", "assign"})
  <2>1. CASE JoinBegins(t, s)
    BY <2>1 DEF JoinBegins, roomVars, participantVars, Joining
  <2>2. CASE VisitBegins(t, s)
    BY <2>2 DEF VisitBegins, roomVars, participantVars, Joining
  <2>3. CASE \E kind \in {"lock", "unlock"} : ModerateBegins(t, s, kind)
    BY <2>3 DEF ModerateBegins, roomVars, participantVars, Joining
  <2>4. ASSUME NEW q \in Questions \cup {NoQuestion}, NEW x \in Workspaces,
               NEW kind \in {"submit", "disqualify"}, SubmitBegins(t, s, q, x, kind)
        PROVE  /\ UNCHANGED <<joined, assigned, pool>> /\ UNCHANGED incidentVars
               /\ \E r : Begins(t, r) /\ ~Joining(r, {"create", "assign"})
    BY <2>4 DEF SubmitBegins, roomVars, participantVars, Joining
  <2>5. CASE \E r \in RowsOf(s, submissions), failure \in {"none", "reported"} : UpdateBegins(t, r, failure)
    BY <2>5 DEF UpdateBegins, roomVars, participantVars, Joining
  <2> QED BY <1>3, <2>1, <2>2, <2>3, <2>4, <2>5 DEF Begin
<1>4. ASSUME \E r : Begins(t, r) /\ ~Joining(r, {"create", "assign"})
      PROVE  \E r : /\ request' = [request EXCEPT ![t] = r] /\ ~Joining(r, {"create", "assign"})
                    /\ ~Joining(request[t], {"assign"})
  <2>1. PICK r : Begins(t, r) /\ ~Joining(r, {"create", "assign"})
    BY <1>4
  <2>2. request' = [request EXCEPT ![t] = r] /\ request[t] = Idle
    BY <2>1 DEF Begins
  <2>3. ~Joining(request[t], {"assign"})
    BY <2>2 DEF Idle, Joining
  <2> QED BY <2>1, <2>2, <2>3
<1>5. UNCHANGED pool => Open \subseteq Open'
  BY DEF Open
<1>6. ~Joining(Idle, {"create", "assign"})
  BY DEF Idle, Joining
<1>7. ASSUME Continue(t), request[t].kind # "join"
      PROVE  /\ UNCHANGED <<joined, assigned>> /\ Open \subseteq Open' /\ UNCHANGED incidentVars
             /\ \E r : request' = [request EXCEPT ![t] = r] /\ ~Joining(r, {"create", "assign"})
  <2>1. CASE PatchRoomSaves(t)
    BY <2>1, <1>5, <1>6 DEF PatchRoomSaves, Ends, Goes, participantVars
  <2>2. CASE EditSaves(t)
    BY <2>2, <1>6 DEF EditSaves, Ends, Goes, participantVars, Open, JoinInv, Typed, TypeOK
  <2>3. CASE VisitEnds(t) \/ LockSaves(t) \/ UnlockSaves(t)
    BY <2>3, <1>5, <1>6 DEF VisitEnds, LockSaves, UnlockSaves, Ends, Goes, roomVars
  <2>4. CASE SubmitMarksPresent(t)
    <3>1. request[t] \in Submit
      BY <2>4, Kinds DEF SubmitMarksPresent, JoinInv, Typed
    <3>2. ~Joining([request[t] EXCEPT !.heartbeat = FALSE], {"create", "assign"})
      BY <2>4, <3>1 DEF SubmitMarksPresent, Submit, Joining
    <3> QED BY <2>4, <3>2, <1>5 DEF SubmitMarksPresent, Goes, roomVars
  <2>5. CASE SubmitSaves(t)
    <3>1. \A n : ~Joining(Records(n), {"create", "assign"})
      BY DEF Records, Looks, Joining
    <3> QED BY <2>5, <3>1, <1>5, <1>6 DEF SubmitSaves, Ends, Goes, roomVars
  <2>6. \A pattern : ~Joining(Looks(request[t].row, pattern), {"create", "assign"})
    BY DEF Looks, Joining
  <2>7. CASE UpdateSaves(t)
    BY <2>7, <2>6, <1>5, <1>6 DEF UpdateSaves, Ends, Goes, roomVars, participantVars
  <2>8. CASE FollowsUp(t)
    <3>1. \E r \in Later : Goes(t, r)
      BY <2>8, FollowsUpLater DEF JoinInv, Typed
    <3>2. \A r \in Later : ~Joining(r, {"create", "assign"})
      BY LaterType DEF Joining
    <3>3. UNCHANGED <<joined, assigned, pool>> /\ UNCHANGED incidentVars
      BY <2>8 DEF FollowsUp, SubmitRecords, SubmitIsSent, SubmitIsUnsent, SubmitIsTakenBack, DetectLooks,
         DetectChecks, DetectInserts, roomVars, participantVars
    <3> QED BY <3>1, <3>2, <3>3, <1>5 DEF Goes
  <2>9. ~JoinSamples(t) /\ ~JoinCreates(t) /\ ~JoinAssigns(t)
    BY <1>7 DEF JoinSamples, JoinCreates, JoinAssigns
  <2> QED BY <1>7, <2>1, <2>2, <2>3, <2>4, <2>5, <2>7, <2>8, <2>9 DEF Continue, FollowsUp
<1>8. ASSUME JoinSamples(t), request'[t] = Idle
      PROVE  /\ UNCHANGED <<joined, assigned>> /\ Open \subseteq Open' /\ UNCHANGED incidentVars
             /\ request' = [request EXCEPT ![t] = Idle] /\ ~Joining(request[t], {"assign"})
  <2>1. \E r : Goes(t, r) /\ UNCHANGED <<joined, assigned, pool>> /\ UNCHANGED incidentVars
    BY <1>8 DEF JoinSamples, Ends, roomVars, participantVars
  <2>2. request' = [request EXCEPT ![t] = Idle]
    BY <1>8, <2>1 DEF Goes, JoinInv, Typed
  <2> QED BY <1>8, <1>5, <2>1, <2>2 DEF JoinSamples, Joining
<1>9. (\E r : Begins(t, r) /\ ~Joining(r, {"create", "assign"}))
      /\ UNCHANGED <<joined, assigned, pool>> /\ UNCHANGED incidentVars => DoesNotJoin(t)
  BY <1>4, <1>5 DEF DoesNotJoin
<1>10. CASE Continue(t) /\ request[t].kind # "join"
  BY <1>7, <1>10 DEF Joining, DoesNotJoin
<1>11. CASE JoinSamples(t) /\ request'[t] = Idle
  <2>1. request' = [request EXCEPT ![t] = Idle] /\ ~Joining(request[t], {"assign"})
    BY <1>8, <1>11
  <2>2. UNCHANGED <<joined, assigned>> /\ Open \subseteq Open' /\ UNCHANGED incidentVars
    BY <1>8, <1>11
  <2> QED BY <1>6, <2>1, <2>2 DEF DoesNotJoin
<1>12. ASSUME NEW n \in Assignable, PatchRoomBegins(t, n) PROVE DoesNotJoin(t)
  BY <1>1, <1>9, <1>12
<1>13. ASSUME NEW q \in Questions, EditBegins(t, q) PROVE DoesNotJoin(t)
  BY <1>2, <1>9, <1>13
<1>14. ASSUME NEW s \in Students, Begin(t, s) PROVE DoesNotJoin(t)
  BY <1>3, <1>9, <1>14
<1> QED BY <1>10, <1>11, <1>12, <1>13, <1>14

LEMMA JoinSamplesStep ==
    ASSUME ExamRoomAssumption, JoinInv, NEW t \in Threads, JoinSamples(t), Typed', request'[t] # Idle
    PROVE  JoinInv'
<1>1. request[t] \in Join /\ request[t].step = "sample"
  BY Kinds DEF JoinSamples, JoinInv, Typed
<1>2. PICK picks \in SUBSET Open :
         /\ Cardinality(picks) = request[t].wanted
         /\ Goes(t, [request[t] EXCEPT !.step = "create", !.picks = picks])
  BY DEF JoinSamples, Ends, Goes, JoinInv, Typed
<1>3. picks # {}
  BY <1>1, <1>2, FS_EmptySet DEF Join, ExamRoomAssumption
<1> DEFINE r == [request[t] EXCEPT !.step = "create", !.picks = picks]
<1>4. r.kind = "join" /\ r.step = "create" /\ r.picks = picks
  BY <1>1 DEF Join
<1> HIDE DEF r
<1>5. \A u \in Threads : request'[u] = IF u = t THEN r ELSE request[u]
  BY <1>2 DEF Goes, JoinInv, Typed, r
<1>6. UNCHANGED <<joined, assigned, pool>> /\ UNCHANGED incidentVars /\ Open' = Open
  BY DEF JoinSamples, roomVars, participantVars, Open
<1>7. JoinersComeFirst'
  BY <1>4, <1>5, <1>6 DEF JoinInv, JoinersComeFirst, Joining
<1>8. PicksAreOpen'
  BY <1>3, <1>4, <1>5, <1>6 DEF JoinInv, PicksAreOpen, Joining, incidentVars
<1>9. EmptyHandedHasCause'
  BY <1>1, <1>4, <1>5, <1>6 DEF JoinInv, EmptyHandedHasCause, incidentVars
<1> QED BY <1>6, <1>7, <1>8, <1>9 DEF JoinInv, AssignedAreOpen

LEMMA JoinCreatesStep ==
    ASSUME ExamRoomAssumption, JoinInv, NEW t \in Threads, JoinCreates(t), Typed'
    PROVE  JoinInv'
<1>1. request[t] \in Join /\ request[t].step = "create"
  BY Kinds DEF JoinCreates, JoinInv, Typed
<1> DEFINE s == request[t].student
<1>2. UNCHANGED <<assigned, pool>> /\ UNCHANGED incidentVars /\ Open' = Open
  BY DEF JoinCreates, roomVars, Open
<1>3. CASE s \in joined \/ ~roomOpen
  <2>1. request' = [request EXCEPT ![t] = Idle] /\ UNCHANGED joined
    BY <1>3 DEF JoinCreates, Ends, Goes
  <2>2. ~Joining(request[t], {"assign"}) /\ ~Joining(Idle, {"create", "assign"})
    BY <1>1 DEF Joining, Idle
  <2> QED BY <1>2, <2>1, <2>2, NotJoining
<1>4. CASE ~(s \in joined \/ ~roomOpen)
  <2> DEFINE r == [request[t] EXCEPT !.step = "assign"]
  <2>1. r.kind = "join" /\ r.step = "assign" /\ r.picks = request[t].picks /\ r.student = s
    BY <1>1 DEF Join
  <2>2. joined' = joined \cup {s} /\ Goes(t, r)
    BY <1>4 DEF JoinCreates
  <2> HIDE DEF r
  <2>3. \A u \in Threads : request'[u] = IF u = t THEN r ELSE request[u]
    BY <2>2 DEF Goes, JoinInv, Typed
  <2>4. s \in Students /\ s \notin joined
    BY <1>1, <1>4 DEF Join
  <2>5. \A u \in Threads : Joining(request[u], {"assign"}) => request[u].student \in joined
    BY DEF Joining, JoinInv, Typed, HoldersHaveJoined, HoldsParticipant
  <2>6. JoinersComeFirst'
    <3>1. \A a \in Students \ joined' : assigned'[a] = {}
      BY <1>2, <2>2 DEF JoinInv, JoinersComeFirst
    <3>2. ASSUME NEW u \in Threads, Joining(request'[u], {"assign"})
          PROVE  assigned'[request'[u].student] = {}
      BY <3>2, <1>2, <2>1, <2>3, <2>4 DEF JoinInv, JoinersComeFirst
    <3>3. ASSUME NEW u \in Threads, NEW v \in Threads \ {u}, Joining(request'[u], {"assign"}),
                 Joining(request'[v], {"assign"})
          PROVE  request'[u].student # request'[v].student
      BY <3>3, <2>1, <2>3, <2>4, <2>5 DEF JoinInv, JoinersComeFirst
    <3> QED BY <3>1, <3>2, <3>3 DEF JoinersComeFirst, Joining
  <2>7. PicksAreOpen'
    BY <1>1, <1>2, <2>1, <2>3 DEF JoinInv, PicksAreOpen, Joining, incidentVars, Join
  <2>8. EmptyHandedHasCause'
    BY <1>1, <1>2, <2>1, <2>2, <2>3 DEF JoinInv, EmptyHandedHasCause, incidentVars
  <2> QED BY <1>2, <2>6, <2>7, <2>8 DEF JoinInv, AssignedAreOpen
<1> QED BY <1>3, <1>4

LEMMA JoinAssignsStep ==
    ASSUME ExamRoomAssumption, JoinInv, NEW t \in Threads, JoinAssigns(t), Typed'
    PROVE  JoinInv' /\ \A s \in Students : assigned[s] # {} => assigned'[s] = assigned[s]
<1>1. request[t] \in Join /\ request[t].step = "assign" /\ Joining(request[t], {"assign"})
  BY Kinds DEF JoinAssigns, JoinInv, Typed, Joining
<1> DEFINE s == request[t].student
           r == request'[t]
<1>2. UNCHANGED <<joined, pool>> /\ UNCHANGED incidentVars /\ Open' = Open
  BY DEF JoinAssigns, roomVars, Open
<1>3. /\ ~Joining(r, {"create", "assign"})
      /\ \A u \in Threads : request'[u] = IF u = t THEN r ELSE request[u]
  <2>1. CASE request[t].picks \subseteq Open
    BY <2>1 DEF JoinAssigns, Goes, JoinInv, Typed, Joining
  <2>2. CASE ~(request[t].picks \subseteq Open)
    BY <2>2 DEF JoinAssigns, Ends, Goes, JoinInv, Typed, Joining, Idle
  <2> QED BY <2>1, <2>2
<1>4. s \in joined /\ s \in Students /\ assigned[s] = {}
  BY <1>1 DEF JoinInv, Typed, HoldersHaveJoined, HoldsParticipant, JoinersComeFirst, Join
<1>5. /\ \A a \in Students : a # s => assigned'[a] = assigned[a]
      /\ assigned'[s] \subseteq Open
      /\ assigned'[s] = {} => removals > 0
  <2>1. CASE request[t].picks \subseteq Open
    <3>1. assigned' = [assigned EXCEPT ![s] = request[t].picks]
      BY <2>1 DEF JoinAssigns
    <3>2. request[t].picks # {}
      BY <1>1 DEF JoinInv, PicksAreOpen, Joining
    <3> QED BY <1>4, <2>1, <3>1, <3>2 DEF JoinInv, Typed, TypeOK
  <2>2. CASE ~(request[t].picks \subseteq Open)
    <3>1. UNCHANGED assigned
      BY <2>2 DEF JoinAssigns
    <3>2. removals # 0
      BY <1>1, <2>2 DEF JoinInv, PicksAreOpen, Joining
    <3>3. removals > 0
      BY <3>2 DEF JoinInv, Typed, TypeOK
    <3> QED BY <1>4, <3>1, <3>3
  <2> QED BY <2>1, <2>2
<1> HIDE DEF r, s
<1>6. JoinersComeFirst'
  <2>1. \A a \in Students \ joined' : assigned'[a] = {}
    BY <1>2, <1>4, <1>5 DEF JoinInv, JoinersComeFirst
  <2>2. ASSUME NEW u \in Threads, Joining(request'[u], {"assign"})
        PROVE  /\ assigned'[request'[u].student] = {}
               /\ \A v \in Threads \ {u} : Joining(request'[v], {"assign"}) =>
                     request'[v].student # request'[u].student
    <3>1. u # t /\ request'[u] = request[u]
      BY <1>3, <2>2 DEF Joining
    <3>2. request[u] \in Request /\ Joining(request[u], {"assign"})
      BY <2>2, <3>1 DEF JoinInv, Typed
    <3>3. request[u].student \in Students
      BY <3>2, Kinds DEF Joining, Join
    <3>4. request[u].student # s /\ assigned[request[u].student] = {}
      BY <1>1, <3>1, <3>2 DEF JoinInv, JoinersComeFirst, s
    <3>5. assigned'[request'[u].student] = {}
      BY <1>5, <3>1, <3>3, <3>4
    <3>6. ASSUME NEW v \in Threads \ {u}, Joining(request'[v], {"assign"})
          PROVE  request'[v].student # request'[u].student
      BY <1>3, <3>1, <3>2, <3>6 DEF JoinInv, JoinersComeFirst, Joining
    <3> QED BY <3>5, <3>6
  <2> QED BY <2>1, <2>2 DEF JoinersComeFirst
<1>7. AssignedAreOpen'
  BY <1>2, <1>5 DEF JoinInv, AssignedAreOpen
<1>8. PicksAreOpen'
  BY <1>2, <1>3 DEF JoinInv, PicksAreOpen, Joining, incidentVars
<1>9. EmptyHandedHasCause'
  <2> SUFFICES ASSUME NEW a \in joined, assigned'[a] = {}, faults + removals = 0
               PROVE  \E u \in Threads : request'[u].kind = "join" /\ request'[u].student = a
                                         /\ request'[u].step = "assign"
    BY <1>2 DEF EmptyHandedHasCause, incidentVars, JoinInv, Typed, TypeOK
  <2>1. removals = 0
    BY DEF JoinInv, Typed, TypeOK
  <2>2. a # s /\ a \in Students
    BY <1>5, <2>1 DEF JoinInv, Typed, TypeOK
  <2>3. PICK u \in Threads : request[u].kind = "join" /\ request[u].student = a
                             /\ request[u].step = "assign"
    BY <1>5, <2>2 DEF EmptyHandedHasCause, JoinInv
  <2>4. u # t
    BY <2>2, <2>3 DEF s
  <2> QED BY <1>3, <2>3, <2>4
<1>10. \A a \in Students : assigned[a] # {} => assigned'[a] = assigned[a]
  BY <1>4, <1>5
<1> QED BY <1>6, <1>7, <1>8, <1>9, <1>10 DEF JoinInv

LEMMA MoreThanNone == \A m, n \in Nat : m > 0 \/ n > 0 => m + n > 0
OBVIOUS

LEMMA QuestionStep ==
    ASSUME ExamRoomAssumption, JoinInv, Typed',
           \/ \E q \in Questions : AddQuestion(q) \/ DeleteQuestion(q)
           \/ \E r \in submissions : DeleteSubmission(r)
           \/ \E t \in Threads : Dies(t)
    PROVE  JoinInv'
<1>1. ASSUME NEW q \in Questions, AddQuestion(q) PROVE JoinInv'
  <2>1. Open \subseteq Open' /\ UNCHANGED <<joined, assigned, request, faults, removals>>
    BY <1>1 DEF AddQuestion, Open, JoinInv, Typed, TypeOK, participantVars, incidentVars
  <2> QED BY <2>1 DEF JoinInv, JoinersComeFirst, AssignedAreOpen, PicksAreOpen, EmptyHandedHasCause
<1>2. ASSUME NEW q \in Questions, DeleteQuestion(q) PROVE JoinInv'
  <2>1. /\ removals' > 0 /\ faults' \in Nat /\ UNCHANGED <<joined, request>>
        /\ Open' = Open \ {q}
        /\ \A s \in Students : assigned'[s] = assigned[s] \ {q}
    BY <1>2 DEF DeleteQuestion, Removes, Open, JoinInv, Typed, TypeOK
  <2>2. JoinersComeFirst'
    <3>1. ASSUME NEW t \in Threads, Joining(request[t], {"assign"})
          PROVE  request[t].student \in Students
      BY <3>1, Kinds DEF Joining, JoinInv, Typed, Join
    <3> QED BY <2>1, <3>1 DEF JoinInv, JoinersComeFirst
  <2>3. AssignedAreOpen'
    BY <2>1 DEF JoinInv, AssignedAreOpen
  <2>4. PicksAreOpen'
    BY <2>1 DEF JoinInv, PicksAreOpen
  <2>5. EmptyHandedHasCause'
    BY <2>1, MoreThanNone DEF EmptyHandedHasCause, Typed, TypeOK
  <2> QED BY <2>2, <2>3, <2>4, <2>5 DEF JoinInv
<1>3. ASSUME NEW r \in submissions, DeleteSubmission(r) PROVE JoinInv'
  <2>1. /\ removals' > 0 /\ faults' \in Nat
        /\ UNCHANGED <<joined, request, pool, assigned>> /\ Open' = Open
    BY <1>3 DEF DeleteSubmission, Removes, roomVars, participantVars, Open, JoinInv, Typed, TypeOK
  <2>2. JoinersComeFirst' /\ AssignedAreOpen'
    BY <2>1 DEF JoinInv, JoinersComeFirst, AssignedAreOpen
  <2>3. PicksAreOpen'
    BY <2>1 DEF JoinInv, PicksAreOpen
  <2>4. faults' + removals' > 0
    BY <2>1, MoreThanNone DEF Typed, TypeOK
  <2>5. EmptyHandedHasCause'
    BY <2>4 DEF EmptyHandedHasCause
  <2> QED BY <2>2, <2>3, <2>5 DEF JoinInv
<1>4. ASSUME NEW t \in Threads, Dies(t) PROVE JoinInv'
  <2>1. /\ faults' > 0 /\ UNCHANGED <<joined, pool, assigned, removals>> /\ Open' = Open
        /\ \A u \in Threads : request'[u] = IF u = t THEN Idle ELSE request[u]
    BY <1>4 DEF Dies, Ends, Goes, roomVars, participantVars, Open, JoinInv, Typed, TypeOK
  <2>2. ~Joining(Idle, {"create", "assign"}) /\ ~Joining(Idle, {"assign"})
    BY DEF Joining, Idle
  <2>3. JoinersComeFirst' /\ PicksAreOpen'
    BY <2>1, <2>2 DEF JoinInv, JoinersComeFirst, PicksAreOpen
  <2>4. EmptyHandedHasCause'
    BY <2>1, MoreThanNone DEF EmptyHandedHasCause, Typed, TypeOK
  <2> QED BY <2>1, <2>3, <2>4 DEF JoinInv, AssignedAreOpen
<1> QED BY <1>1, <1>2, <1>3, <1>4

LEMMA RoomEnds ==
    ASSUME ExamRoomAssumption, JoinInv, Typed', DeleteRoom
    PROVE  JoinInv'
<1>1. joined' = {} /\ (\A s \in Students : assigned'[s] = {}) /\ removals' > 0 /\ faults' \in Nat
  BY DEF DeleteRoom, Removes, JoinInv, Typed, TypeOK
<1>2. ASSUME NEW t \in Threads, Joining(request'[t], {"create", "assign"})
      PROVE  /\ request'[t] = request[t] /\ Joining(request[t], {"create", "assign"})
             /\ ~Joining(request'[t], {"assign"})
  <2>1. request'[t] = Orphaned(request[t])
    BY DEF DeleteRoom
  <2>2. request[t].kind # "submit"
    <3> SUFFICES ASSUME request[t].kind = "submit" PROVE FALSE
      OBVIOUS
    <3>1. request[t] \in Submit
      BY Kinds DEF JoinInv, Typed
    <3>2. Orphaned(request[t]).kind = "submit"
      BY <3>1 DEF Orphaned, Submit
    <3> QED BY <1>2, <2>1, <3>2 DEF Joining
  <2> QED BY <1>2, <2>1, <2>2 DEF Orphaned, Joining, Idle
<1>3. JoinersComeFirst'
  BY <1>1, <1>2 DEF JoinersComeFirst, Joining
<1>4. PicksAreOpen'
  BY <1>1, <1>2 DEF JoinInv, PicksAreOpen
<1>5. AssignedAreOpen' /\ EmptyHandedHasCause'
  BY <1>1 DEF AssignedAreOpen, EmptyHandedHasCause
<1> QED BY <1>3, <1>4, <1>5 DEF JoinInv

LEMMA JoinStep == ASSUME ExamRoomAssumption, JoinInv, [Next]_vars PROVE JoinInv'
<1>1. Typed'
  BY TypeStep DEF JoinInv
<1>2. CASE UNCHANGED vars
  <2>1. UNCHANGED <<joined, assigned, request, faults, removals, pool>> /\ Open' = Open
    BY <1>2 DEF vars, roomVars, participantVars, incidentVars, Open
  <2> QED BY <1>1, <2>1 DEF JoinInv, JoinersComeFirst, AssignedAreOpen, PicksAreOpen, EmptyHandedHasCause
<1>3. ASSUME NEW t \in Threads,
             \/ \E n \in Assignable : PatchRoomBegins(t, n)
             \/ \E q \in Questions : EditBegins(t, q)
             \/ \E s \in Students : Begin(t, s)
             \/ Continue(t) /\ request[t].kind # "join"
             \/ JoinSamples(t) /\ request'[t] = Idle
      PROVE  JoinInv'
  BY <1>1, <1>3, OthersDoNotJoin, NotJoining DEF DoesNotJoin
<1>4. ASSUME NEW t \in Threads, Continue(t), request[t].kind = "join" PROVE JoinInv'
  <2>1. JoinSamples(t) \/ JoinCreates(t) \/ JoinAssigns(t)
    BY <1>4 DEF Continue, PatchRoomSaves, EditSaves, VisitEnds, LockSaves, UnlockSaves,
       SubmitMarksPresent, SubmitSaves, SubmitRecords, SubmitIsSent, SubmitIsUnsent, SubmitIsTakenBack,
       UpdateSaves, DetectLooks, DetectChecks, DetectInserts
  <2> QED BY <1>1, <1>3, <2>1, JoinSamplesStep, JoinCreatesStep, JoinAssignsStep
<1> QED BY <1>1, <1>2, <1>3, <1>4, QuestionStep, RoomEnds DEF Next

LEMMA JoinInvariant == Spec => []JoinInv
<1> SUFFICES ASSUME ExamRoomAssumption PROVE Spec => []JoinInv
  BY ExamRoomAssumption
<1>1. Init => JoinInv
  BY JoinInit
<1>2. JoinInv /\ [Next]_vars => JoinInv'
  BY JoinStep
<1> QED BY <1>1, <1>2, PTL DEF Spec

\* However the joins of a student overlap, a participant without questions is one whose
\* join is under way, or died, or found a question deleted.
THEOREM EmptyHandsAreExplained == Spec => []EmptyHandedHasCause
<1> SUFFICES ASSUME ExamRoomAssumption PROVE Spec => []EmptyHandedHasCause
  BY ExamRoomAssumption
<1>1. JoinInv => EmptyHandedHasCause
  BY DEF JoinInv
<1> QED BY <1>1, JoinInvariant, PTL

LEMMA AssignmentStep ==
    ASSUME ExamRoomAssumption, JoinInv, Next, assigned' # assigned,
           NEW s \in Students, assigned[s] # {}
    PROVE  assigned'[s] = {q \in assigned[s] : pool'[q] = "open"}
<1>0. Typed' /\ assigned[s] \subseteq Open /\ assigned[s] \subseteq Questions
  BY TypeStep DEF JoinInv, AssignedAreOpen, Typed, TypeOK
<1>1. ASSUME NEW q \in Questions, DeleteQuestion(q) PROVE assigned'[s] = {x \in assigned[s] : pool'[x] = "open"}
  <2>1. assigned'[s] = assigned[s] \ {q}
    BY <1>1 DEF DeleteQuestion
  <2>2. \A x \in assigned[s] : pool'[x] = "open" <=> x # q
    BY <1>0, <1>1 DEF DeleteQuestion, Open, JoinInv, Typed, TypeOK
  <2> QED BY <2>1, <2>2
<1>2. CASE DeleteRoom
  <2>1. assigned'[s] = {} /\ \A x \in assigned[s] : pool'[x] # "open"
    BY <1>0, <1>2 DEF DeleteRoom
  <2> QED BY <2>1
<1>3. ASSUME NEW t \in Threads, JoinAssigns(t) PROVE assigned'[s] = {x \in assigned[s] : pool'[x] = "open"}
  <2>1. assigned'[s] = assigned[s] /\ pool' = pool
    BY <1>0, <1>3, JoinAssignsStep DEF JoinAssigns, roomVars
  <2> QED BY <1>0, <2>1 DEF Open
<1>4. ASSUME NEW t \in Threads,
             \/ \E n \in Assignable : PatchRoomBegins(t, n)
             \/ \E q \in Questions : EditBegins(t, q)
             \/ \E x \in Students : Begin(t, x)
             \/ Continue(t) /\ request[t].kind # "join"
      PROVE  FALSE
  BY <1>4, OthersDoNotJoin DEF DoesNotJoin
<1>5. ASSUME NEW t \in Threads, Continue(t), request[t].kind = "join" PROVE JoinAssigns(t)
  BY <1>5 DEF Continue, PatchRoomSaves, EditSaves, VisitEnds, LockSaves, UnlockSaves,
     SubmitMarksPresent, SubmitSaves, SubmitRecords, SubmitIsSent, SubmitIsUnsent, SubmitIsTakenBack,
     UpdateSaves, DetectLooks, DetectChecks, DetectInserts, JoinSamples, JoinCreates, participantVars
<1>6. ASSUME NEW t \in Threads, Dies(t) PROVE FALSE
  BY <1>6 DEF Dies, participantVars
<1>7. ASSUME NEW q \in Questions, AddQuestion(q) PROVE FALSE
  BY <1>7 DEF AddQuestion, participantVars
<1>8. ASSUME NEW r \in submissions, DeleteSubmission(r) PROVE FALSE
  BY <1>8 DEF DeleteSubmission, participantVars
<1> QED BY <1>1, <1>2, <1>3, <1>4, <1>5, <1>6, <1>7, <1>8 DEF Next

\* What a student was given stays as it is, however joins, edits and deletions overlap:
\* a question is only taken away when it is deleted, and no deleted one comes back.
THEOREM AssignmentsAreKept == Spec => AssignmentIsStable
<1> SUFFICES ASSUME ExamRoomAssumption PROVE Spec => AssignmentIsStable
  BY ExamRoomAssumption
<1>1. JoinInv /\ [Next]_vars =>
        [\A s \in Students : assigned[s] # {} =>
            assigned'[s] = {q \in assigned[s] : pool'[q] = "open"}]_assigned
  BY AssignmentStep DEF vars, participantVars
<1> QED BY <1>1, JoinInvariant, PTL DEF Spec, AssignmentIsStable

-----------------------------------------------------------------------------
(* Admission.                                                               *)

Submitting(s) == {t \in Threads : request[t].kind = "submit" /\ request[t].student = s}

\* A student is locked by a thread that is not submitting, and while the lock lasts no
\* submission begins and each one that was under way is saved once.
LateAreFew ==
    \A s \in accessLocked : lateAdmissions[s] + Cardinality(Submitting(s)) < Cardinality(Threads)

LEMMA SubmittingFinite ==
    ASSUME ExamRoomAssumption, NEW s
    PROVE  /\ IsFiniteSet(Submitting(s)) /\ Cardinality(Submitting(s)) \in Nat
           /\ Cardinality(Threads) \in Nat /\ Cardinality(Submitting(s)) <= Cardinality(Threads)
BY FS_Subset, FS_CardinalityType DEF Submitting, ExamRoomAssumption

\* A step after which no more requests of the locked students submit than before, and
\* that admits nothing late.
LEMMA NobodyLate ==
    ASSUME ExamRoomAssumption, Typed, LateAreFew, accessLocked' \subseteq accessLocked,
           UNCHANGED lateAdmissions,
           \A s \in accessLocked' : Submitting(s)' \subseteq Submitting(s)
    PROVE  LateAreFew'
<1> SUFFICES ASSUME NEW s \in accessLocked'
             PROVE  lateAdmissions'[s] + Cardinality(Submitting(s)') < Cardinality(Threads)
  BY DEF LateAreFew
<1>1. /\ Cardinality(Submitting(s)') \in Nat /\ Cardinality(Submitting(s)) \in Nat
      /\ Cardinality(Submitting(s)') <= Cardinality(Submitting(s)) /\ Cardinality(Threads) \in Nat
  BY SubmittingFinite, FS_Subset, FS_CardinalityType
<1>2. lateAdmissions[s] \in Nat
  BY DEF Typed, TypeOK
<1>3. lateAdmissions[s] + Cardinality(Submitting(s)) < Cardinality(Threads)
  BY DEF LateAreFew
<1> HIDE DEF Submitting
<1>4. \A a, b, c, n \in Nat : a + b < n /\ c <= b => a + c < n
  OBVIOUS
<1> QED BY <1>1, <1>2, <1>3, <1>4

\* A thread goes on to what does not submit, or submits already.
LEMMA SubmittingLess ==
    ASSUME Typed, NEW t \in Threads, NEW r, request' = [request EXCEPT ![t] = r], NEW s,
           r.kind = "submit" /\ r.student = s => t \in Submitting(s)
    PROVE  Submitting(s)' \subseteq Submitting(s)
<1>1. \A u \in Threads : request'[u] = IF u = t THEN r ELSE request[u]
  BY DEF Typed
<1> QED BY <1>1 DEF Submitting

LEMMA LockLate ==
    ASSUME ExamRoomAssumption, Typed, LateAreFew, NEW t \in Threads, NEW r, r.kind # "submit",
           request' = [request EXCEPT ![t] = r], request[t].kind # "submit",
           NEW a \in Students, NEW sawLocked \in BOOLEAN, LockAccess(a, sawLocked)
    PROVE  LateAreFew'
<1>1. \A s : Submitting(s)' \subseteq Submitting(s)
  BY SubmittingLess
<1>2. CASE sawLocked
  BY <1>1, <1>2, NobodyLate DEF LockAccess
<1>3. CASE ~sawLocked
  <2> SUFFICES ASSUME NEW s \in accessLocked'
               PROVE  lateAdmissions'[s] + Cardinality(Submitting(s)') < Cardinality(Threads)
    BY DEF LateAreFew
  <2>1. s \in accessLocked \cup {a} /\ s \in Students
    BY <1>3 DEF LockAccess, Typed, TypeOK
  <2>2. Submitting(s)' \subseteq Submitting(s) \ {t} /\ Submitting(s) = Submitting(s) \ {t}
    BY <1>1 DEF Submitting
  <2>3. Submitting(s)' \subseteq Threads \ {t}
    BY <2>2 DEF Submitting
  <2>4. /\ Cardinality(Threads \ {t}) = Cardinality(Threads) - 1 /\ Cardinality(Threads) \in Nat
        /\ IsFiniteSet(Threads \ {t})
    BY FS_RemoveElement, FS_CardinalityType DEF ExamRoomAssumption
  <2>5. /\ Cardinality(Submitting(s)') <= Cardinality(Threads) - 1
        /\ Cardinality(Submitting(s)') \in Nat
    BY <2>3, <2>4, FS_Subset, FS_CardinalityType
  <2>6. /\ Cardinality(Submitting(s)) \in Nat
        /\ Cardinality(Submitting(s)') <= Cardinality(Submitting(s))
    BY <1>1, SubmittingFinite, FS_Subset
  <2> HIDE DEF Submitting
  <2>7. CASE s \in accessLocked
    <3>1. lateAdmissions'[s] = lateAdmissions[s] /\ lateAdmissions[s] \in Nat
      BY <1>3, <2>1, <2>7 DEF LockAccess, Typed, TypeOK
    <3>2. lateAdmissions[s] + Cardinality(Submitting(s)) < Cardinality(Threads)
      BY <2>7 DEF LateAreFew
    <3>3. \A x, y, z, n \in Nat : x + y < n /\ z <= y => x + z < n
      OBVIOUS
    <3> QED BY <2>4, <2>5, <2>6, <3>1, <3>2, <3>3
  <2>8. CASE s \notin accessLocked
    <3>1. lateAdmissions'[s] = 0
      BY <1>3, <2>1, <2>8 DEF LockAccess, Typed, TypeOK
    <3>2. \A z, n \in Nat : z <= n - 1 => 0 + z < n
      OBVIOUS
    <3> QED BY <2>4, <2>5, <3>1, <3>2
  <2> QED BY <2>7, <2>8
<1> QED BY <1>2, <1>3

LEMMA SaveLate ==
    ASSUME ExamRoomAssumption, Typed, LateAreFew, NEW t \in Threads, NEW r, r.kind # "submit",
           request' = [request EXCEPT ![t] = r], NEW a \in Students, t \in Submitting(a),
           UNCHANGED accessLocked,
           lateAdmissions' = [lateAdmissions EXCEPT ![a] = IF a \in accessLocked THEN @ + 1 ELSE @]
    PROVE  LateAreFew'
<1> SUFFICES ASSUME NEW s \in accessLocked
             PROVE  lateAdmissions'[s] + Cardinality(Submitting(s)') < Cardinality(Threads)
  BY DEF LateAreFew
<1>1. s \in Students /\ lateAdmissions[s] \in Nat
  BY DEF Typed, TypeOK
<1>2. lateAdmissions[s] + Cardinality(Submitting(s)) < Cardinality(Threads)
  BY DEF LateAreFew
<1>3. Submitting(s)' \subseteq Submitting(s) \ {t}
  <2>1. \A u \in Threads : request'[u] = IF u = t THEN r ELSE request[u]
    BY DEF Typed
  <2> QED BY <2>1 DEF Submitting
<1>4. /\ IsFiniteSet(Submitting(s)) /\ Cardinality(Submitting(s)) \in Nat
      /\ Cardinality(Threads) \in Nat
  BY SubmittingFinite
<1>5. /\ Cardinality(Submitting(s)') \in Nat
      /\ Cardinality(Submitting(s)') <= Cardinality(Submitting(s) \ {t})
  BY <1>3, <1>4, FS_RemoveElement, FS_Subset, FS_CardinalityType
<1>6. Cardinality(Submitting(s) \ {t}) = IF t \in Submitting(s) THEN Cardinality(Submitting(s)) - 1
                                         ELSE Cardinality(Submitting(s))
  BY <1>4, FS_RemoveElement
<1>7. CASE s = a
  <2>1. lateAdmissions'[s] = lateAdmissions[s] + 1
    BY <1>1, <1>7 DEF Typed, TypeOK
  <2>2. \A x, y, z, n \in Nat : x + y < n /\ z <= y - 1 => (x + 1) + z < n
    OBVIOUS
  <2>3. Cardinality(Submitting(s)') <= Cardinality(Submitting(s)) - 1
    BY <1>5, <1>6, <1>7
  <2> HIDE DEF Submitting
  <2> QED BY <1>1, <1>2, <1>4, <1>5, <2>1, <2>2, <2>3
<1>8. CASE s # a
  <2>1. lateAdmissions'[s] = lateAdmissions[s] /\ t \notin Submitting(s)
    BY <1>1, <1>8 DEF Typed, TypeOK, Submitting
  <2>2. \A x, y, z, n \in Nat : x + y < n /\ z <= y => x + z < n
    OBVIOUS
  <2>3. Cardinality(Submitting(s)') <= Cardinality(Submitting(s))
    BY <1>5, <1>6, <2>1
  <2> HIDE DEF Submitting
  <2> QED BY <1>1, <1>2, <1>4, <1>5, <2>1, <2>2, <2>3
<1> QED BY <1>7, <1>8

LEMMA LateStep == ASSUME ExamRoomAssumption, Typed, LateAreFew, [Next]_vars PROVE LateAreFew'
<1>1. CASE UNCHANGED vars
  <2>1. UNCHANGED <<accessLocked, lateAdmissions, request>>
    BY <1>1 DEF vars, participantVars, historyVars
  <2> QED BY <2>1 DEF LateAreFew, Submitting
<1>2. ASSUME UNCHANGED <<lateAdmissions, request>>, accessLocked' \subseteq accessLocked
      PROVE  LateAreFew'
  BY <1>2 DEF LateAreFew, Submitting
<1>3. ASSUME NEW t \in Threads, NEW r, request' = [request EXCEPT ![t] = r],
             accessLocked' \subseteq accessLocked, UNCHANGED lateAdmissions,
             r.kind = "submit" => t \in Submitting(r.student) \/ r.student \notin accessLocked
      PROVE  LateAreFew'
  <2>1. \A s \in accessLocked : Submitting(s)' \subseteq Submitting(s)
    BY <1>3, SubmittingLess
  <2> QED BY <1>3, <2>1, NobodyLate
<1>4. ASSUME NEW t \in Threads, NEW r, Begins(t, r), UNCHANGED <<accessLocked, lateAdmissions>>,
             r.kind = "submit" => r.student \notin accessLocked
      PROVE  LateAreFew'
  BY <1>3, <1>4 DEF Begins
<1>5. ASSUME NEW t \in Threads, NEW s \in Students, Begin(t, s) PROVE LateAreFew'
  <2>1. CASE JoinBegins(t, s)
    BY <1>4, <2>1 DEF JoinBegins, participantVars, historyVars
  <2>2. CASE VisitBegins(t, s)
    BY <1>4, <2>2 DEF VisitBegins, participantVars, historyVars
  <2>3. ASSUME NEW kind \in {"lock", "unlock"}, ModerateBegins(t, s, kind) PROVE LateAreFew'
    BY <1>4, <2>3 DEF ModerateBegins, participantVars, historyVars
  <2>4. ASSUME NEW q \in Questions \cup {NoQuestion}, NEW x \in Workspaces,
               NEW kind \in {"submit", "disqualify"}, SubmitBegins(t, s, q, x, kind)
        PROVE  LateAreFew'
    BY <1>4, <2>4 DEF SubmitBegins, Admits, participantVars, historyVars
  <2>5. ASSUME NEW r \in RowsOf(s, submissions), NEW failure \in {"none", "reported"}, UpdateBegins(t, r, failure)
        PROVE  LateAreFew'
    BY <1>4, <2>5 DEF UpdateBegins, participantVars, historyVars
  <2> QED BY <1>5, <2>1, <2>2, <2>3, <2>4, <2>5 DEF Begin
<1>6. ASSUME NEW t \in Threads, NEW n \in Assignable, PatchRoomBegins(t, n) PROVE LateAreFew'
  BY <1>4, <1>6 DEF PatchRoomBegins, participantVars, historyVars
<1>7. ASSUME NEW t \in Threads, NEW q \in Questions, EditBegins(t, q) PROVE LateAreFew'
  BY <1>4, <1>7 DEF EditBegins, participantVars, historyVars
<1>8. ASSUME NEW t \in Threads, Ends(t), UNCHANGED lateAdmissions, accessLocked' \subseteq accessLocked
      PROVE  LateAreFew'
  BY <1>3, <1>8 DEF Ends, Goes, Idle
<1>9. ASSUME NEW t \in Threads, Continue(t) PROVE LateAreFew'
  <2>1. CASE PatchRoomSaves(t) \/ EditSaves(t) \/ VisitEnds(t) \/ UnlockSaves(t)
    BY <1>8, <2>1 DEF PatchRoomSaves, EditSaves, VisitEnds, UnlockSaves, MarkPresent,
       participantVars, historyVars
  <2>2. CASE JoinSamples(t) \/ JoinCreates(t) \/ JoinAssigns(t)
    <3>1. request[t] \in Join
      BY <2>2, Kinds DEF JoinSamples, JoinCreates, JoinAssigns, Typed
    <3> DEFINE Other(r) == r.kind # "submit"
    <3>2. /\ \A picks : Other([request[t] EXCEPT !.step = "create", !.picks = picks])
          /\ Other([request[t] EXCEPT !.step = "assign"])
      BY <3>1 DEF Join
    <3>3. Other(Idle) /\ \A s : Other([kind |-> "visit", student |-> s])
      BY DEF Idle
    <3> HIDE DEF Other
    <3>4. \E r : Goes(t, r) /\ Other(r)
      BY <2>2, <3>2, <3>3 DEF JoinSamples, JoinCreates, JoinAssigns, Ends
    <3>5. UNCHANGED <<accessLocked, lateAdmissions>>
      BY <2>2 DEF JoinSamples, JoinCreates, JoinAssigns, participantVars, historyVars
    <3> QED BY <1>3, <3>4, <3>5 DEF Goes, Other
  <2>3. CASE LockSaves(t)
    <3>1. request[t] \in Moderate /\ request[t].kind # "submit"
      BY <2>3, Kinds DEF LockSaves, Typed
    <3>2. request' = [request EXCEPT ![t] = Idle] /\ Idle.kind # "submit"
      BY <2>3 DEF LockSaves, Ends, Goes, Idle
    <3> QED BY <2>3, <3>1, <3>2, LockLate DEF LockSaves, Moderate
  <2>4. CASE SubmitMarksPresent(t)
    <3>1. request[t] \in Submit
      BY <2>4, Kinds DEF SubmitMarksPresent, Typed
    <3> DEFINE r == [request[t] EXCEPT !.heartbeat = FALSE]
    <3>2. r.kind = "submit" /\ r.student = request[t].student
      BY <2>4, <3>1 DEF SubmitMarksPresent, Submit
    <3>3. t \in Submitting(r.student)
      BY <2>4, <3>2 DEF SubmitMarksPresent, Submitting
    <3>4. /\ request' = [request EXCEPT ![t] = r]
          /\ accessLocked' \subseteq accessLocked /\ UNCHANGED lateAdmissions
      BY <2>4 DEF SubmitMarksPresent, Goes, MarkPresent, historyVars
    <3> HIDE DEF r
    <3> QED BY <1>3, <3>3, <3>4
  <2>5. CASE SubmitSaves(t)
    <3>1. request[t] \in Submit
      BY <2>5, Kinds DEF SubmitSaves, Typed
    <3>2. request[t].student \in Students /\ request[t].sawLocked \in BOOLEAN
      BY <3>1 DEF Submit
    <3>3. CASE ~MayRefer(request[t].question)
      BY <1>8, <2>5, <3>3 DEF SubmitSaves
    <3>4. CASE MayRefer(request[t].question)
      <4> DEFINE r == Records([id |-> inserted, student |-> request[t].student,
                               question |-> request[t].question, workspace |-> request[t].workspace,
                               failure |-> "none"])
      <4>1. request' = [request EXCEPT ![t] = r] /\ r.kind # "submit"
        BY <2>5, <3>4 DEF SubmitSaves, Goes, Records, Looks
      <4> HIDE DEF r
      <4>2. CASE request[t].kind = "disqualify"
        <5>1. LockAccess(request[t].student, request[t].sawLocked)
          BY <2>5, <3>4, <4>2 DEF SubmitSaves
        <5> QED BY <3>2, <4>1, <4>2, <5>1, LockLate
      <4>3. CASE request[t].kind = "submit"
        <5> DEFINE a == request[t].student
        <5>1. /\ lateAdmissions' = [lateAdmissions EXCEPT ![a] = IF a \in accessLocked THEN @ + 1 ELSE @]
              /\ UNCHANGED accessLocked /\ t \in Submitting(a)
          BY <2>5, <3>4, <4>3 DEF SubmitSaves, Submitting
        <5> QED BY <3>2, <4>1, <5>1, SaveLate
      <4> QED BY <2>5, <4>2, <4>3 DEF SubmitSaves
    <3> QED BY <3>3, <3>4
  <2>6. CASE UpdateSaves(t)
    <3>1. \E r : request' = [request EXCEPT ![t] = r] /\ r.kind # "submit"
      BY <2>6 DEF UpdateSaves, Goes, Ends, Idle, Looks
    <3> QED BY <1>3, <2>6, <3>1 DEF UpdateSaves, participantVars, historyVars
  <2>7. CASE FollowsUp(t)
    <3>1. PICK r \in Later : Goes(t, r)
      BY <2>7, FollowsUpLater DEF Typed
    <3>2. r.kind # "submit"
      BY LaterType
    <3>3. UNCHANGED <<accessLocked, lateAdmissions>>
      BY <2>7 DEF FollowsUp, SubmitRecords, SubmitIsSent, SubmitIsUnsent, SubmitIsTakenBack, DetectLooks,
         DetectChecks, DetectInserts, participantVars, historyVars
    <3> QED BY <1>3, <3>1, <3>2, <3>3 DEF Goes
  <2> QED BY <1>9, <2>1, <2>2, <2>3, <2>4, <2>5, <2>6, <2>7 DEF Continue, FollowsUp
<1>10. ASSUME NEW t \in Threads, Dies(t) PROVE LateAreFew'
  BY <1>8, <1>10 DEF Dies, participantVars, historyVars
<1>11. ASSUME NEW q \in Questions, AddQuestion(q) \/ DeleteQuestion(q) PROVE LateAreFew'
  BY <1>2, <1>11 DEF AddQuestion, DeleteQuestion, participantVars, historyVars
<1>12. ASSUME NEW r \in submissions, DeleteSubmission(r) PROVE LateAreFew'
  BY <1>2, <1>12 DEF DeleteSubmission, participantVars
<1>13. CASE DeleteRoom
  BY <1>13 DEF DeleteRoom, LateAreFew
<1> QED BY <1>1, <1>5, <1>6, <1>7, <1>9, <1>10, <1>11, <1>12, <1>13 DEF Next

\* However long a lock lasts, fewer ordinary submissions of the student get past it than
\* there are threads.  What carries the sentinel of a disqualification is not among them:
\* it gets past any number of times.
THEOREM LocksHold == Spec => []LockStopsOrdinarySubmissions
<1> SUFFICES ASSUME ExamRoomAssumption PROVE Spec => []LockStopsOrdinarySubmissions
  BY ExamRoomAssumption
<1>1. Init => Typed /\ LateAreFew
  BY TypeInit DEF Init, LateAreFew
<1>2. Typed /\ LateAreFew /\ [Next]_vars => Typed' /\ LateAreFew'
  BY TypeStep, LateStep
<1>3. Typed /\ LateAreFew => LockStopsOrdinarySubmissions
  <2> SUFFICES ASSUME Typed, NEW s \in accessLocked,
                      lateAdmissions[s] + Cardinality(Submitting(s)) < Cardinality(Threads)
               PROVE  lateAdmissions[s] < Cardinality(Threads)
    BY DEF LateAreFew, LockStopsOrdinarySubmissions
  <2>1. lateAdmissions[s] \in Nat
    BY DEF Typed, TypeOK
  <2>2. Cardinality(Submitting(s)) \in Nat /\ Cardinality(Threads) \in Nat
    BY SubmittingFinite
  <2> HIDE DEF Submitting
  <2> QED BY <2>1, <2>2
<1> QED BY <1>1, <1>2, <1>3, PTL DEF Spec

-----------------------------------------------------------------------------
(* Signals.                                                                 *)

HasRow(q) == q.kind \in {"update", "detect", "enqueue"}

\* The rows there are: saved, or held by a request.
Rows == {r \in Submission : r \in submissions
                            \/ \E t \in Threads : HasRow(request[t]) /\ request[t].row = r}

\* What is saved over a row differs from it in the verdict alone.
SameHandIn(r, o) ==
    r.id = o.id /\ r.student = o.student /\ r.question = o.question /\ r.workspace = o.workspace

\* Identities are given once.  Whoever holds a row holds one that is still there or that
\* was deleted.
RowsInv ==
    /\ IsFiniteSet(submissions)
    /\ \A r \in Rows : r.id < inserted
    /\ \A r, o \in Rows : r.id = o.id => SameHandIn(r, o)
    /\ \A t \in Threads :
          LET q == request[t]
          IN  /\ HasRow(q) => q.student = q.row.student /\ (q.row.id \in deleted \/ Saved(q.row))
              /\ q.kind = "detect" /\ q.step = "record" => q.pattern = "burst"

\* Request q will look for the pattern because of row r; a burst is looked for before reuse.
LooksFor(q, r, pattern) ==
    /\ q.kind = "detect" /\ q.row.id = r.id
    /\ q.pattern = pattern \/ (pattern = "reuse" /\ q.pattern = "burst")

Live == {r \in submissions : r.id \notin deleted}

\* The watched rows of s that nobody will look at for the pattern any more.
Seen(s, pattern) ==
    {r \in Live : /\ r.student = s /\ Watched(r, pattern)
                  /\ \A t \in Threads : ~LooksFor(request[t], r, pattern)}

\* What was there when r was looked at; of a storm, what has been looked at.
SeenWith(r, pattern) ==
    IF pattern = "storm" THEN Seen(r.student, "storm") ELSE {o \in Live : o.id <= r.id}

SignalledOnceSeen(s, pattern) ==
    \A r \in Seen(s, pattern) : Shows(r, pattern, SeenWith(r, pattern)) => signals[s][pattern] > 0

SeenSignals == faults = 0 => \A s \in Students, pattern \in Patterns : SignalledOnceSeen(s, pattern)

Inserting(s, pattern) ==
    {t \in Threads : /\ request[t].kind = "detect" /\ request[t].step = "insert"
                     /\ request[t].student = s /\ request[t].pattern = pattern}

\* The inserts still to come are of threads that saw no signal.
DoubledAtMost ==
    \A s \in Students, pattern \in Patterns :
        signals[s][pattern] + Cardinality(Inserting(s, pattern)) <= Cardinality(Threads)

SignalInv == Typed /\ RowsInv /\ SeenSignals /\ DoubledAtMost

LEMMA SignalInit == ASSUME ExamRoomAssumption, Init PROVE SignalInv
<1>1. Typed
  BY TypeInit
<1>2. RowsInv
  BY FS_EmptySet DEF Init, RowsInv, Rows, HasRow, Idle
<1>3. SeenSignals
  BY DEF Init, SeenSignals, SignalledOnceSeen, Seen, Live
<1>4. DoubledAtMost
  <2> SUFFICES ASSUME NEW s \in Students, NEW pattern \in Patterns
               PROVE  signals[s][pattern] + Cardinality(Inserting(s, pattern)) <= Cardinality(Threads)
    BY DEF DoubledAtMost
  <2>1. signals[s][pattern] = 0 /\ Inserting(s, pattern) = {}
    BY DEF Init, Inserting, Idle
  <2>2. Cardinality({}) = 0 /\ Cardinality(Threads) \in Nat
    BY FS_EmptySet, FS_CardinalityType DEF ExamRoomAssumption
  <2> QED BY <2>1, <2>2
<1> QED BY <1>1, <1>2, <1>3, <1>4 DEF SignalInv

\* More failures show the storm that fewer show.
LEMMA StormsGrow ==
    ASSUME ExamRoomAssumption, NEW A, NEW B, A \subseteq B, IsFiniteSet(B), NEW s, Storm(s, A)
    PROVE  Storm(s, B)
<1> DEFINE F(rows) == {x \in RowsOf(s, rows) : x.failure # "none"}
<1>1. IsFiniteSet(F(B)) /\ F(A) \subseteq F(B)
  BY FS_Subset DEF RowsOf
<1>2. Cardinality(F(A)) <= Cardinality(F(B)) /\ Cardinality(F(A)) \in Nat /\ Cardinality(F(B)) \in Nat
  BY <1>1, FS_Subset, FS_CardinalityType
<1>3. Cardinality(F(A)) >= StormThreshold
  BY DEF Storm
<1>4. Cardinality(F(B)) >= StormThreshold
  BY <1>2, <1>3 DEF ExamRoomAssumption
<1> QED BY <1>4 DEF Storm

\* A burst and reuse are shown by what was handed in, whatever the verdicts.
LEMMA ShowsAlike ==
    ASSUME ExamRoomAssumption, Typed, RowsInv, NEW B \in SUBSET Rows,
           NEW A, \A x \in A : \E y \in B : SameHandIn(x, y),
           NEW r, NEW o, SameHandIn(r, o), NEW pattern \in {"burst", "reuse"}, Shows(r, pattern, A)
    PROVE  Shows(o, pattern, B)
<1> DEFINE Ids(rows) == {x.id : x \in RowsOf(r.student, rows)}
<1>1. o.student = r.student /\ o.question = r.question /\ o.workspace = r.workspace
  BY DEF SameHandIn
<1>2. CASE pattern = "burst"
  <2>1. Ids(A) \subseteq Ids(B)
    BY DEF RowsOf, SameHandIn
  <2>2. \A i \in Ids(B) : i \in Nat /\ i <= inserted /\ inserted \in Nat
    BY DEF RowsOf, Rows, RowsInv, Submission, Typed, TypeOK
  <2>3. IsFiniteSet(Ids(B))
    <3>1. inserted \in Nat /\ Ids(B) \in SUBSET Nat /\ \A i \in Ids(B) : i <= inserted
      BY <2>2 DEF Typed, TypeOK
    <3> HIDE DEF Ids
    <3> QED BY <3>1, FS_BoundedSetOfNaturals
  <2> HIDE DEF Ids
  <2>4. Cardinality(Ids(A)) <= Cardinality(Ids(B)) /\ Cardinality(Ids(A)) \in Nat
        /\ Cardinality(Ids(B)) \in Nat
    BY <2>1, <2>3, FS_Subset, FS_CardinalityType
  <2>5. Cardinality(Ids(A)) >= BurstThreshold
    BY <1>2 DEF Shows, Burst, Ids
  <2>6. Cardinality(Ids(B)) >= BurstThreshold
    BY <2>4, <2>5 DEF ExamRoomAssumption
  <2> QED BY <1>1, <1>2, <2>6 DEF Shows, Burst, Ids
<1>3. CASE pattern = "reuse"
  <2>1. PICK x \in A : x.student = r.student /\ Reuses(r, x)
    BY <1>3 DEF Shows, RowsOf
  <2>2. PICK y \in B : SameHandIn(x, y)
    BY <2>1
  <2>3. y.student = o.student /\ Reuses(o, y)
    BY <1>1, <2>1, <2>2 DEF SameHandIn, Reuses
  <2> QED BY <1>3, <2>3 DEF Shows, RowsOf
<1> QED BY <1>2, <1>3

LEMMA InsertingFinite ==
    ASSUME ExamRoomAssumption, NEW s, NEW pattern
    PROVE  /\ IsFiniteSet(Inserting(s, pattern)) /\ Cardinality(Inserting(s, pattern)) \in Nat
           /\ Cardinality(Inserting(s, pattern)) <= Cardinality(Threads)
           /\ Cardinality(Threads) \in Nat
BY FS_Subset, FS_CardinalityType DEF Inserting, ExamRoomAssumption

LEMMA RowsThere ==
    ASSUME Typed
    PROVE  /\ \A x \in submissions : x \in Rows /\ SameHandIn(x, x)
           /\ \A t \in Threads : HasRow(request[t]) =>
                 request[t].row \in Rows /\ SameHandIn(request[t].row, request[t].row)
<1>1. ASSUME NEW t \in Threads, HasRow(request[t]) PROVE request[t].row \in Submission
  BY <1>1, Kinds DEF HasRow, Typed, Update, Detect, Enqueue
<1> QED BY <1>1 DEF Typed, TypeOK, Rows, SameHandIn

\* No row comes to be there but by a save over an old one, or as the newest.
NoneReturns == \A x \in Live' : x.id = inserted \/ \E y \in Live : SameHandIn(x, y)

\* Nothing more of s has been looked at for the pattern.
SeenNoMore(s, pattern) ==
    IF pattern = "storm" THEN Seen(s, pattern)' \subseteq Seen(s, pattern)
    ELSE \A x \in Seen(s, pattern)' : \E y \in Seen(s, pattern) : SameHandIn(x, y)

\* What is seen of one student and pattern shows no more than before.
LEMMA SeenKept ==
    ASSUME ExamRoomAssumption, SignalInv, faults = 0, NoneReturns, NEW s \in Students,
           NEW pattern \in Patterns, SeenNoMore(s, pattern), signals'[s][pattern] = signals[s][pattern]
    PROVE  SignalledOnceSeen(s, pattern)'
<1> SUFFICES ASSUME NEW r \in Seen(s, pattern)', Shows(r, pattern, SeenWith(r, pattern)')
             PROVE  signals[s][pattern] > 0
  BY DEF SignalledOnceSeen, Shows, RowsOf, Burst, Storm
<1>1. r.student = s
  BY DEF Seen
<1>2. CASE pattern = "storm"
  <2>1. r \in Seen(s, "storm") /\ SeenWith(r, pattern)' \subseteq Seen(s, "storm")
    BY <1>1, <1>2 DEF SeenNoMore, SeenWith
  <2>2. IsFiniteSet(Seen(s, "storm"))
    BY FS_Subset DEF SignalInv, RowsInv, Seen, Live
  <2>3. Storm(s, Seen(s, "storm"))
    BY <1>1, <1>2, <2>1, <2>2, StormsGrow DEF Shows
  <2> QED BY <1>1, <1>2, <2>1, <2>3 DEF SignalInv, SeenSignals, SignalledOnceSeen, Shows, SeenWith
<1>3. CASE pattern # "storm"
  <2>1. PICK o \in Seen(s, pattern) : SameHandIn(r, o)
    BY <1>3 DEF SeenNoMore
  <2>2. o \in Rows /\ o.id < inserted /\ r.id = o.id /\ o.id \in Nat /\ inserted \in Nat
    BY <2>1, RowsThere DEF Seen, Live, SignalInv, RowsInv, SameHandIn, Rows, Submission, Typed, TypeOK
  <2>3. \A x \in SeenWith(r, pattern)' : \E y \in SeenWith(o, pattern) : SameHandIn(x, y)
    <3> SUFFICES ASSUME NEW x \in Live', x.id <= r.id
                 PROVE  \E y \in SeenWith(o, pattern) : SameHandIn(x, y)
      BY <1>3 DEF SeenWith
    <3>1. x.id # inserted
      BY <2>2
    <3>2. PICK y \in Live : SameHandIn(x, y)
      BY <3>1 DEF NoneReturns
    <3>3. y.id <= o.id
      BY <2>2, <3>2 DEF SameHandIn
    <3> QED BY <1>3, <3>2, <3>3 DEF SeenWith
  <2>4. SeenWith(o, pattern) \in SUBSET Rows
    BY <1>3, RowsThere DEF SeenWith, Live, SignalInv
  <2>5. Shows(o, pattern, SeenWith(o, pattern))
    BY <1>3, <2>1, <2>3, <2>4, ShowsAlike DEF SignalInv, Patterns
  <2> QED BY <1>1, <2>1, <2>5 DEF SignalInv, SeenSignals, SignalledOnceSeen
<1> QED BY <1>2, <1>3

LEMMA InsertsKept ==
    ASSUME ExamRoomAssumption, SignalInv, NEW s \in Students, NEW pattern \in Patterns,
           signals'[s][pattern] = signals[s][pattern],
           Inserting(s, pattern)' \subseteq Inserting(s, pattern)
    PROVE  signals'[s][pattern] + Cardinality(Inserting(s, pattern)') <= Cardinality(Threads)
<1>1. /\ Cardinality(Inserting(s, pattern)') <= Cardinality(Inserting(s, pattern))
      /\ Cardinality(Inserting(s, pattern)') \in Nat
      /\ Cardinality(Inserting(s, pattern)) \in Nat /\ Cardinality(Threads) \in Nat
  BY InsertingFinite, FS_Subset, FS_CardinalityType
<1>2. signals[s][pattern] \in Nat
  BY DEF SignalInv, Typed, TypeOK
<1>3. signals[s][pattern] + Cardinality(Inserting(s, pattern)) <= Cardinality(Threads)
  BY DEF SignalInv, DoubledAtMost
<1> HIDE DEF Inserting
<1>4. \A a, b, c, n \in Nat : a + b <= n /\ c <= b => a + c <= n
  OBVIOUS
<1> QED BY <1>1, <1>2, <1>3, <1>4

\* Every row there is after a step is one there was, but for its verdict, or the newest.
LEMMA RowsKept ==
    ASSUME Typed, RowsInv, Typed', IsFiniteSet(submissions'), inserted <= inserted',
           deleted \subseteq deleted',
           NEW t \in Threads, NEW q, request' = [request EXCEPT ![t] = q],
           \A x \in submissions' : \/ \E y \in Rows : SameHandIn(x, y)
                                   \/ x = q.row /\ x.id = inserted /\ inserted < inserted',
           HasRow(q) => /\ \/ \E y \in Rows : SameHandIn(q.row, y)
                           \/ q.row.id = inserted /\ inserted < inserted'
                        /\ q.student = q.row.student
                        /\ q.row.id \in deleted' \/ \E o \in submissions' : o.id = q.row.id,
           q.kind = "detect" /\ q.step = "record" => q.pattern = "burst",
           \A x \in submissions : x.id \in deleted' \/ \E o \in submissions' : o.id = x.id
    PROVE  RowsInv'
<1>1. \A u \in Threads : request'[u] = IF u = t THEN q ELSE request[u]
  BY DEF Typed
<1>2. ASSUME NEW x \in Rows'
      PROVE  \/ \E y \in Rows : SameHandIn(x, y)
             \/ x = q.row /\ x.id = inserted /\ inserted < inserted'
  <2>1. CASE x \in submissions'
    BY <2>1
  <2>2. ASSUME NEW u \in Threads, HasRow(request'[u]), request'[u].row = x
        PROVE  \/ \E y \in Rows : SameHandIn(x, y)
               \/ x = q.row /\ x.id = inserted /\ inserted < inserted'
    <3>1. CASE u = t
      BY <1>1, <2>2, <3>1
    <3>2. CASE u # t
      <4>1. HasRow(request[u]) /\ request[u].row = x /\ x \in Submission
        BY <1>1, <2>2, <3>2 DEF Rows
      <4> QED BY <4>1 DEF Rows, SameHandIn
    <3> QED BY <3>1, <3>2
  <2> QED BY <2>1, <2>2 DEF Rows, HasRow
<1>3. \A y \in Rows : y.id < inserted /\ y.id \in Nat
  BY DEF RowsInv, Rows, Submission
<1>4. inserted \in Nat /\ inserted' \in Nat
  BY DEF Typed, TypeOK
<1>5. \A x \in Rows' : x.id < inserted'
  <2> SUFFICES ASSUME NEW x \in Rows' PROVE x.id < inserted'
    OBVIOUS
  <2>1. CASE \E y \in Rows : SameHandIn(x, y)
    <3>1. PICK y \in Rows : x.id = y.id
      BY <2>1 DEF SameHandIn
    <3>2. \A k, m, n \in Nat : k < m /\ m <= n => k < n
      OBVIOUS
    <3> QED BY <1>3, <1>4, <3>1, <3>2
  <2> QED BY <1>2, <2>1
<1>6. \A x, y \in Rows' : x.id = y.id => SameHandIn(x, y)
  <2> SUFFICES ASSUME NEW x \in Rows', NEW y \in Rows', x.id = y.id PROVE SameHandIn(x, y)
    OBVIOUS
  <2>1. CASE (\E a \in Rows : SameHandIn(x, a)) /\ (\E b \in Rows : SameHandIn(y, b))
    <3>1. PICK a \in Rows : SameHandIn(x, a)
      BY <2>1
    <3>2. PICK b \in Rows : SameHandIn(y, b)
      BY <2>1
    <3>3. a.id = b.id
      BY <3>1, <3>2 DEF SameHandIn
    <3>4. SameHandIn(a, b)
      BY <3>3 DEF RowsInv
    <3> QED BY <3>1, <3>2, <3>4 DEF SameHandIn
  <2>2. \A z \in Rows' : (\E a \in Rows : SameHandIn(z, a)) => z.id # inserted
    BY <1>3, <1>4 DEF SameHandIn
  <2>3. CASE ~((\E a \in Rows : SameHandIn(x, a)) /\ (\E b \in Rows : SameHandIn(y, b)))
    BY <1>2, <2>2, <2>3 DEF SameHandIn
  <2> QED BY <2>1, <2>3
<1>7. ASSUME NEW u \in Threads
      PROVE  /\ HasRow(request'[u]) =>
                   /\ request'[u].student = request'[u].row.student
                   /\ request'[u].row.id \in deleted' \/ \E o \in submissions' : o.id = request'[u].row.id
             /\ request'[u].kind = "detect" /\ request'[u].step = "record" => request'[u].pattern = "burst"
  <2>1. CASE u = t
    BY <1>1, <2>1
  <2>2. CASE u # t
    BY <1>1, <2>2 DEF RowsInv, Saved
  <2> QED BY <2>1, <2>2
<1> QED BY <1>5, <1>6, <1>7 DEF RowsInv, Saved, HasRow

LEMMA FewerReturn ==
    ASSUME submissions' \subseteq submissions, deleted \subseteq deleted'
    PROVE  NoneReturns
BY DEF NoneReturns, Live, SameHandIn

LEMMA LessSeen ==
    ASSUME NEW s, NEW pattern, Seen(s, pattern)' \subseteq Seen(s, pattern)
    PROVE  SeenNoMore(s, pattern)
BY DEF SeenNoMore, SameHandIn

\* A thread goes on and saves nothing: who looked for a pattern because of a watched row
\* still does, or the row is gone.
LEMMA SeenLess ==
    ASSUME Typed, NEW t \in Threads, NEW q, request' = [request EXCEPT ![t] = q],
           submissions' \subseteq submissions, deleted \subseteq deleted', NEW s, NEW pattern,
           \A x \in submissions' : x.student = s /\ Watched(x, pattern) /\ LooksFor(request[t], x, pattern) =>
                                      LooksFor(q, x, pattern)
    PROVE  Seen(s, pattern)' \subseteq Seen(s, pattern)
<1>1. \A u \in Threads : request'[u] = IF u = t THEN q ELSE request[u]
  BY DEF Typed
<1>2. Live' \subseteq Live
  BY DEF Live
<1> SUFFICES ASSUME NEW x \in Seen(s, pattern)' PROVE x \in Seen(s, pattern)
  OBVIOUS
<1>3. /\ x \in Live /\ x \in submissions' /\ x.student = s /\ Watched(x, pattern)
      /\ \A u \in Threads : ~LooksFor(request'[u], x, pattern)
  BY <1>2 DEF Seen, Live, LooksFor
<1>4. \A u \in Threads : ~LooksFor(request[u], x, pattern)
  BY <1>1, <1>3
<1> QED BY <1>3, <1>4 DEF Seen

\* A thread goes on to what does not insert.
LEMMA InsertingLess ==
    ASSUME Typed, NEW t \in Threads, NEW q, request' = [request EXCEPT ![t] = q],
           NEW s, NEW pattern,
           q.kind # "detect" \/ q.step # "insert" \/ q.student # s \/ q.pattern # pattern
    PROVE  Inserting(s, pattern)' \subseteq Inserting(s, pattern) \ {t}
<1>1. \A u \in Threads : request'[u] = IF u = t THEN q ELSE request[u]
  BY DEF Typed
<1> QED BY <1>1 DEF Inserting

\* Nothing is signalled, and nothing more is to be seen or inserted.
LEMMA NothingSeen ==
    ASSUME ExamRoomAssumption, SignalInv, Typed', RowsInv', UNCHANGED signals, NoneReturns,
           faults' = 0 => faults = 0,
           \A s \in Students, pattern \in Patterns :
              /\ faults' = 0 => SeenNoMore(s, pattern)
              /\ Inserting(s, pattern)' \subseteq Inserting(s, pattern)
    PROVE  SignalInv'
<1>1. SeenSignals'
  BY SeenKept DEF SeenSignals
<1>2. DoubledAtMost'
  BY InsertsKept DEF DoubledAtMost
<1> QED BY <1>1, <1>2 DEF SignalInv

\* A thread goes on, saves nothing and inserts nothing.  Rows may be deleted; who looked
\* for a pattern because of a watched row still does.
LEMMA QuietStep ==
    ASSUME ExamRoomAssumption, SignalInv, Typed', UNCHANGED <<inserted, signals>>,
           submissions' \subseteq submissions, deleted \subseteq deleted',
           \A x \in submissions \ submissions' : x.id \in deleted',
           NEW t \in Threads, NEW q, request' = [request EXCEPT ![t] = q],
           HasRow(q) => /\ q.student = q.row.student
                        /\ \E y \in Rows : SameHandIn(q.row, y)
                        /\ q.row.id \in deleted \/ Saved(q.row),
           q.kind = "detect" => q.step \notin {"record", "insert"},
           faults' = 0 =>
              /\ faults = 0
              /\ \A pattern \in Patterns : \A x \in submissions' :
                    Watched(x, pattern) /\ LooksFor(request[t], x, pattern) => LooksFor(q, x, pattern)
    PROVE  SignalInv'
<1>1. RowsInv'
  <2>1. IsFiniteSet(submissions')
    BY FS_Subset DEF SignalInv, RowsInv
  <2>2. \A x \in submissions' : \E y \in Rows : SameHandIn(x, y)
    BY RowsThere DEF SignalInv
  <2>3. \A x \in submissions : x.id \in deleted' \/ \E o \in submissions' : o.id = x.id
    OBVIOUS
  <2>4. HasRow(q) => q.row.id \in deleted' \/ \E o \in submissions' : o.id = q.row.id
    BY <2>3 DEF Saved
  <2>5. inserted <= inserted'
    BY DEF SignalInv, Typed, TypeOK
  <2>6. q.kind = "detect" /\ q.step = "record" => q.pattern = "burst"
    OBVIOUS
  <2> QED BY <2>1, <2>2, <2>3, <2>4, <2>5, <2>6, RowsKept DEF SignalInv
<1>2. ASSUME NEW s \in Students, NEW pattern \in Patterns
      PROVE  /\ faults' = 0 => SeenNoMore(s, pattern)
             /\ Inserting(s, pattern)' \subseteq Inserting(s, pattern)
  <2>1. faults' = 0 => Seen(s, pattern)' \subseteq Seen(s, pattern)
    BY SeenLess DEF SignalInv
  <2>2. Inserting(s, pattern)' \subseteq Inserting(s, pattern)
    BY InsertingLess DEF SignalInv
  <2> QED BY <2>1, <2>2, LessSeen
<1>3. NoneReturns
  BY FewerReturn
<1> QED BY <1>1, <1>2, <1>3, NothingSeen

\* Steps of a thread that holds no row before or after.
LEMMA RowlessStep ==
    ASSUME ExamRoomAssumption, SignalInv, Typed',
           UNCHANGED <<submissions, inserted, deleted, signals, faults>>,
           NEW t \in Threads, NEW q, request' = [request EXCEPT ![t] = q],
           ~HasRow(request[t]), ~HasRow(q)
    PROVE  SignalInv'
<1>1. q.kind # "detect" /\ request[t].kind # "detect"
  BY DEF HasRow
<1>2. \A pattern : \A x : ~LooksFor(request[t], x, pattern)
  BY <1>1 DEF LooksFor
<1> QED BY <1>1, <1>2, QuietStep

LEMMA UpdateBeginsSignals ==
    ASSUME ExamRoomAssumption, SignalInv, Typed', NEW t \in Threads,
           NEW r \in submissions, NEW failure \in {"none", "reported"}, UpdateBegins(t, r, failure)
    PROVE  SignalInv'
<1> DEFINE u == [kind |-> "update", student |-> r.student, row |-> [r EXCEPT !.failure = failure]]
<1>1. u.kind = "update" /\ u.student = u.row.student /\ SameHandIn(u.row, r) /\ r \in Rows
  BY RowsThere DEF SignalInv, Typed, TypeOK, Submission, SameHandIn
<1>2. Saved(u.row)
  BY <1>1 DEF Saved, SameHandIn
<1>3. Begins(t, u)
  BY DEF UpdateBegins
<1> HIDE DEF u
<1>4. UNCHANGED <<submissions, inserted, deleted, signals, faults>>
  BY DEF UpdateBegins, historyVars, incidentVars
<1>5. request[t].kind # "detect" /\ request' = [request EXCEPT ![t] = u]
  BY <1>3 DEF Begins, Idle
<1>6. \A pattern : \A x : ~LooksFor(request[t], x, pattern)
  BY <1>5 DEF LooksFor
<1> QED BY <1>1, <1>2, <1>4, <1>5, <1>6, QuietStep

\* A create request saves its row, as the newest, and will look for a burst and for reuse
\* if the row has a question; a new row has not failed.
LEMMA SubmitSavesSignals ==
    ASSUME ExamRoomAssumption, SignalInv, Typed', NEW t \in Threads, SubmitSaves(t)
    PROVE  SignalInv'
<1> DEFINE n == [id |-> inserted, student |-> request[t].student, question |-> request[t].question,
                 workspace |-> request[t].workspace, failure |-> "none"]
<1>1. request[t].kind \in {"submit", "disqualify"}
  BY DEF SubmitSaves
<1>2. UNCHANGED <<signals, deleted, faults>>
  BY DEF SubmitSaves, incidentVars
<1>3. \A pattern : \A x : ~LooksFor(request[t], x, pattern)
  BY <1>1 DEF LooksFor
<1>4. CASE ~MayRefer(request[t].question)
  <2>1. UNCHANGED <<submissions, inserted>> /\ request' = [request EXCEPT ![t] = Idle]
    BY <1>4 DEF SubmitSaves, Ends, Goes
  <2>2. ~HasRow(Idle) /\ Idle.kind # "detect"
    BY DEF HasRow, Idle
  <2> QED BY <1>2, <1>3, <2>1, <2>2, QuietStep
<1>5. CASE MayRefer(request[t].question)
  <2> DEFINE q == Records(n)
  <2>1. /\ q.kind = "detect" /\ q.row = n /\ q.student = n.student /\ q.pattern = "burst"
        /\ q.step = "record"
    BY DEF Records, Looks
  <2>2. /\ submissions' = submissions \cup {n} /\ inserted' = inserted + 1
        /\ request' = [request EXCEPT ![t] = q]
    BY <1>5 DEF SubmitSaves, Goes
  <2>3. n.id = inserted /\ n.failure = "none"
    OBVIOUS
  <2> HIDE DEF q, n
  <2>4. inserted < inserted' /\ inserted <= inserted'
    BY <2>2 DEF SignalInv, Typed, TypeOK
  <2>5. RowsInv'
    <3>1. IsFiniteSet(submissions')
      <4>1. IsFiniteSet(submissions)
        BY DEF SignalInv, RowsInv
      <4>2. IsFiniteSet(submissions \cup {n})
        BY <4>1, FS_AddElement
      <4> QED BY <2>2, <4>2
    <3>2. \A x \in submissions' : (\E y \in Rows : SameHandIn(x, y)) \/ (x = q.row /\ x.id = inserted)
      BY <2>1, <2>2, <2>3, RowsThere DEF SignalInv
    <3>3. \E o \in submissions' : o.id = q.row.id
      BY <2>1, <2>2
    <3>4. \A x \in submissions : \E o \in submissions' : o.id = x.id
      BY <2>2
    <3> QED BY <1>2, <2>1, <2>2, <2>3, <2>4, <3>1, <3>2, <3>3, <3>4, RowsKept DEF SignalInv
  <2>6. NoneReturns
    BY <1>2, <2>2, <2>3 DEF NoneReturns, Live, SameHandIn
  <2>7. \A u \in Threads : request'[u] = IF u = t THEN q ELSE request[u]
    BY <2>2 DEF SignalInv, Typed
  <2>8. ASSUME NEW s \in Students, NEW pattern \in Patterns
        PROVE  SeenNoMore(s, pattern) /\ Inserting(s, pattern)' \subseteq Inserting(s, pattern)
    <3>1. n \notin Seen(s, pattern)'
      <4>1. CASE pattern = "storm"
        BY <2>3, <4>1 DEF Seen, Watched
      <4>2. CASE pattern # "storm"
        <5>1. LooksFor(request'[t], n, pattern)
          BY <2>1, <2>7, <4>2 DEF LooksFor, Patterns
        <5> QED BY <5>1 DEF Seen, LooksFor
      <4> QED BY <4>1, <4>2
    <3>2. Seen(s, pattern)' \subseteq Seen(s, pattern)
      <4> SUFFICES ASSUME NEW x \in Seen(s, pattern)' PROVE x \in Seen(s, pattern)
        OBVIOUS
      <4>1. /\ x \in Live /\ x.student = s /\ Watched(x, pattern)
            /\ \A u \in Threads : ~LooksFor(request'[u], x, pattern)
        BY <1>2, <2>2, <3>1 DEF Seen, Live, LooksFor
      <4>2. \A u \in Threads : ~LooksFor(request[u], x, pattern)
        BY <1>3, <2>7, <4>1
      <4> QED BY <4>1, <4>2 DEF Seen
    <3>3. Inserting(s, pattern)' \subseteq Inserting(s, pattern)
      BY <2>1, <2>2, InsertingLess DEF SignalInv
    <3> QED BY <3>2, <3>3, LessSeen
  <2> QED BY <1>2, <2>5, <2>6, <2>8, NothingSeen
<1> QED BY <1>4, <1>5

\* An update request saves its row, over the one that is there or again.
LEMMA UpdateSavesSignals ==
    ASSUME ExamRoomAssumption, SignalInv, Typed', NEW t \in Threads, UpdateSaves(t)
    PROVE  SignalInv'
<1> DEFINE n == request[t].row
           q == request'[t]
           Fails == MayRefer(n.question) /\ n.failure # "none"
<1>1. request[t].kind = "update" /\ n \in Rows /\ (n.id \in deleted \/ Saved(n))
  BY RowsThere DEF UpdateSaves, SignalInv, RowsInv, HasRow
<1>2. UNCHANGED <<signals, deleted, faults, inserted>> /\ inserted <= inserted'
  BY DEF UpdateSaves, historyVars, incidentVars, SignalInv, Typed, TypeOK
<1>3. q = IF Fails THEN Looks(n, "storm") ELSE Idle
  BY DEF UpdateSaves, Goes, Ends, SignalInv, Typed
<1>4. request' = [request EXCEPT ![t] = q]
  BY <1>3 DEF UpdateSaves, Goes, Ends
<1>5. /\ Fails => /\ q.kind = "detect" /\ q.row = n /\ q.student = n.student
                  /\ q.pattern = "storm" /\ q.step = "look"
      /\ ~Fails => q.kind = "idle"
  <2>1. LET l == Looks(n, "storm")
        IN  l.kind = "detect" /\ l.row = n /\ l.student = n.student /\ l.pattern = "storm" /\ l.step = "look"
    BY DEF Looks
  <2>2. Idle.kind = "idle"
    BY DEF Idle
  <2> HIDE DEF n, q, Fails
  <2> QED BY <1>3, <2>1, <2>2
<1>6. submissions' = IF MayRefer(n.question) THEN {o \in submissions : o.id # n.id} \cup {n} ELSE submissions
  BY DEF UpdateSaves
<1> HIDE DEF n, q
<1>7. \A o \in submissions : o.id = n.id => SameHandIn(n, o)
  BY <1>1, RowsThere DEF SignalInv, RowsInv
<1>8. RowsInv'
  <2>1. IsFiniteSet(submissions')
    <3> DEFINE K == {o \in submissions : o.id # n.id}
    <3>1. IsFiniteSet(K) /\ IsFiniteSet(submissions)
      BY FS_Subset DEF SignalInv, RowsInv
    <3>2. submissions' = K \cup {n} \/ submissions' = submissions
      BY <1>6
    <3> HIDE DEF K
    <3> QED BY <3>1, <3>2, FS_AddElement
  <2>2. \A x \in submissions' : \E y \in Rows : SameHandIn(x, y)
    BY <1>1, <1>6, RowsThere DEF SignalInv, SameHandIn
  <2>3. \A x \in submissions : \E o \in submissions' : o.id = x.id
    BY <1>6
  <2>4. HasRow(q) => /\ (\E y \in Rows : SameHandIn(q.row, y)) /\ q.student = q.row.student
                     /\ \E o \in submissions' : o.id = q.row.id
    BY <1>1, <1>5, <1>6 DEF HasRow, SameHandIn
  <2>5. q.kind = "detect" => q.step # "record"
    BY <1>5
  <2> QED BY <1>2, <1>4, <2>1, <2>2, <2>3, <2>4, <2>5, RowsKept DEF SignalInv
<1>9. NoneReturns
  <2> SUFFICES ASSUME NEW x \in Live' PROVE \E y \in Live : SameHandIn(x, y)
    BY DEF NoneReturns
  <2>1. CASE x = n
    BY <1>1, <1>2, <1>7, <2>1 DEF Live, Saved
  <2>2. CASE x # n
    BY <1>2, <1>6, <2>2 DEF Live, SameHandIn
  <2> QED BY <2>1, <2>2
<1>10. \A u \in Threads : request'[u] = IF u = t THEN q ELSE request[u]
  BY <1>4 DEF SignalInv, Typed
<1>11. ASSUME NEW s \in Students, NEW pattern \in Patterns, NEW x \in Seen(s, pattern)'
       PROVE  \/ x \in Seen(s, pattern)
              \/ pattern # "storm" /\ \E o \in Seen(s, pattern) : SameHandIn(x, o)
  <2>1. /\ x \in submissions' /\ x.id \notin deleted /\ x.student = s /\ Watched(x, pattern)
        /\ \A u \in Threads : ~LooksFor(request'[u], x, pattern)
    BY <1>2 DEF Seen, Live, LooksFor
  <2>2. ASSUME NEW o, o.id = x.id PROVE \A u \in Threads : ~LooksFor(request[u], o, pattern)
    <3>1. ~LooksFor(request[t], o, pattern)
      BY <1>1 DEF LooksFor
    <3>2. \A u \in Threads : u # t => ~LooksFor(request[u], o, pattern)
      BY <1>10, <2>1, <2>2 DEF LooksFor
    <3> QED BY <3>1, <3>2
  <2>3. CASE x \in submissions
    BY <2>1, <2>2, <2>3 DEF Seen, Live
  <2>4. CASE x \notin submissions
    <3>1. x = n /\ MayRefer(n.question)
      BY <1>6, <2>1, <2>4
    <3>2. pattern # "storm"
      <4> SUFFICES ASSUME pattern = "storm" PROVE FALSE
        OBVIOUS
      <4>1. n.failure = "reported"
        BY <2>1, <3>1 DEF Watched
      <4>2. LooksFor(request'[t], n, pattern)
        BY <1>5, <1>10, <3>1, <4>1 DEF LooksFor
      <4> QED BY <2>1, <3>1, <4>2
    <3>3. PICK o \in submissions : o.id = n.id
      BY <1>1, <2>1, <3>1 DEF Saved
    <3>4. SameHandIn(x, o)
      BY <1>7, <3>1, <3>3
    <3>5. Watched(o, pattern)
      BY <2>1, <3>2, <3>4 DEF Watched, SameHandIn
    <3>6. o \in Seen(s, pattern)
      BY <2>1, <2>2, <3>1, <3>3, <3>4, <3>5 DEF Seen, Live, SameHandIn
    <3> QED BY <3>2, <3>4, <3>6
  <2> QED BY <2>3, <2>4
<1>12. ASSUME NEW s \in Students, NEW pattern \in Patterns
       PROVE  SeenNoMore(s, pattern) /\ Inserting(s, pattern)' \subseteq Inserting(s, pattern)
  <2>1. SeenNoMore(s, pattern)
    BY <1>11 DEF SeenNoMore, SameHandIn
  <2>2. q.kind # "detect" \/ q.step # "insert"
    BY <1>5
  <2>3. Inserting(s, pattern)' \subseteq Inserting(s, pattern)
    BY <1>4, <2>2, InsertingLess DEF SignalInv
  <2> QED BY <2>1, <2>3
<1> QED BY <1>2, <1>8, <1>9, <1>12, NothingSeen

\* The row of a create request that could not be sent stays, with another status.
LEMMA UnsentSignals ==
    ASSUME ExamRoomAssumption, SignalInv, Typed', NEW t \in Threads, SubmitIsUnsent(t)
    PROVE  SignalInv'
<1> DEFINE Unsent(o) == IF o.id = request[t].row.id THEN [o EXCEPT !.failure = "unsent"] ELSE o
<1>1. /\ submissions' = {Unsent(o) : o \in submissions}
      /\ request[t].kind = "enqueue" /\ request' = [request EXCEPT ![t] = Idle]
      /\ UNCHANGED <<signals, deleted, faults, inserted>> /\ inserted <= inserted'
  BY DEF SubmitIsUnsent, Ends, Goes, historyVars, incidentVars, SignalInv, Typed, TypeOK
<1>2. ASSUME NEW o \in submissions
      PROVE  /\ SameHandIn(Unsent(o), o) /\ SameHandIn(o, Unsent(o))
             /\ Unsent(o).failure = "reported" => Unsent(o) = o
  BY DEF SignalInv, Typed, TypeOK, Submission, SameHandIn
<1>3. IsFiniteSet(submissions')
  <2> DEFINE f == [o \in submissions |-> Unsent(o)]
  <2>1. f \in Surjection(submissions, submissions')
    BY <1>1 DEF Surjection
  <2>2. IsFiniteSet(submissions)
    BY DEF SignalInv, RowsInv
  <2> HIDE DEF f
  <2> QED BY <2>1, <2>2, FS_Surjection
<1> HIDE DEF Unsent
<1>4. \A x \in submissions' : \E o \in submissions : SameHandIn(x, o) /\ (x.failure = "reported" => x = o)
  BY <1>1, <1>2
<1>5. RowsInv'
  <2>1. \A x \in submissions' : \E y \in Rows : SameHandIn(x, y)
    BY <1>4, RowsThere DEF SignalInv
  <2>2. \A x \in submissions : \E o \in submissions' : o.id = x.id
    BY <1>1, <1>2 DEF SameHandIn
  <2>3. ~HasRow(Idle) /\ Idle.kind # "detect"
    BY DEF HasRow, Idle
  <2> QED BY <1>1, <1>3, <2>1, <2>2, <2>3, RowsKept DEF SignalInv
<1>6. NoneReturns
  BY <1>1, <1>4 DEF NoneReturns, Live, SameHandIn
<1>7. \A u \in Threads : request'[u] = IF u = t THEN Idle ELSE request[u]
  BY <1>1 DEF SignalInv, Typed
<1>8. ASSUME NEW s \in Students, NEW pattern \in Patterns
      PROVE  SeenNoMore(s, pattern)
  <2> SUFFICES ASSUME NEW x \in Seen(s, pattern)'
               PROVE  \E o \in Seen(s, pattern) : SameHandIn(x, o) /\ (pattern = "storm" => x = o)
    BY DEF SeenNoMore
  <2>1. /\ x \in submissions' /\ x.id \notin deleted /\ x.student = s /\ Watched(x, pattern)
        /\ \A u \in Threads : ~LooksFor(request'[u], x, pattern)
    BY <1>1 DEF Seen, Live, LooksFor
  <2>2. PICK o \in submissions : SameHandIn(x, o) /\ (x.failure = "reported" => x = o)
    BY <1>4, <2>1
  <2>3. \A u \in Threads : ~LooksFor(request[u], o, pattern)
    BY <1>1, <1>7, <2>1, <2>2 DEF LooksFor, SameHandIn
  <2>4. Watched(o, pattern) /\ (pattern = "storm" => x = o)
    BY <2>1, <2>2 DEF Watched, SameHandIn
  <2>5. o \in Seen(s, pattern)
    BY <2>1, <2>2, <2>3, <2>4 DEF Seen, Live, SameHandIn
  <2> QED BY <2>2, <2>4, <2>5
<1>9. ASSUME NEW s \in Students, NEW pattern \in Patterns
      PROVE  Inserting(s, pattern)' \subseteq Inserting(s, pattern)
  <2>1. Idle.kind # "detect"
    BY DEF Idle
  <2> QED BY <1>1, <2>1, InsertingLess DEF SignalInv
<1> QED BY <1>1, <1>5, <1>6, <1>8, <1>9, NothingSeen

\* A create request ends sent, or takes its row back.
LEMMA SentSignals ==
    ASSUME ExamRoomAssumption, SignalInv, Typed', NEW t \in Threads,
           SubmitIsSent(t) \/ SubmitIsTakenBack(t)
    PROVE  SignalInv'
<1>1. /\ request[t].kind = "enqueue" /\ request' = [request EXCEPT ![t] = Idle]
      /\ UNCHANGED <<inserted, signals, faults>>
  BY DEF SubmitIsSent, SubmitIsTakenBack, Ends, Goes, historyVars, incidentVars
<1>2. /\ submissions' \subseteq submissions /\ deleted \subseteq deleted'
      /\ \A x \in submissions \ submissions' : x.id \in deleted'
  BY DEF SubmitIsSent, SubmitIsTakenBack, historyVars
<1>3. ~HasRow(Idle) /\ Idle.kind # "detect"
  BY DEF HasRow, Idle
<1>4. \A pattern : \A x : ~LooksFor(request[t], x, pattern)
  BY <1>1 DEF LooksFor
<1> QED BY <1>1, <1>2, <1>3, <1>4, QuietStep

\* A detection keeps its row until the submission is sent, or ends.
LEMMA DetectRows ==
    ASSUME ExamRoomAssumption, SignalInv, Typed', UNCHANGED <<submissions, deleted, inserted>>,
           NEW t \in Threads, NEW q, request' = [request EXCEPT ![t] = q], request[t].kind = "detect",
           HasRow(q) => q.row = request[t].row /\ q.student = request[t].student,
           q.kind = "detect" => q.step # "record"
    PROVE  RowsInv'
<1>1. /\ HasRow(request[t])
      /\ request[t].student = request[t].row.student
      /\ request[t].row.id \in deleted \/ Saved(request[t].row)
      /\ request[t].row \in Rows /\ SameHandIn(request[t].row, request[t].row)
  BY RowsThere DEF SignalInv, RowsInv, HasRow
<1>2. inserted <= inserted'
  BY DEF SignalInv, Typed, TypeOK
<1>3. HasRow(q) => /\ (\E y \in Rows : SameHandIn(q.row, y)) /\ q.student = q.row.student
                   /\ q.row.id \in deleted' \/ \E o \in submissions' : o.id = q.row.id
  BY <1>1 DEF Saved
<1>4. IsFiniteSet(submissions') /\ (\A x \in submissions' : \E y \in Rows : SameHandIn(x, y))
      /\ \A x \in submissions : \E o \in submissions' : o.id = x.id
  BY RowsThere DEF SignalInv, RowsInv
<1> QED BY <1>2, <1>3, <1>4, RowsKept DEF SignalInv

\* The row a detection has looked at is seen for its pattern alone, and only for its student.
LEMMA NextSeen ==
    ASSUME ExamRoomAssumption, SignalInv, UNCHANGED <<submissions, deleted>>,
           NEW t \in Threads, request[t].kind = "detect", GoesToNextPattern(t, request[t]),
           NEW s \in Students, NEW pattern \in Patterns
    PROVE  /\ pattern # request[t].pattern \/ s # request[t].student =>
                 Seen(s, pattern)' \subseteq Seen(s, pattern)
           /\ \A x \in Seen(s, pattern)' : x.id # request[t].row.id => x \in Seen(s, pattern)
<1> DEFINE n == request[t].row
           p == request[t].pattern
           q == request'[t]
<1>1. p \in Patterns
  BY Kinds DEF SignalInv, Typed, Detect
<1>2. request' = [request EXCEPT ![t] = q] /\ \A u \in Threads : u # t => request'[u] = request[u]
  BY <1>1 DEF GoesToNextPattern, Goes, Ends, SignalInv, Typed, Patterns
<1>3. p = "burst" => q.kind = "detect" /\ q.row = n /\ q.pattern = "reuse"
  BY DEF GoesToNextPattern, Goes, Looks, SignalInv, Typed
<1>4. request[t].student = n.student /\ n \in Rows
  BY RowsThere DEF SignalInv, RowsInv, HasRow
<1>5. ASSUME NEW x \in submissions, LooksFor(request[t], x, pattern), ~LooksFor(q, x, pattern)
      PROVE  pattern = p /\ x.student = request[t].student
  <2>1. x.id = n.id
    BY <1>5 DEF LooksFor
  <2>2. pattern = p
    <3> HIDE DEF n, q
    <3> QED BY <1>3, <1>5, <2>1 DEF LooksFor
  <2>3. x.student = n.student
    BY <1>4, <2>1, RowsThere DEF SignalInv, RowsInv, SameHandIn
  <2> QED BY <1>4, <2>2, <2>3
<1> HIDE DEF n, p, q
<1>6. \A x \in Seen(s, pattern)' : x.id # n.id => x \in Seen(s, pattern)
  <2> SUFFICES ASSUME NEW x \in Seen(s, pattern)', x.id # n.id PROVE x \in Seen(s, pattern)
    OBVIOUS
  <2>1. ~LooksFor(request[t], x, pattern)
    BY DEF LooksFor, n
  <2>2. x \in Live /\ x.student = s /\ Watched(x, pattern)
        /\ \A u \in Threads : ~LooksFor(request'[u], x, pattern)
    BY DEF Seen, Live, LooksFor
  <2>3. \A u \in Threads : ~LooksFor(request[u], x, pattern)
    BY <1>2, <2>1, <2>2
  <2> QED BY <2>2, <2>3 DEF Seen
<1>7. ASSUME pattern # p \/ s # request[t].student
      PROVE  Seen(s, pattern)' \subseteq Seen(s, pattern)
  <2>1. \A x \in submissions' : x.student = s /\ Watched(x, pattern) /\ LooksFor(request[t], x, pattern) =>
                                   LooksFor(q, x, pattern)
    BY <1>5, <1>7
  <2> QED BY <1>2, <2>1, SeenLess DEF SignalInv
<1> QED BY <1>6, <1>7 DEF n, p

\* What a detection that goes to its next pattern leaves to be seen: the pattern was
\* signalled, or the rows do not show it.
LEMMA NextPattern ==
    ASSUME ExamRoomAssumption, SignalInv, Typed', UNCHANGED <<submissions, deleted>>,
           NEW t \in Threads, request[t].kind = "detect", GoesToNextPattern(t, request[t]), faults = 0,
           \A s \in Students, pattern \in Patterns :
               \/ signals'[s][pattern] = signals[s][pattern]
               \/ s = request[t].student /\ pattern = request[t].pattern,
           \/ signals'[request[t].student][request[t].pattern] > 0
           \/ ~Shows(request[t].row, request[t].pattern, submissions) /\ UNCHANGED signals,
           NEW s \in Students, NEW pattern \in Patterns
    PROVE  SignalledOnceSeen(s, pattern)'
<1> DEFINE n == request[t].row
<1>1. CASE pattern # request[t].pattern \/ s # request[t].student
  <2>1. SeenNoMore(s, pattern)
    BY <1>1, NextSeen, LessSeen
  <2> QED BY <1>1, <2>1, FewerReturn, SeenKept
<1>2. CASE /\ pattern = request[t].pattern /\ s = request[t].student
           /\ signals'[request[t].student][request[t].pattern] > 0
  BY <1>2 DEF SignalledOnceSeen
<1>3. CASE /\ pattern = request[t].pattern /\ s = request[t].student
           /\ ~Shows(n, pattern, submissions) /\ UNCHANGED signals
  <2>1. n.student = s /\ n \in Rows
    BY <1>3, RowsThere DEF SignalInv, RowsInv, HasRow
  <2>2. \A x \in Seen(s, pattern)' : x.id # n.id => x \in Seen(s, pattern)
    BY NextSeen
  <2>3. \A x \in Seen(s, pattern)' : x \in submissions /\ x.student = s
    BY DEF Seen, Live
  <2> HIDE DEF n
  <2> SUFFICES ASSUME NEW r \in Seen(s, pattern)', Shows(r, pattern, SeenWith(r, pattern)')
               PROVE  signals[s][pattern] > 0
    BY <1>3 DEF SignalledOnceSeen, Shows, RowsOf, Burst, Storm
  <2>4. Live' = Live /\ Live \subseteq submissions
    BY DEF Live
  <2>5. CASE pattern = "storm"
    <3>1. SeenWith(r, pattern)' \subseteq submissions
      BY <2>3, <2>4, <2>5 DEF SeenWith, Seen
    <3>2. IsFiniteSet(submissions)
      BY DEF SignalInv, RowsInv
    <3>3. Storm(s, submissions)
      BY <2>3, <2>5, <3>1, <3>2, StormsGrow DEF Shows
    <3>4. Shows(n, pattern, submissions)
      BY <2>1, <2>5, <3>3 DEF Shows
    <3> QED BY <1>3, <3>4
  <2>6. CASE pattern # "storm" /\ r.id = n.id
    <3>1. SameHandIn(r, n)
      BY <2>1, <2>3, <2>6, RowsThere DEF SignalInv, RowsInv
    <3>2. \A x \in SeenWith(r, pattern)' : \E y \in submissions : SameHandIn(x, y)
      BY <2>4, <2>6 DEF SeenWith, SameHandIn
    <3>3. submissions \in SUBSET Rows
      BY RowsThere DEF SignalInv
    <3>4. Shows(n, pattern, submissions)
      BY <2>6, <3>1, <3>2, <3>3, ShowsAlike DEF SignalInv, Patterns
    <3> QED BY <1>3, <3>4
  <2>7. CASE pattern # "storm" /\ r.id # n.id
    <3>1. SeenWith(r, pattern)' = SeenWith(r, pattern)
      BY <2>4, <2>7 DEF SeenWith
    <3>2. r \in Seen(s, pattern) /\ Shows(r, pattern, SeenWith(r, pattern))
      BY <2>2, <2>7, <3>1
    <3> QED BY <3>2 DEF SignalInv, SeenSignals, SignalledOnceSeen
  <2> QED BY <2>5, <2>6, <2>7
<1> QED BY <1>1, <1>2, <1>3

LEMMA NextRequest ==
    ASSUME SignalInv, NEW t \in Threads, request[t].kind = "detect", GoesToNextPattern(t, request[t])
    PROVE  LET q == request'[t]
           IN  /\ request' = [request EXCEPT ![t] = q]
               /\ HasRow(q) => q.row = request[t].row /\ q.student = request[t].student
               /\ q.kind = "detect" => q.step = "look"
               /\ UNCHANGED <<requests>>
<1>1. request[t].student = request[t].row.student /\ request[t].pattern \in Patterns
  BY Kinds DEF SignalInv, RowsInv, HasRow, Typed, Detect
<1>2. PICK q \in {Looks(request[t].row, "reuse"), Enqueues(request[t].row), Idle} : Goes(t, q)
  BY <1>1 DEF GoesToNextPattern, Ends, Patterns
<1>3. /\ HasRow(q) => q.row = request[t].row /\ q.student = request[t].student
      /\ q.kind = "detect" => q.step = "look"
  BY <1>1 DEF Looks, Enqueues, Idle, HasRow
<1>4. request' = [request EXCEPT ![t] = q] /\ UNCHANGED requests
  BY <1>2 DEF Goes
<1>5. request'[t] = q
  BY <1>4 DEF SignalInv, Typed
<1> HIDE DEF HasRow
<1> QED BY <1>3, <1>4, <1>5

LEMMA RecordsSignals ==
    ASSUME ExamRoomAssumption, SignalInv, Typed', NEW t \in Threads, SubmitRecords(t)
    PROVE  SignalInv'
<1> DEFINE n == request[t].row
<1>1. /\ request[t].kind = "detect" /\ request[t].pattern = "burst"
      /\ request[t].student = n.student /\ n \in Rows /\ n \in Submission
      /\ n.id \in deleted \/ Saved(n)
  BY RowsThere DEF SubmitRecords, SignalInv, RowsInv, HasRow, Rows
<1>2. UNCHANGED <<submissions, inserted, deleted, signals, faults>>
  BY DEF SubmitRecords, historyVars, incidentVars
<1>3. CASE ~Saved(n)
  <2>1. request' = [request EXCEPT ![t] = Idle]
    BY <1>3 DEF SubmitRecords, Ends, Goes
  <2>2. \A pattern \in Patterns : \A x \in submissions' : ~LooksFor(request[t], x, pattern)
    BY <1>2, <1>3 DEF LooksFor, Saved
  <2>3. ~HasRow(Idle) /\ Idle.kind # "detect"
    BY DEF HasRow, Idle
  <2> QED BY <1>2, <2>1, <2>2, <2>3, QuietStep
<1>4. CASE Saved(n) /\ n.question # NoQuestion
  <2> DEFINE q == Looks(n, "burst")
  <2>1. request' = [request EXCEPT ![t] = q]
    BY <1>4 DEF SubmitRecords, SubmitGoesOn, Goes
  <2>2. /\ q.kind = "detect" /\ q.row = n /\ q.student = n.student
        /\ q.pattern = "burst" /\ q.step = "look"
    BY DEF Looks
  <2> HIDE DEF q
  <2>3. \A pattern \in Patterns : \A x \in submissions' :
           LooksFor(request[t], x, pattern) => LooksFor(q, x, pattern)
    BY <1>1, <2>2 DEF LooksFor
  <2>4. \E y \in Rows : SameHandIn(q.row, y)
    BY <1>1, <2>2 DEF SameHandIn
  <2> QED BY <1>1, <1>2, <2>1, <2>2, <2>3, <2>4, QuietStep
<1>5. CASE Saved(n) /\ n.question = NoQuestion
  <2>1. PICK q : /\ request' = [request EXCEPT ![t] = q]
                 /\ q.kind \in {"enqueue", "update"} /\ q.student = n.student
                 /\ SameHandIn(q.row, n) /\ q.student = q.row.student
    <3>1. CASE Goes(t, Enqueues(n))
      <4>1. LET q == Enqueues(n)
            IN  /\ q.kind = "enqueue" /\ q.student = n.student /\ q.row = n
        BY DEF Enqueues
      <4> QED BY <3>1, <4>1 DEF Goes, SameHandIn
    <3>2. ASSUME NEW failure \in {"none", "reported"},
                 Goes(t, [kind |-> "update", student |-> n.student, row |-> [n EXCEPT !.failure = failure]])
          PROVE  \E q : /\ request' = [request EXCEPT ![t] = q]
                        /\ q.kind \in {"enqueue", "update"} /\ q.student = n.student
                        /\ SameHandIn(q.row, n) /\ q.student = q.row.student
      <4> DEFINE q == [kind |-> "update", student |-> n.student, row |-> [n EXCEPT !.failure = failure]]
      <4>1. /\ q.kind = "update" /\ q.student = n.student
            /\ SameHandIn(q.row, n) /\ q.student = q.row.student
        BY <1>1 DEF Submission, SameHandIn
      <4>2. request' = [request EXCEPT ![t] = q]
        BY <3>2 DEF Goes
      <4> HIDE DEF q
      <4> QED BY <4>1, <4>2
    <3> QED BY <1>5, <3>1, <3>2 DEF SubmitRecords, SubmitGoesOn
  <2>2. \A pattern \in Patterns : \A x \in submissions' :
           ~(Watched(x, pattern) /\ LooksFor(request[t], x, pattern))
    <3> SUFFICES ASSUME NEW pattern \in Patterns, NEW x \in submissions,
                        Watched(x, pattern), LooksFor(request[t], x, pattern)
                 PROVE  FALSE
      BY <1>2
    <3>1. x.question = NoQuestion
      BY <1>1, <1>5, RowsThere DEF LooksFor, SignalInv, RowsInv, SameHandIn
    <3>2. pattern # "storm"
      BY <1>1 DEF LooksFor
    <3> QED BY <3>1, <3>2 DEF Watched
  <2>3. q.row.id \in deleted \/ Saved(q.row)
    BY <1>1, <2>1 DEF Saved, SameHandIn
  <2> QED BY <1>1, <1>2, <2>1, <2>2, <2>3, QuietStep
<1> QED BY <1>3, <1>4, <1>5

\* A detection goes to its next pattern with its own one signalled or not shown.
LEMMA GoesOnSignals ==
    ASSUME ExamRoomAssumption, SignalInv, Typed',
           UNCHANGED <<submissions, inserted, deleted, faults, signals>>,
           NEW t \in Threads, request[t].kind = "detect", GoesToNextPattern(t, request[t]),
           \/ signals[request[t].student][request[t].pattern] > 0
           \/ ~Shows(request[t].row, request[t].pattern, submissions)
    PROVE  SignalInv'
<1> DEFINE q == request'[t]
<1>1. /\ request' = [request EXCEPT ![t] = q]
      /\ HasRow(q) => q.row = request[t].row /\ q.student = request[t].student
      /\ q.kind = "detect" => q.step = "look"
  BY NextRequest
<1> HIDE DEF q
<1>2. RowsInv'
  BY <1>1, DetectRows
<1>3. SeenSignals'
  BY NextPattern DEF SeenSignals
<1>4. DoubledAtMost'
  <2> SUFFICES ASSUME NEW s \in Students, NEW pattern \in Patterns
               PROVE  signals'[s][pattern] + Cardinality(Inserting(s, pattern)') <= Cardinality(Threads)
    BY DEF DoubledAtMost
  <2>1. q.kind # "detect" \/ q.step # "insert"
    BY <1>1
  <2>2. Inserting(s, pattern)' \subseteq Inserting(s, pattern)
    BY <1>1, <2>1, InsertingLess DEF SignalInv
  <2> QED BY <2>2, InsertsKept
<1> QED BY <1>2, <1>3, <1>4 DEF SignalInv

LEMMA LooksSignals ==
    ASSUME ExamRoomAssumption, SignalInv, Typed', NEW t \in Threads, DetectLooks(t)
    PROVE  SignalInv'
<1>1. /\ request[t] \in Detect /\ request[t].kind = "detect"
      /\ request[t].student = request[t].row.student
      /\ request[t].row \in Rows /\ (request[t].row.id \in deleted \/ Saved(request[t].row))
  BY Kinds, RowsThere DEF DetectLooks, SignalInv, Typed, RowsInv, HasRow
<1>2. UNCHANGED <<submissions, inserted, deleted, signals, faults>>
  BY DEF DetectLooks, historyVars, incidentVars
<1>3. CASE Shows(request[t].row, request[t].pattern, submissions)
  <2> DEFINE q == [request[t] EXCEPT !.step = "check"]
  <2>1. request' = [request EXCEPT ![t] = q]
    BY <1>3 DEF DetectLooks, Goes
  <2>2. /\ q.kind = "detect" /\ q.row = request[t].row /\ q.student = request[t].student
        /\ q.pattern = request[t].pattern /\ q.step = "check"
    BY <1>1 DEF Detect
  <2> HIDE DEF q
  <2>3. \A pattern \in Patterns : \A x \in submissions' :
           LooksFor(request[t], x, pattern) => LooksFor(q, x, pattern)
    BY <2>2 DEF LooksFor
  <2>4. \E y \in Rows : SameHandIn(q.row, y)
    BY <1>1, <2>2 DEF SameHandIn
  <2> QED BY <1>1, <1>2, <2>1, <2>2, <2>3, <2>4, QuietStep
<1>4. CASE ~Shows(request[t].row, request[t].pattern, submissions)
  BY <1>1, <1>2, <1>4, GoesOnSignals DEF DetectLooks
<1> QED BY <1>3, <1>4

LEMMA ChecksSignals ==
    ASSUME ExamRoomAssumption, SignalInv, Typed', NEW t \in Threads, DetectChecks(t)
    PROVE  SignalInv'
<1>1. /\ request[t] \in Detect /\ request[t].kind = "detect"
      /\ request[t].student \in Students /\ request[t].pattern \in Patterns
  BY Kinds DEF DetectChecks, SignalInv, Typed, Detect
<1>2. UNCHANGED <<submissions, inserted, deleted, signals, faults>>
  BY DEF DetectChecks, historyVars, incidentVars
<1>3. CASE signals[request[t].student][request[t].pattern] = 0
  <2> DEFINE q == [request[t] EXCEPT !.step = "insert"]
  <2>1. request' = [request EXCEPT ![t] = q]
    BY <1>3 DEF DetectChecks, Goes
  <2>2. /\ q.kind = "detect" /\ q.row = request[t].row /\ q.student = request[t].student
        /\ q.pattern = request[t].pattern /\ q.step # "record"
    BY <1>1 DEF Detect
  <2> HIDE DEF q
  <2>3. RowsInv'
    BY <1>1, <1>2, <2>1, <2>2, DetectRows
  <2>4. ASSUME NEW s \in Students, NEW pattern \in Patterns
        PROVE  SeenNoMore(s, pattern)
    <3>1. \A x \in submissions' : LooksFor(request[t], x, pattern) => LooksFor(q, x, pattern)
      BY <2>2 DEF LooksFor
    <3>2. Seen(s, pattern)' \subseteq Seen(s, pattern)
      BY <1>2, <2>1, <3>1, SeenLess DEF SignalInv
    <3> QED BY <3>2, LessSeen
  <2>5. SeenSignals'
    BY <1>2, <2>4, FewerReturn, SeenKept DEF SeenSignals
  <2>6. DoubledAtMost'
    <3> SUFFICES ASSUME NEW s \in Students, NEW pattern \in Patterns
                 PROVE  signals'[s][pattern] + Cardinality(Inserting(s, pattern)') <= Cardinality(Threads)
      BY DEF DoubledAtMost
    <3>1. CASE s = request[t].student /\ pattern = request[t].pattern
      <4>1. signals'[s][pattern] = 0
        BY <1>2, <1>3, <3>1
      <4>2. Inserting(s, pattern)' \subseteq Threads
        BY DEF Inserting
      <4>3. /\ Cardinality(Inserting(s, pattern)') \in Nat /\ Cardinality(Threads) \in Nat
            /\ Cardinality(Inserting(s, pattern)') <= Cardinality(Threads)
        BY <4>2, FS_Subset, FS_CardinalityType DEF ExamRoomAssumption
      <4>4. \A i, j \in Nat : i <= j => 0 + i <= j
        OBVIOUS
      <4> HIDE DEF Inserting
      <4> QED BY <4>1, <4>3, <4>4
    <3>2. CASE s # request[t].student \/ pattern # request[t].pattern
      <4>1. Inserting(s, pattern)' \subseteq Inserting(s, pattern)
        BY <2>1, <2>2, <3>2, InsertingLess DEF SignalInv
      <4> QED BY <1>2, <4>1, InsertsKept
    <3> QED BY <3>1, <3>2
  <2> QED BY <2>3, <2>5, <2>6 DEF SignalInv
<1>4. CASE signals[request[t].student][request[t].pattern] # 0
  <2>1. signals[request[t].student][request[t].pattern] > 0
    BY <1>1, <1>4 DEF SignalInv, Typed, TypeOK
  <2> QED BY <1>1, <1>2, <1>4, <2>1, GoesOnSignals DEF DetectChecks
<1> QED BY <1>3, <1>4

LEMMA InsertsSignals ==
    ASSUME ExamRoomAssumption, SignalInv, Typed', NEW t \in Threads, DetectInserts(t)
    PROVE  SignalInv'
<1> DEFINE a == request[t].student
           p == request[t].pattern
           q == request'[t]
<1>1. request[t] \in Detect /\ request[t].kind = "detect" /\ a \in Students /\ p \in Patterns
  BY Kinds DEF DetectInserts, SignalInv, Typed, Detect
<1>2. UNCHANGED <<submissions, inserted, deleted, faults>>
  BY DEF DetectInserts, historyVars, incidentVars
<1>3. CASE ~Saved(request[t].row)
  <2>1. request' = [request EXCEPT ![t] = Idle] /\ UNCHANGED signals
    BY <1>3 DEF DetectInserts, Ends, Goes
  <2>2. \A pattern \in Patterns : \A x \in submissions' : ~LooksFor(request[t], x, pattern)
    BY <1>2, <1>3 DEF LooksFor, Saved
  <2>3. ~HasRow(Idle) /\ Idle.kind # "detect"
    BY DEF HasRow, Idle
  <2> QED BY <1>2, <2>1, <2>2, <2>3, QuietStep
<1>4. CASE Saved(request[t].row)
  <2>1. GoesToNextPattern(t, request[t]) /\ signals' = [signals EXCEPT ![a][p] = @ + 1]
    BY <1>4 DEF DetectInserts
  <2>2. /\ request' = [request EXCEPT ![t] = q]
        /\ HasRow(q) => q.row = request[t].row /\ q.student = a
        /\ q.kind = "detect" => q.step = "look"
    BY <1>1, <2>1, NextRequest
  <2>3. t \in Inserting(a, p)
    BY <1>1 DEF DetectInserts, Inserting
  <2> HIDE DEF q
  <2>4. RowsInv'
    BY <1>1, <1>2, <2>2, DetectRows
  <2>5. \A s \in Students, pattern \in Patterns :
           signals'[s][pattern] = IF s = a /\ pattern = p THEN signals[s][pattern] + 1
                                  ELSE signals[s][pattern]
    BY <1>1, <2>1 DEF SignalInv, Typed, TypeOK
  <2> HIDE DEF a, p
  <2>6. signals'[a][p] > 0
    <3>1. signals[a][p] \in Nat /\ signals'[a][p] = signals[a][p] + 1
      BY <1>1, <2>5 DEF SignalInv, Typed, TypeOK
    <3>2. \A i \in Nat : i + 1 > 0
      OBVIOUS
    <3> QED BY <3>1, <3>2
  <2>7. SeenSignals'
    <3> SUFFICES ASSUME NEW s \in Students, NEW pattern \in Patterns, faults = 0
                 PROVE  SignalledOnceSeen(s, pattern)'
      BY <1>2 DEF SeenSignals
    <3> QED BY <1>1, <1>2, <2>1, <2>5, <2>6, NextPattern DEF a, p
  <2>8. DoubledAtMost'
    <3> SUFFICES ASSUME NEW s \in Students, NEW pattern \in Patterns
                 PROVE  signals'[s][pattern] + Cardinality(Inserting(s, pattern)') <= Cardinality(Threads)
      BY DEF DoubledAtMost
    <3>1. q.kind # "detect" \/ q.step # "insert"
      BY <2>2
    <3>2. Inserting(s, pattern)' \subseteq Inserting(s, pattern) \ {t}
      BY <2>2, <3>1, InsertingLess DEF SignalInv
    <3>3. CASE s = a /\ pattern = p
      <4>1. /\ IsFiniteSet(Inserting(s, pattern)) /\ Cardinality(Inserting(s, pattern)) \in Nat
            /\ Cardinality(Threads) \in Nat
        BY InsertingFinite
      <4>2. /\ Cardinality(Inserting(s, pattern) \ {t}) = Cardinality(Inserting(s, pattern)) - 1
            /\ IsFiniteSet(Inserting(s, pattern) \ {t})
        BY <2>3, <3>3, <4>1, FS_RemoveElement
      <4>3. /\ Cardinality(Inserting(s, pattern)') <= Cardinality(Inserting(s, pattern)) - 1
            /\ Cardinality(Inserting(s, pattern)') \in Nat
        BY <3>2, <4>2, FS_Subset, FS_CardinalityType
      <4>4. signals'[s][pattern] = signals[s][pattern] + 1 /\ signals[s][pattern] \in Nat
        BY <2>5, <3>3 DEF SignalInv, Typed, TypeOK
      <4>5. signals[s][pattern] + Cardinality(Inserting(s, pattern)) <= Cardinality(Threads)
        BY DEF SignalInv, DoubledAtMost
      <4>6. \A k, m, j, l \in Nat : k + m <= l /\ j <= m - 1 => (k + 1) + j <= l
        OBVIOUS
      <4> HIDE DEF Inserting
      <4> QED BY <4>1, <4>3, <4>4, <4>5, <4>6
    <3>4. CASE s # a \/ pattern # p
      BY <2>5, <3>2, <3>4, InsertsKept
    <3> QED BY <3>3, <3>4
  <2> QED BY <2>4, <2>7, <2>8 DEF SignalInv
<1> QED BY <1>3, <1>4

\* Deletions, and requests that die.
LEMMA LossSignals ==
    ASSUME ExamRoomAssumption, SignalInv, Typed',
           \/ \E q \in Questions : AddQuestion(q) \/ DeleteQuestion(q)
           \/ \E r \in submissions : DeleteSubmission(r)
           \/ \E t \in Threads : Dies(t)
    PROVE  SignalInv'
<1>1. ASSUME submissions' \subseteq submissions, deleted \subseteq deleted',
             UNCHANGED <<request, inserted, signals, faults>>,
             \A x \in submissions \ submissions' : x.id \in deleted'
      PROVE  SignalInv'
  <2>1. IsFiniteSet(submissions')
    BY <1>1, FS_Subset DEF SignalInv, RowsInv
  <2>2. Rows' \subseteq Rows
    BY <1>1 DEF Rows
  <2>3. ASSUME NEW t \in Threads, request[t].row.id \in deleted \/ Saved(request[t].row)
        PROVE  request[t].row.id \in deleted' \/ \E o \in submissions' : o.id = request[t].row.id
    BY <1>1, <2>3 DEF Saved
  <2>4. RowsInv'
    BY <1>1, <2>1, <2>2, <2>3 DEF SignalInv, RowsInv, Saved
  <2>5. \A s \in Students, pattern \in Patterns :
           /\ Seen(s, pattern)' \subseteq Seen(s, pattern)
           /\ Inserting(s, pattern)' \subseteq Inserting(s, pattern)
    BY <1>1 DEF Seen, Live, Inserting
  <2> QED BY <1>1, <2>4, <2>5, LessSeen, FewerReturn, NothingSeen
<1>2. ASSUME NEW q \in Questions, AddQuestion(q) PROVE SignalInv'
  BY <1>1, <1>2 DEF AddQuestion, historyVars, incidentVars
<1>3. ASSUME NEW q \in Questions, DeleteQuestion(q) PROVE SignalInv'
  <2>1. /\ submissions' \subseteq submissions /\ deleted \subseteq deleted'
        /\ UNCHANGED <<request, inserted, signals, faults>>
        /\ \A x \in submissions \ submissions' : x.id \in deleted'
    BY <1>3 DEF DeleteQuestion, Removes
  <2> QED BY <1>1, <2>1
<1>4. ASSUME NEW r \in submissions, DeleteSubmission(r) PROVE SignalInv'
  <2>1. /\ submissions' \subseteq submissions /\ deleted \subseteq deleted'
        /\ UNCHANGED <<request, inserted, signals, faults>>
        /\ \A x \in submissions \ submissions' : x.id \in deleted'
    BY <1>4 DEF DeleteSubmission, Removes
  <2> QED BY <1>1, <2>1
<1>5. ASSUME NEW t \in Threads, Dies(t) PROVE SignalInv'
  <2>1. /\ UNCHANGED <<submissions, inserted, deleted, signals>>
        /\ request' = [request EXCEPT ![t] = Idle] /\ faults' = faults + 1
    BY <1>5 DEF Dies, Ends, Goes, historyVars
  <2>2. faults' # 0
    BY <2>1 DEF SignalInv, Typed, TypeOK
  <2>3. ~HasRow(Idle) /\ Idle.kind # "detect"
    BY DEF HasRow, Idle
  <2> QED BY <2>1, <2>2, <2>3, QuietStep
<1> QED BY <1>2, <1>3, <1>4, <1>5

LEMMA RoomEndsSignals ==
    ASSUME ExamRoomAssumption, SignalInv, Typed', DeleteRoom
    PROVE  SignalInv'
<1>1. /\ submissions' = {} /\ UNCHANGED inserted
      /\ \A x \in submissions : x.id \in deleted'
      /\ deleted \subseteq deleted'
      /\ \A s \in Students, pattern \in Patterns : signals'[s][pattern] = 0
  BY DEF DeleteRoom
<1>2. ASSUME NEW t \in Threads, HasRow(request'[t])
      PROVE  HasRow(request[t]) /\ request'[t] = request[t]
  <2>1. request'[t] = Orphaned(request[t]) /\ request[t] \in Request
    BY DEF DeleteRoom, SignalInv, Typed
  <2>2. request[t].kind # "submit"
    <3> SUFFICES ASSUME request[t].kind = "submit" PROVE FALSE
      OBVIOUS
    <3>1. request[t] \in Submit
      BY <2>1, Kinds
    <3> QED BY <1>2, <2>1, <3>1 DEF Orphaned, Submit, HasRow
  <2>3. ~HasRow(Idle)
    BY DEF HasRow, Idle
  <2>4. request'[t] = request[t]
    BY <1>2, <2>1, <2>2, <2>3 DEF Orphaned
  <2> QED BY <1>2, <2>4
<1>3. IsFiniteSet(submissions')
  BY <1>1, FS_EmptySet
<1>4. Rows' \subseteq Rows
  BY <1>1, <1>2 DEF Rows
<1>5. ASSUME NEW t \in Threads
      PROVE  LET q == request'[t]
             IN  /\ HasRow(q) => q.student = q.row.student /\ q.row.id \in deleted'
                 /\ q.kind = "detect" /\ q.step = "record" => q.pattern = "burst"
  BY <1>1, <1>2 DEF SignalInv, RowsInv, HasRow, Saved
<1>6. RowsInv'
  BY <1>1, <1>3, <1>4, <1>5 DEF SignalInv, RowsInv
<1>7. SeenSignals'
  BY <1>1 DEF SeenSignals, SignalledOnceSeen, Seen, Live
<1>8. DoubledAtMost'
  <2> SUFFICES ASSUME NEW s \in Students, NEW pattern \in Patterns
               PROVE  signals'[s][pattern] + Cardinality(Inserting(s, pattern)') <= Cardinality(Threads)
    BY DEF DoubledAtMost
  <2>1. Inserting(s, pattern)' \subseteq Threads
    BY DEF Inserting
  <2>2. /\ Cardinality(Inserting(s, pattern)') \in Nat /\ Cardinality(Threads) \in Nat
        /\ Cardinality(Inserting(s, pattern)') <= Cardinality(Threads)
    BY <2>1, FS_Subset, FS_CardinalityType DEF ExamRoomAssumption
  <2>3. \A i, j \in Nat : i <= j => 0 + i <= j
    OBVIOUS
  <2> HIDE DEF Inserting
  <2> QED BY <1>1, <2>2, <2>3
<1> QED BY <1>6, <1>7, <1>8 DEF SignalInv

\* A create request that has not saved its row holds none.
LEMMA SubmitSignals ==
    ASSUME ExamRoomAssumption, SignalInv, Typed', NEW t \in Threads,
           \/ \E s \in Students, q \in Questions \cup {NoQuestion}, x \in Workspaces,
                 kind \in {"submit", "disqualify"} : SubmitBegins(t, s, q, x, kind)
           \/ SubmitMarksPresent(t)
    PROVE  SignalInv'
<1>1. ASSUME NEW s \in Students, NEW q \in Questions \cup {NoQuestion}, NEW x \in Workspaces,
             NEW kind \in {"submit", "disqualify"}, SubmitBegins(t, s, q, x, kind)
      PROVE  SignalInv'
  <2> DEFINE r == [kind |-> kind, student |-> s, sawLocked |-> s \in accessLocked,
                   heartbeat |-> kind = "submit", question |-> q, workspace |-> x]
  <2>1. request[t] = Idle /\ request' = [request EXCEPT ![t] = r]
    BY <1>1 DEF SubmitBegins, Begins
  <2>2. UNCHANGED <<submissions, inserted, deleted, signals, faults>>
    BY <1>1 DEF SubmitBegins, historyVars, incidentVars
  <2>3. r.kind \in {"submit", "disqualify"}
    OBVIOUS
  <2> HIDE DEF r
  <2>4. ~HasRow(r) /\ ~HasRow(Idle)
    BY <2>3 DEF HasRow, Idle
  <2> QED BY <2>1, <2>2, <2>4, RowlessStep
<1>2. CASE SubmitMarksPresent(t)
  <2> DEFINE r == [request[t] EXCEPT !.heartbeat = FALSE]
  <2>1. request[t].kind = "submit" /\ request' = [request EXCEPT ![t] = r]
    BY <1>2 DEF SubmitMarksPresent, Goes
  <2>2. UNCHANGED <<submissions, inserted, deleted, signals, faults>>
    BY <1>2 DEF SubmitMarksPresent, historyVars, incidentVars
  <2>3. r.kind = "submit"
    <3>1. request[t] \in Submit
      BY <2>1, Kinds DEF SignalInv, Typed
    <3> QED BY <2>1, <3>1 DEF Submit
  <2> HIDE DEF r
  <2>4. ~HasRow(r) /\ ~HasRow(request[t])
    BY <2>1, <2>3 DEF HasRow
  <2> QED BY <2>1, <2>2, <2>4, RowlessStep
<1> QED BY <1>1, <1>2

\* Requests that hold no row.
LEMMA OtherSignals ==
    ASSUME ExamRoomAssumption, SignalInv, Typed', NEW t \in Threads,
           \/ \E n \in Assignable : PatchRoomBegins(t, n)
           \/ \E q \in Questions : EditBegins(t, q)
           \/ \E s \in Students : \/ JoinBegins(t, s) \/ VisitBegins(t, s)
                                  \/ \E kind \in {"lock", "unlock"} : ModerateBegins(t, s, kind)
           \/ PatchRoomSaves(t) \/ EditSaves(t)
           \/ JoinSamples(t) \/ JoinCreates(t) \/ JoinAssigns(t)
           \/ VisitEnds(t) \/ LockSaves(t) \/ UnlockSaves(t)
    PROVE  SignalInv'
<1>1. UNCHANGED <<submissions, inserted, deleted, signals, faults>>
  BY DEF PatchRoomBegins, EditBegins, JoinBegins, VisitBegins, ModerateBegins, PatchRoomSaves,
     EditSaves, JoinSamples, JoinCreates, JoinAssigns, VisitEnds, LockSaves, UnlockSaves,
     historyVars, incidentVars
<1> DEFINE Rowless(q) == ~HasRow(q)
<1>2. Rowless(Idle)
  BY DEF HasRow, Idle
<1>3. CASE \/ \E n \in Assignable : PatchRoomBegins(t, n)
           \/ \E q \in Questions : EditBegins(t, q)
           \/ \E s \in Students : \/ JoinBegins(t, s) \/ VisitBegins(t, s)
                                  \/ \E kind \in {"lock", "unlock"} : ModerateBegins(t, s, kind)
  <2>1. /\ \A n : Rowless([kind |-> "patchRoom", assign |-> n])
        /\ \A q : Rowless([kind |-> "editQuestion", question |-> q])
        /\ \A s : Rowless([kind |-> "visit", student |-> s])
        /\ \A s : Rowless([kind |-> "join", student |-> s, step |-> "sample",
                           wanted |-> questionsToAssign, picks |-> {}])
        /\ \A s : \A kind \in {"lock", "unlock"} :
              Rowless([kind |-> kind, student |-> s, sawLocked |-> s \in accessLocked])
    BY DEF HasRow
  <2> HIDE DEF Rowless
  <2>2. PICK q : Begins(t, q) /\ Rowless(q)
    BY <1>3, <2>1 DEF PatchRoomBegins, EditBegins, JoinBegins, VisitBegins, ModerateBegins
  <2>3. request' = [request EXCEPT ![t] = q] /\ request[t] = Idle
    BY <2>2 DEF Begins
  <2> QED BY <1>1, <1>2, <2>2, <2>3, RowlessStep DEF Rowless
<1>4. CASE \/ PatchRoomSaves(t) \/ EditSaves(t)
           \/ JoinSamples(t) \/ JoinCreates(t) \/ JoinAssigns(t)
           \/ VisitEnds(t) \/ LockSaves(t) \/ UnlockSaves(t)
  <2>1. Rowless(request[t])
    BY <1>4 DEF HasRow, PatchRoomSaves, EditSaves, JoinSamples, JoinCreates, JoinAssigns, VisitEnds,
       LockSaves, UnlockSaves
  <2>2. request[t].kind = "join" =>
           /\ \A picks : Rowless([request[t] EXCEPT !.step = "create", !.picks = picks])
           /\ Rowless([request[t] EXCEPT !.step = "assign"])
    <3>1. request[t].kind = "join" => request[t] \in Join
      BY Kinds DEF SignalInv, Typed
    <3> QED BY <3>1 DEF Join, HasRow
  <2>3. \A s : Rowless([kind |-> "visit", student |-> s])
    BY DEF HasRow
  <2> HIDE DEF Rowless
  <2>4. PICK q : Goes(t, q) /\ Rowless(q)
    BY <1>2, <1>4, <2>2, <2>3 DEF PatchRoomSaves, EditSaves, JoinSamples, JoinCreates, JoinAssigns,
       VisitEnds, LockSaves, UnlockSaves, Ends
  <2>5. request' = [request EXCEPT ![t] = q]
    BY <2>4 DEF Goes
  <2> QED BY <1>1, <2>1, <2>4, <2>5, RowlessStep DEF Rowless
<1> QED BY <1>3, <1>4

LEMMA SignalStep == ASSUME ExamRoomAssumption, SignalInv, [Next]_vars PROVE SignalInv'
<1>1. Typed'
  BY TypeStep DEF SignalInv
<1>2. CASE UNCHANGED vars
  <2>1. UNCHANGED <<submissions, request, inserted, deleted, signals, faults>>
    BY <1>2 DEF vars, historyVars, incidentVars
  <2>2. RowsInv'
    BY <2>1 DEF SignalInv, RowsInv, Rows, Saved
  <2>3. \A s \in Students, pattern \in Patterns :
           Seen(s, pattern)' \subseteq Seen(s, pattern) /\ Inserting(s, pattern)' \subseteq Inserting(s, pattern)
    BY <2>1 DEF Seen, Live, Inserting
  <2> QED BY <1>1, <2>1, <2>2, <2>3, LessSeen, FewerReturn, NothingSeen
<1>3. ASSUME NEW t \in Threads, NEW s \in Students, Begin(t, s) PROVE SignalInv'
  <2>1. CASE \E r \in RowsOf(s, submissions), failure \in {"none", "reported"} : UpdateBegins(t, r, failure)
    BY <1>1, <2>1, UpdateBeginsSignals DEF RowsOf
  <2>2. CASE \/ JoinBegins(t, s) \/ VisitBegins(t, s)
             \/ \E kind \in {"lock", "unlock"} : ModerateBegins(t, s, kind)
    BY <1>1, <2>2, OtherSignals
  <2>3. CASE \E q \in Questions \cup {NoQuestion}, x \in Workspaces, kind \in {"submit", "disqualify"} :
                SubmitBegins(t, s, q, x, kind)
    BY <1>1, <2>3, SubmitSignals
  <2> QED BY <1>3, <2>1, <2>2, <2>3 DEF Begin
<1>4. ASSUME NEW t \in Threads, Continue(t) PROVE SignalInv'
  <2>1. CASE \/ PatchRoomSaves(t) \/ EditSaves(t)
             \/ JoinSamples(t) \/ JoinCreates(t) \/ JoinAssigns(t)
             \/ VisitEnds(t) \/ LockSaves(t) \/ UnlockSaves(t)
    BY <1>1, <2>1, OtherSignals
  <2>2. CASE SubmitMarksPresent(t) \/ SubmitSaves(t) \/ SubmitRecords(t) \/ UpdateSaves(t)
    BY <1>1, <2>2, SubmitSignals, SubmitSavesSignals, RecordsSignals, UpdateSavesSignals
  <2>3. CASE SubmitIsSent(t) \/ SubmitIsUnsent(t) \/ SubmitIsTakenBack(t)
    BY <1>1, <2>3, SentSignals, UnsentSignals
  <2>4. CASE DetectLooks(t) \/ DetectChecks(t) \/ DetectInserts(t)
    BY <1>1, <2>4, LooksSignals, ChecksSignals, InsertsSignals
  <2> QED BY <1>4, <2>1, <2>2, <2>3, <2>4 DEF Continue
<1> QED BY <1>1, <1>2, <1>3, <1>4, OtherSignals, LossSignals, RoomEndsSignals DEF Next

\* However the requests that hand in, judge and look for patterns overlap: when all have
\* looked, and none died, a pattern is signalled that a watched row shows together with
\* what was saved before it, Run Tests included, or, for a storm, with the other failures
\* that judgements reported; and no signal is doubled more than once for each thread.
\* Run Tests saved after it, and failures of the queue, show what nobody looks for.
THEOREM PatternsAreSignalled == Spec => []Signalled
<1> SUFFICES ASSUME ExamRoomAssumption PROVE Spec => []Signalled
  BY ExamRoomAssumption
<1>1. Init => SignalInv
  BY SignalInit
<1>2. SignalInv /\ [Next]_vars => SignalInv'
  BY SignalStep
<1>3. SignalInv => Signalled
  <2> SUFFICES ASSUME SignalInv, NEW s \in Students, NEW pattern \in Patterns
               PROVE  LET rows == {r \in RowsOf(s, submissions) : r.id \notin deleted}
                          quiet == \A t \in Threads : request[t].kind # "detect"
                      IN  /\ quiet /\ faults = 0 =>
                                \A r \in rows :
                                   Watched(r, pattern) /\ Shows(r, pattern, Evidence(r, pattern, rows)) =>
                                      signals[s][pattern] > 0
                          /\ signals[s][pattern] <= Cardinality(Threads)
    BY DEF Signalled
  <2> DEFINE rows == {r \in RowsOf(s, submissions) : r.id \notin deleted}
  <2>1. ASSUME \A t \in Threads : request[t].kind # "detect", faults = 0,
               NEW r \in rows, Watched(r, pattern), Shows(r, pattern, Evidence(r, pattern, rows))
        PROVE  signals[s][pattern] > 0
    <3>1. Seen(s, pattern) = {x \in rows : Watched(x, pattern)}
      BY <2>1 DEF Seen, Live, RowsOf, LooksFor
    <3>2. r \in Seen(s, pattern) /\ r \in Rows /\ r.student = s
      BY <2>1, <3>1, RowsThere DEF RowsOf, SignalInv
    <3>3. Shows(r, pattern, SeenWith(r, pattern))
      <4>1. CASE pattern = "storm"
        <5>1. Evidence(r, pattern, rows) = SeenWith(r, pattern)
          BY <3>1, <3>2, <4>1 DEF Evidence, SeenWith, Watched
        <5> QED BY <2>1, <5>1
      <4>2. CASE pattern # "storm"
        <5>1. \A x \in Evidence(r, pattern, rows) : \E y \in SeenWith(r, pattern) : SameHandIn(x, y)
          BY <4>2 DEF Evidence, SeenWith, Live, RowsOf, SameHandIn
        <5>2. SeenWith(r, pattern) \in SUBSET Rows
          BY <4>2, RowsThere DEF SeenWith, Live, SignalInv
        <5>3. SameHandIn(r, r)
          BY DEF SameHandIn
        <5> QED BY <2>1, <4>2, <5>1, <5>2, <5>3, ShowsAlike DEF SignalInv, Patterns
      <4> QED BY <4>1, <4>2
    <3> QED BY <2>1, <3>2, <3>3 DEF SignalInv, SeenSignals, SignalledOnceSeen
  <2>2. signals[s][pattern] <= Cardinality(Threads)
    <3>1. signals[s][pattern] \in Nat
      BY DEF SignalInv, Typed, TypeOK
    <3>2. signals[s][pattern] + Cardinality(Inserting(s, pattern)) <= Cardinality(Threads)
      BY DEF SignalInv, DoubledAtMost
    <3>3. Cardinality(Inserting(s, pattern)) \in Nat /\ Cardinality(Threads) \in Nat
      BY InsertingFinite
    <3> HIDE DEF Inserting
    <3> QED BY <3>1, <3>2, <3>3
  <2> QED BY <2>1, <2>2
<1> QED BY <1>1, <1>2, <1>3, PTL DEF Spec

=============================================================================
