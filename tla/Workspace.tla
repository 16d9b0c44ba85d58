----------------------------- MODULE Workspace -----------------------------
(***************************************************************************)
(* The student's page, templates/workspace.html, in an exam room: the       *)
(* Submit button, the lock that keeps it from being pressed twice, the      *)
(* polls and websocket messages that bring a verdict, the verdict of every  *)
(* question card, a refreshed room and a reloaded page.                     *)
(*                                                                          *)
(* The page is one event loop; a handler that awaits a request goes on with *)
(* the page as it is then, in particular with the question that is open     *)
(* then.  The server stores a row per accepted submission, judges it some   *)
(* time, and pushes the verdict to the page once (SubmissionConsumer of     *)
(* realtime/consumers.py); what comes over the websocket may be late or     *)
(* lost.                                                                    *)
(*                                                                          *)
(* "Run Test", time-up, kicks and disqualification, which end the session,  *)
(* and questions taken out of the room are left out.                        *)
(***************************************************************************)
EXTENDS Integers, Sequences, FiniteSets

CONSTANTS
    Questions,      \* the questions assigned to the student
    NoQuestion,     \* nothing is open; nothing is being evaluated
    MaxPolls,       \* 40 in the code: polls of one submission
    MaxSubmits,     \* bound: how often Submit is pressed
    MaxTroubles     \* bound: lost messages and answers, failed requests, reloads

ASSUME WorkspaceAssumption ==
    /\ NoQuestion \notin Questions
    /\ MaxPolls \in Nat \ {0}
    /\ MaxSubmits \in Nat
    /\ MaxTroubles \in Nat

VARIABLES
    rows,           \* the student's Submission rows, in order of their ids
    pushed,         \* rows whose verdict is on its way over the websocket
    page,           \* how far the page has been loaded
    active,         \* activeExamQuestionId
    verdicts,       \* questionVerdicts
    pending,        \* pendingExamQuestionSubmissions: questions that lock the button
    evaluations,    \* pendingEvaluations: row -> question
    pollers,        \* submissionPollers: polls of a row so far, Untracked: no poller
    requests,       \* handlers of the button that are waiting for something
    submits, troubles,
    strayed,        \* history: questions left while their request was on its way
    misplaced,      \* history: questions given the earlier verdict of another one
    overlooked      \* history: questions whose 429 brought the lock of another one

serverVars == <<rows, pushed>>
lockVars == <<pending, evaluations, pollers>>
countVars == <<submits, troubles>>
historyVars == <<strayed, misplaced, overlooked>>
vars == <<serverVars, page, active, verdicts, lockVars, requests, countVars, historyVars>>

-----------------------------------------------------------------------------

\* "FAILED" is every final status but PASSED, "none" an unattempted question.
Final == {"PASSED", "FAILED"}
Shown == {"none", "EVALUATING", "ERROR"} \cup Final

Untracked == -1

\* writtenFor (history) is the question that was open when Submit was pressed.
Row == [question : Questions, writtenFor : Questions, status : {"PENDING"} \cup Final]

\* question and previous are what the handler saw when Submit was pressed, asked
\* is the question_id it sent.  A request outlives the page it was sent from.
Request == [id : Nat, question : Questions, previous : Shown, listening : BOOLEAN,
            stage : {"snapshot", "sent", "accepted", "refused", "throttled", "restoring"},
            asked : Questions \cup {NoQuestion}, row : Nat]

Ids == 1..MaxSubmits

TypeOK ==
    /\ rows \in Seq(Row)
    /\ pushed \subseteq DOMAIN rows
    /\ page \in {"loading", "resumed", "ready"}
    /\ active \in Questions \cup {NoQuestion}
    /\ verdicts \in [Questions -> Shown]
    /\ pending \subseteq Questions
    /\ evaluations \in [Ids -> Questions \cup {NoQuestion}]
    /\ pollers \in [Ids -> {Untracked} \cup 0..(MaxPolls - 1)]
    /\ requests \subseteq Request
    /\ strayed \subseteq Questions
    /\ misplaced \subseteq Questions
    /\ overlooked \subseteq Questions

\* What a page knows before it has asked anyone.
Blank ==
    /\ page' = "loading"
    /\ active' = NoQuestion
    /\ verdicts' = [q \in Questions |-> "none"]
    /\ pending' = {}
    /\ evaluations' = [i \in Ids |-> NoQuestion]
    /\ pollers' = [i \in Ids |-> Untracked]

Init ==
    /\ rows = <<>>
    /\ pushed = {}
    /\ page = "loading"
    /\ active = NoQuestion
    /\ verdicts = [q \in Questions |-> "none"]
    /\ pending = {}
    /\ evaluations = [i \in Ids |-> NoQuestion]
    /\ pollers = [i \in Ids |-> Untracked]
    /\ requests = {}
    /\ submits = 0 /\ troubles = 0
    /\ strayed = {}
    /\ misplaced = {}
    /\ overlooked = {}

Fault == troubles < MaxTroubles /\ troubles' = troubles + 1 /\ UNCHANGED submits

\* Mutant: the verdict replaces a PASSED as well.
WithVerdictAnyway(q, v) == [verdicts EXCEPT ![q] = v]

\* applyQuestionVerdict: a solved question stays solved.
WithVerdict(q, v) ==
    IF verdicts[q] = "PASSED" THEN verdicts ELSE [verdicts EXCEPT ![q] = v]

Solved(q) == \E i \in DOMAIN rows : rows[i].question = q /\ rows[i].status = "PASSED"

\* Mutant: a refresh leaves the cards alone.
WithSolvedForgotten(shown) == shown

\* renderExamMode: solved_question_ids come from the server.
WithSolved(shown) == [q \in Questions |-> IF Solved(q) THEN "PASSED" ELSE shown[q]]

-----------------------------------------------------------------------------
(* The page. *)

\* renderExamMode writes the local copy of the verdicts before resumeActiveExam
\* reads it: only what the server calls solved comes back.
Resume ==
    /\ page = "loading"
    /\ page' = "resumed"
    /\ verdicts' = WithSolved([q \in Questions |-> "none"])
    /\ UNCHANGED <<serverVars, active, lockVars, requests, countVars, historyVars>>

Reload ==
    /\ page = "ready"
    /\ Fault
    /\ Blank
    /\ pushed' = {}
    /\ requests' = {[r EXCEPT !.listening = FALSE] : r \in {r \in requests : r.stage = "sent"}}
    /\ misplaced' = {} /\ overlooked' = {}
    /\ UNCHANGED <<rows, strayed>>

\* refreshExamState, every 12 seconds, when the state of the room has changed.
Refresh ==
    /\ page # "loading"
    /\ WithSolved(verdicts) # verdicts
    /\ verdicts' = WithSolved(verdicts)
    /\ UNCHANGED <<serverVars, page, active, lockVars, requests, countVars, historyVars>>

\* setActiveQuestion: the button of a card that is being evaluated is disabled.
OpenQuestion(q) ==
    /\ page # "loading"
    /\ q # active
    /\ verdicts[q] # "EVALUATING"
    /\ active' = q
    /\ strayed' = strayed \cup {r.question : r \in {r \in requests : r.listening}}
    /\ UNCHANGED <<serverVars, page, verdicts, lockVars, requests, countVars, misplaced, overlooked>>

-----------------------------------------------------------------------------
(* submitBtnEl.onclick, up to each of its awaits. *)

Press ==
    /\ page # "loading"
    /\ active # NoQuestion
    /\ pending = {}
    /\ submits < MaxSubmits
    /\ submits' = submits + 1
    /\ verdicts' = WithVerdict(active, "EVALUATING")
    /\ pending' = {active}
    /\ requests' = requests \cup
          {[id |-> submits', question |-> active, previous |-> verdicts[active],
            listening |-> TRUE, stage |-> "snapshot", asked |-> NoQuestion, row |-> 0]}
    /\ UNCHANGED <<serverVars, page, active, evaluations, pollers, troubles, historyVars>>

Becomes(r, next) == requests' = (requests \ {r}) \cup {next}
Ends(r) == requests' = requests \ {r}

\* The snapshot is saved, the submission sent: for the question that is open now.
Send(r) ==
    /\ r.stage = "snapshot"
    /\ Becomes(r, [r EXCEPT !.stage = "sent", !.asked = active])
    /\ UNCHANGED <<serverVars, page, active, verdicts, lockVars, countVars, historyVars>>

\* Whoever has left does not hear the answer.
Answers(r, stage, row) ==
    IF r.listening THEN Becomes(r, [r EXCEPT !.stage = stage, !.row = row]) ELSE Ends(r)

Stores(r) ==
    rows' = Append(rows, [question |-> r.asked, writtenFor |-> r.question, status |-> "PENDING"])

Accept(r) ==
    /\ r.stage = "sent"
    /\ Stores(r)
    /\ Answers(r, "accepted", Len(rows) + 1)
    /\ UNCHANGED <<pushed, page, active, verdicts, lockVars, countVars, historyVars>>

Throttle(r) ==
    /\ r.stage = "sent"
    /\ Answers(r, "throttled", 0)
    /\ UNCHANGED <<serverVars, page, active, verdicts, lockVars, countVars, historyVars>>

\* Any other refusal, a connection that breaks before the request is served, or
\* after it.
AnswerLost(r) ==
    /\ r.stage = "sent"
    /\ Fault
    /\ Stores(r) \/ UNCHANGED rows
    /\ Answers(r, "refused", 0)
    /\ UNCHANGED <<pushed, page, active, verdicts, lockVars, historyVars>>

\* beginSubmissionTracking, with the question that is open now.
HearAccepted(r) ==
    /\ r.stage = "accepted"
    /\ evaluations' = [evaluations EXCEPT ![r.row] = active]
    /\ pollers' = [pollers EXCEPT ![r.row] = 0]
    /\ Ends(r)
    /\ UNCHANGED <<serverVars, page, active, verdicts, pending, countVars, historyVars>>

HearRefused(r) ==
    /\ r.stage = "refused"
    /\ pending' = pending \ {active}
    /\ verdicts' = WithVerdict(active, "ERROR")
    /\ Ends(r)
    /\ UNCHANGED <<serverVars, page, active, evaluations, pollers, countVars, historyVars>>

\* A 429: the lock is given up, and the rows are asked for.
HearThrottled(r) ==
    /\ r.stage = "throttled"
    /\ pending' = pending \ {active}
    /\ Becomes(r, [r EXCEPT !.stage = "restoring"])
    /\ UNCHANGED <<serverVars, page, active, verdicts, evaluations, pollers, countVars, historyVars>>

-----------------------------------------------------------------------------
(* restorePendingSubmissionLock, after a 429 and when the page has loaded. *)

PendingRows == {i \in DOMAIN rows : rows[i].status = "PENDING"}

\* The list is sorted by time, the latest first.
LatestPending == CHOOSE i \in PendingRows : \A k \in PendingRows : k <= i

\* Mutant: the row is polled, the button left free.
LockForPolls(i) ==
    /\ UNCHANGED pending
    /\ evaluations' = [evaluations EXCEPT ![i] = rows[i].question]
    /\ pollers' = [pollers EXCEPT ![i] = IF @ = Untracked THEN 0 ELSE @]

LockFor(i) ==
    /\ pending' = pending \cup {rows[i].question}
    /\ evaluations' = [evaluations EXCEPT ![i] = rows[i].question]
    /\ pollers' = [pollers EXCEPT ![i] = IF @ = Untracked THEN 0 ELSE @]

\* There is a submission to wait for: the card gets back its earlier verdict,
\* or rather the one that is open now gets it.
RestoreAfterThrottle(r) ==
    /\ r.stage = "restoring"
    /\ PendingRows # {}
    /\ LockFor(LatestPending)
    /\ verdicts' = WithVerdict(active, r.previous)
    /\ misplaced' = IF active = r.question THEN misplaced ELSE misplaced \cup {active}
    /\ overlooked' = IF rows[LatestPending].question = active
                     THEN overlooked ELSE overlooked \cup {active}
    /\ Ends(r)
    /\ UNCHANGED <<serverVars, page, active, countVars, strayed>>

RestoreInVain(r) ==
    /\ r.stage = "restoring"
    /\ \/ PendingRows = {} /\ UNCHANGED countVars
       \/ Fault
    /\ verdicts' = WithVerdict(active, "ERROR")
    /\ Ends(r)
    /\ UNCHANGED <<serverVars, page, active, lockVars, historyVars>>

RestoreOnLoad ==
    /\ page = "resumed"
    /\ page' = "ready"
    /\ \/ PendingRows # {} /\ LockFor(LatestPending) /\ UNCHANGED countVars
       \/ PendingRows = {} /\ UNCHANGED <<lockVars, countVars>>
       \/ Fault /\ UNCHANGED lockVars
    /\ UNCHANGED <<serverVars, active, verdicts, requests, historyVars>>

-----------------------------------------------------------------------------
(* Verdicts. *)

Judge(i) ==
    /\ rows[i].status = "PENDING"
    /\ \E v \in Final : rows' = [rows EXCEPT ![i].status = v]
    /\ pushed' = pushed \cup {i}
    /\ UNCHANGED <<page, active, verdicts, lockVars, requests, countVars, historyVars>>

\* Mutant: the card is the one the page remembers for the row, not the row's.
ResolveRemembered(i) ==
    LET q == evaluations[i]
    IN  /\ verdicts' = IF q = NoQuestion THEN verdicts ELSE WithVerdict(q, rows[i].status)
        /\ evaluations' = [evaluations EXCEPT ![i] = NoQuestion]
        /\ pollers' = [pollers EXCEPT ![i] = Untracked]
        /\ pending' = pending \ {q}

\* Mutant: the lock is left to whoever tracks the row.
ResolveKeepsLock(i) ==
    LET q == rows[i].question
    IN  /\ verdicts' = IF evaluations[i] = NoQuestion THEN verdicts
                       ELSE WithVerdict(q, rows[i].status)
        /\ evaluations' = [evaluations EXCEPT ![i] = NoQuestion]
        /\ pollers' = [pollers EXCEPT ![i] = Untracked]
        /\ pending' = IF evaluations[i] = NoQuestion THEN pending \ {q} ELSE pending

\* handleSubmissionResolution of a final status: the verdict counts when the row
\* is one the page waits for; the lock of its question is given up in any case.
Resolve(i) ==
    LET q == rows[i].question
    IN  /\ verdicts' = IF evaluations[i] = NoQuestion THEN verdicts
                       ELSE WithVerdict(q, rows[i].status)
        /\ evaluations' = [evaluations EXCEPT ![i] = NoQuestion]
        /\ pollers' = [pollers EXCEPT ![i] = Untracked]
        /\ pending' = pending \ {q}

\* socket.onmessage; a message that comes after the row was polled is handled
\* again, as is the answer to a poll that the message overtook.
HearPush(i) ==
    /\ i \in pushed
    /\ pushed' = pushed \ {i}
    /\ Resolve(i)
    /\ UNCHANGED <<rows, page, active, requests, countVars, historyVars>>

LosePush(i) ==
    /\ i \in pushed
    /\ Fault
    /\ pushed' = pushed \ {i}
    /\ UNCHANGED <<rows, page, active, verdicts, lockVars, requests, historyVars>>

PollAnswered(i) ==
    /\ pollers[i] # Untracked
    /\ rows[i].status # "PENDING"
    /\ Resolve(i)
    /\ UNCHANGED <<serverVars, page, active, requests, countVars, historyVars>>

\* Mutant: one poll too many.
PollAgainOnce(i) ==
    /\ pollers[i] # Untracked
    /\ pollers[i] + 1 <= MaxPolls
    /\ rows[i].status = "PENDING"
    /\ pollers' = [pollers EXCEPT ![i] = @ + 1]
    /\ UNCHANGED <<serverVars, page, active, verdicts, pending, evaluations, requests,
                   countVars, historyVars>>

\* Still PENDING, or not answered with a row.
PollAgain(i) ==
    /\ pollers[i] # Untracked
    /\ pollers[i] + 1 < MaxPolls
    /\ rows[i].status = "PENDING"
    /\ pollers' = [pollers EXCEPT ![i] = @ + 1]
    /\ UNCHANGED <<serverVars, page, active, verdicts, pending, evaluations, requests,
                   countVars, historyVars>>

\* ... at the last poll: the page shows an error and gives the lock up.
PollGivesUp(i) ==
    LET q == evaluations[i]
    IN  /\ pollers[i] + 1 = MaxPolls
        /\ rows[i].status = "PENDING"
        /\ pollers' = [pollers EXCEPT ![i] = Untracked]
        /\ evaluations' = [evaluations EXCEPT ![i] = NoQuestion]
        /\ pending' = pending \ {q}
        /\ verdicts' = IF q = NoQuestion THEN verdicts ELSE WithVerdict(q, "ERROR")
        /\ UNCHANGED <<serverVars, page, active, requests, countVars, historyVars>>

\* The network fails: the last poll then ends the polling and nothing else.
PollRaises(i) ==
    /\ pollers[i] # Untracked
    /\ Fault
    /\ pollers' = [pollers EXCEPT ![i] = IF @ + 1 < MaxPolls THEN @ + 1 ELSE Untracked]
    /\ UNCHANGED <<serverVars, page, active, verdicts, pending, evaluations, requests, historyVars>>

-----------------------------------------------------------------------------

Serves(r) == Accept(r) \/ Throttle(r)
Hears(r) ==
    \/ HearAccepted(r) \/ HearRefused(r) \/ HearThrottled(r)
    \/ RestoreAfterThrottle(r) \/ RestoreInVain(r)
Polls(i) == PollAnswered(i) \/ PollAgain(i) \/ PollGivesUp(i)

Next ==
    \/ Resume \/ Reload \/ Refresh \/ RestoreOnLoad
    \/ \E q \in Questions : OpenQuestion(q)
    \/ Press
    \/ \E r \in requests : Send(r) \/ Serves(r) \/ AnswerLost(r) \/ Hears(r)
    \/ \E i \in DOMAIN rows :
          Judge(i) \/ HearPush(i) \/ LosePush(i) \/ Polls(i) \/ PollRaises(i)

Spec == Init /\ [][Next]_vars

\* The browser loads the page, refreshes the room, polls, and its requests are
\* answered; what the server pushes comes, unless it is lost.  The judge need not
\* come to an end.
Fairness ==
    /\ WF_vars(Resume) /\ WF_vars(RestoreOnLoad) /\ WF_vars(Refresh)
    /\ \A n \in Ids :
        /\ WF_vars(\E r \in requests : r.id = n /\ (Send(r) \/ Serves(r) \/ Hears(r)))
        /\ WF_vars(n \in DOMAIN rows /\ Polls(n))
        /\ WF_vars(n \in DOMAIN rows /\ HearPush(n))

FairSpec == Spec /\ Fairness

-----------------------------------------------------------------------------

\* A card that says "Solved" belongs to a question with a PASSED row, whatever
\* comes late, twice or for another question than the open one.  The exception
\* is a 429 heard after another question was opened: that one gets the earlier
\* verdict of the question Submit was pressed on (workspace.html:2169).
SolvedIsReal ==
    \A q \in Questions : verdicts[q] = "PASSED" => Solved(q) \/ q \in misplaced

\* A solved question stays solved on the page, through late errors, timeouts and
\* repeated attempts, and is solved again when the page has been loaded again
\* ("participant state restoration after reconnect", README.md).
SolvedStaysShown ==
    [][page' # "loading" =>
          \A q \in Questions :
              (IF page = "loading" THEN Solved(q) ELSE verdicts[q] = "PASSED")
                  => verdicts'[q] = "PASSED"]_<<page, verdicts>>

\* While the page waits for a row and no handler is at work, the row's question
\* keeps the Submit button locked, also when the page has been loaded again.
\* Websocket messages and polls of an earlier row of the same question open the lock
\* (line 1561 of workspace.html), and so do a request whose answer is lost, which
\* shows an error, and a handler that comes back to another question than it left.
\* After a 429 the latest pending row alone gets its lock back (line 1503): when it
\* is another question's, the row that is waited for stays without.
LockedWhileJudged ==
    strayed = {} /\ requests = {} =>
        \A i \in DOMAIN rows :
            pollers[i] # Untracked /\ rows[i].status = "PENDING" =>
                \/ rows[i].question \in pending
                \/ verdicts[rows[i].question] = "ERROR"
                \/ \E k \in DOMAIN rows : rows[k].question = rows[i].question
                                          /\ rows[k].status # "PENDING"
                \/ rows[i].question \in overlooked

\* The last poll of a row raised: the page waits for it and no longer asks.
Abandoned(q) == \E i \in Ids : evaluations[i] = q /\ pollers[i] = Untracked

\* The student left q while its request was on its way, or q was sent the code of
\* a question that was left so: the handler then gives up the lock of another one.
Entangled(q) ==
    q \in strayed \/ \E i \in DOMAIN rows : rows[i].question = q /\ rows[i].writtenFor \in strayed

\* The Submit button is given free again though the judge may never answer.  The
\* code has two exceptions: a question left while its request was on its way, and
\* a row whose last poll raised (workspace.html:1628).
EventuallyUnlocked ==
    \A q \in Questions :
        q \in pending ~> (q \notin pending \/ Entangled(q) \/ Abandoned(q))

\* A question that was solved is in the end shown as solved, also when the page
\* had given up on the row, had shown an error for it or was not there.
EventuallyShown == \A q \in Questions : Solved(q) ~> (verdicts[q] = "PASSED")
=============================================================================
