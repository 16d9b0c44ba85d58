-------------------------- MODULE WorkspaceProofs --------------------------
(***************************************************************************)
(* The theorems about Workspace, for any set of questions and any number of *)
(* polls, submissions, faults and reloads.                                  *)
(***************************************************************************)
EXTENDS Workspace, FiniteSetTheorems, WellFoundedInduction, TLAPS

-----------------------------------------------------------------------------
(* The invariants.                                                          *)

\* Whoever waits for the server may have left the page; every other handler has a
\* question open before it, and none is sent without one.
RequestsInv ==
    \A r \in requests :
        /\ r.listening \/ r.stage = "sent"
        /\ r.listening => active \in Questions
        /\ r.stage # "snapshot" => r.asked \in Questions

\* What is pushed has been decided.
PushedInv == \A i \in pushed : rows[i].status # "PENDING"

TypeInv ==
    /\ TypeOK
    /\ submits \in Nat /\ troubles \in Nat
    /\ RequestsInv
    /\ PushedInv

Explained(q) == Solved(q) \/ q \in misplaced

\* A "Solved" on a card is explained, and so is one that a handler remembers.
SolvedInv ==
    /\ SolvedIsReal
    /\ \A r \in requests : r.listening /\ r.previous = "PASSED" => Explained(r.question)

\* The handlers whose row is still to come; none is started beyond the bound.
Waiting == {r \in requests : r.stage \in {"snapshot", "sent"}}

CountInv ==
    /\ IsFiniteSet(requests)
    /\ Len(rows) + Cardinality(Waiting) <= submits
    /\ submits <= MaxSubmits

Judged(q) == \E k \in DOMAIN rows : rows[k].question = q /\ rows[k].status # "PENDING"

\* What LockedWhileJudged says of a question.
Accounted(q) ==
    q \in pending \/ verdicts[q] = "ERROR" \/ Judged(q) \/ q \in overlooked

\* A handler has given up the lock after a 429 and is about to take one again.
Restoring(q) ==
    \E r \in requests : r.listening /\ r.stage = "restoring" /\ r.question = q

Held(q) == Accounted(q) \/ Restoring(q)

\* A page that is being loaded waits for nothing.
LoadingInv ==
    page = "loading" =>
        /\ \A r \in requests : ~r.listening
        /\ \A i \in Ids : evaluations[i] = NoQuestion /\ pollers[i] = Untracked

\* As long as no question was left while its request was on its way, every handler
\* is at work for the question that is open.
HandlersInv ==
    \A r \in requests :
        r.listening =>
            /\ r.question = active
            /\ r.stage # "snapshot" => r.asked = r.question
            /\ r.stage = "accepted" => r.row \in DOMAIN rows /\ rows[r.row].question = r.question
            /\ Held(r.question)

\* What the page remembers of a row is the row's question, and a row that is polled
\* and not decided has the lock, or a handler that will see to it.
TrackedInv ==
    \A i \in Ids :
        /\ evaluations[i] # NoQuestion => i \in DOMAIN rows /\ rows[i].question = evaluations[i]
        /\ pollers[i] # Untracked => evaluations[i] # NoQuestion
        /\ \A q \in Questions :
              pollers[i] # Untracked /\ rows[i].status = "PENDING" /\ rows[i].question = q => Held(q)

LockInv ==
    /\ LoadingInv
    /\ strayed = {} => misplaced = {} /\ HandlersInv /\ TrackedInv

-----------------------------------------------------------------------------
(* Lemmas about the operators.                                              *)

LEMMA Constants ==
    /\ NoQuestion \notin Questions
    /\ MaxPolls \in Nat \ {0}
    /\ MaxSubmits \in Nat
    /\ MaxTroubles \in Nat
BY WorkspaceAssumption DEF WorkspaceAssumption

LEMMA WithVerdictShows ==
    ASSUME verdicts \in [Questions -> Shown], NEW q, NEW v \in Shown
    PROVE  /\ WithVerdict(q, v) \in [Questions -> Shown]
           /\ \A p \in Questions :
                 WithVerdict(q, v)[p] =
                     IF p = q /\ verdicts[p] # "PASSED" THEN v ELSE verdicts[p]
BY DEF WithVerdict

LEMMA WithSolvedShows ==
    ASSUME NEW shown \in [Questions -> Shown]
    PROVE  /\ WithSolved(shown) \in [Questions -> Shown]
           /\ \A p \in Questions :
                 WithSolved(shown)[p] = IF Solved(p) THEN "PASSED" ELSE shown[p]
BY DEF WithSolved, Shown, Final

LEMMA RequestMoves ==
    ASSUME NEW r \in Request, NEW q \in Questions \cup {NoQuestion}, NEW n \in Nat,
           NEW s \in {"snapshot", "sent", "accepted", "refused", "throttled", "restoring"}
    PROVE  /\ [r EXCEPT !.stage = s] \in Request
           /\ [r EXCEPT !.stage = s, !.asked = q] \in Request
           /\ [r EXCEPT !.stage = s, !.row = n] \in Request
           /\ [r EXCEPT !.listening = FALSE] \in Request
BY DEF Request

\* A set of positions of a sequence has a last one.
LEMMA LastOfRange ==
    ASSUME NEW n \in Nat, NEW S, S \subseteq 1..n, S # {}
    PROVE  \E i \in S : \A k \in S : k <= i
PROOF
<1> DEFINE R == OpToRel(<, Nat)
           T == {n - i : i \in S}
<1>1. IsWellFoundedOn(R, Nat)  BY NatLessThanWellFounded
<1>2. T \subseteq Nat /\ T # {}
  <2> HIDE DEF R
  <2>1. \A i \in 1..n : n - i \in Nat  OBVIOUS
  <2>2. T # {}  OBVIOUS
  <2> QED  BY <2>1, <2>2
<1>3. PICK x \in T : \A y \in T : <<y, x>> \notin R
  <2> HIDE DEF R, T
  <2> QED  BY <1>1, <1>2, WFMin
<1>4. \A y \in T : ~(y < x)  BY <1>2, <1>3 DEF OpToRel
<1>5. PICK i \in S : x = n - i  OBVIOUS
<1>6. ASSUME NEW k \in S PROVE k <= i
  <2>1. n - k \in T /\ i \in 1..n /\ k \in 1..n  OBVIOUS
  <2>2. ~(n - k < n - i)  BY <1>4, <1>5, <2>1
  <2> QED  BY <2>1, <2>2
<1> QED  BY <1>6

\* The latest of the rows that wait exists: rows are numbered.
LEMMA LatestIsPending ==
    ASSUME rows \in Seq(Row), PendingRows # {}
    PROVE  /\ LatestPending \in DOMAIN rows
           /\ rows[LatestPending].status = "PENDING"
           /\ rows[LatestPending].question \in Questions
PROOF
<1>1. DOMAIN rows = 1..Len(rows) /\ Len(rows) \in Nat  OBVIOUS
<1>2. PendingRows \subseteq 1..Len(rows)  BY <1>1 DEF PendingRows
<1>3. \E i \in PendingRows : \A k \in PendingRows : k <= i
  BY <1>1, <1>2, LastOfRange
<1>4. LatestPending \in PendingRows  BY <1>3 DEF LatestPending
<1>5. rows[LatestPending] \in Row  BY <1>1, <1>2, <1>4
<1> QED  BY <1>4, <1>5 DEF PendingRows, Row

-----------------------------------------------------------------------------
(* Types.                                                                   *)

\* The handlers that wait, when one of them goes on or ends.
LEMMA RequestsStay ==
    ASSUME TypeInv, NEW r \in requests, active' = active,
           \/ Ends(r)
           \/ \E next \in Request :
                /\ Becomes(r, next)
                /\ next.listening = r.listening
                /\ next.stage # "snapshot"
                /\ next.listening \/ next.stage = "sent"
                /\ next.asked \in Questions
    PROVE  requests' \subseteq Request /\ RequestsInv'
BY DEF TypeInv, TypeOK, RequestsInv, Ends, Becomes

LEMMA AnswerStays ==
    ASSUME TypeInv, NEW r \in requests, r.stage = "sent", active' = active,
           NEW s \in {"accepted", "refused", "throttled"}, NEW n \in Nat, Answers(r, s, n)
    PROVE  requests' \subseteq Request /\ RequestsInv'
PROOF
<1> DEFINE next == [r EXCEPT !.stage = s, !.row = n]
<1>1. r \in Request /\ r.asked \in Questions  BY DEF TypeInv, TypeOK, RequestsInv
<1>2. next \in Request  BY <1>1, RequestMoves
<1>3. next.listening = r.listening /\ next.stage = s /\ next.asked = r.asked  BY <1>1 DEF Request
<1>4. CASE r.listening
  <2>1. Becomes(r, next)  BY <1>4 DEF Answers
  <2> HIDE DEF next
  <2> QED  BY <1>1, <1>2, <1>3, <1>4, <2>1, RequestsStay
<1>5. CASE ~r.listening  BY <1>5, RequestsStay DEF Answers
<1> QED  BY <1>4, <1>5

\* A row that waits is added.
LEMMA RowsGrow ==
    ASSUME TypeInv, NEW r \in requests, r.stage = "sent", Stores(r) \/ UNCHANGED rows
    PROVE  /\ rows' \in Seq(Row)
           /\ Len(rows) <= Len(rows')
           /\ \A i \in DOMAIN rows : i \in DOMAIN rows' /\ rows'[i] = rows[i]
           /\ \A i \in DOMAIN rows' \ DOMAIN rows :
                 i = Len(rows) + 1 /\ rows'[i].status = "PENDING" /\ rows'[i].question = r.asked
PROOF
<1>1. r \in Request /\ r.asked \in Questions /\ rows \in Seq(Row)
  BY DEF TypeInv, TypeOK, RequestsInv
<1>2. CASE UNCHANGED rows  BY <1>1, <1>2
<1>3. CASE Stores(r)
  <2> DEFINE row == [question |-> r.asked, writtenFor |-> r.question, status |-> "PENDING"]
  <2>1. row \in Row /\ row.status = "PENDING" /\ row.question = r.asked
    BY <1>1 DEF Row, Request
  <2>2. rows' = Append(rows, row)  BY <1>3 DEF Stores
  <2> HIDE DEF row
  <2> QED  BY <1>1, <2>1, <2>2
<1> QED  BY <1>2, <1>3

\* Handling a verdict, whoever brings it.
LEMMA ResolveTyped ==
    ASSUME TypeInv, NEW i \in DOMAIN rows, rows[i].status # "PENDING", Resolve(i)
    PROVE  /\ verdicts' \in [Questions -> Shown]
           /\ pending' \subseteq Questions
           /\ evaluations' \in [Ids -> Questions \cup {NoQuestion}]
           /\ pollers' \in [Ids -> {Untracked} \cup 0..(MaxPolls - 1)]
PROOF
<1>1. rows[i] \in Row  BY DEF TypeInv, TypeOK
<1>2. rows[i].status \in Shown /\ rows[i].question \in Questions  BY <1>1 DEF Row, Shown
<1>3. WithVerdict(rows[i].question, rows[i].status) \in [Questions -> Shown]
  BY <1>2, WithVerdictShows DEF TypeInv, TypeOK
<1> QED  BY <1>2, <1>3 DEF Resolve, TypeInv, TypeOK

LEMMA LockForTyped ==
    ASSUME TypeInv, PendingRows # {}, LockFor(LatestPending)
    PROVE  /\ pending' \subseteq Questions
           /\ evaluations' \in [Ids -> Questions \cup {NoQuestion}]
           /\ pollers' \in [Ids -> {Untracked} \cup 0..(MaxPolls - 1)]
PROOF
<1>1. rows[LatestPending].question \in Questions  BY LatestIsPending DEF TypeInv, TypeOK
<1> DEFINE i == LatestPending
<1>2. pollers \in [Ids -> {Untracked} \cup 0..(MaxPolls - 1)]
      /\ evaluations \in [Ids -> Questions \cup {NoQuestion}] /\ pending \subseteq Questions
  BY DEF TypeInv, TypeOK
<1>3. 0 \in 0..(MaxPolls - 1)  BY Constants
<1> HIDE DEF i
<1>4. pollers' = [pollers EXCEPT ![i] = IF @ = Untracked THEN 0 ELSE @]
      /\ evaluations' = [evaluations EXCEPT ![i] = rows[i].question]
      /\ pending' = pending \cup {rows[i].question}
  BY DEF LockFor, i
<1>5. rows[i].question \in Questions  BY <1>1 DEF i
<1> QED  BY <1>2, <1>3, <1>4, <1>5

\* What the polls and messages leave alone, and the page that they find.
LEMMA VerdictsStay ==
    ASSUME TypeInv, rows' = rows, pushed' \subseteq pushed,
           UNCHANGED <<page, active, requests, submits, historyVars>>, troubles' \in Nat,
           /\ verdicts' \in [Questions -> Shown]
           /\ pending' \subseteq Questions
           /\ evaluations' \in [Ids -> Questions \cup {NoQuestion}]
           /\ pollers' \in [Ids -> {Untracked} \cup 0..(MaxPolls - 1)]
    PROVE  TypeInv'
BY DEF TypeInv, TypeOK, RequestsInv, PushedInv, historyVars

LEMMA FaultCounts ==
    ASSUME TypeInv, Fault
    PROVE  troubles' \in Nat /\ submits' = submits
BY DEF TypeInv, Fault

LEMMA PageTyped ==
    ASSUME TypeInv,
           Resume \/ Reload \/ Refresh \/ RestoreOnLoad \/ \E q \in Questions : OpenQuestion(q)
    PROVE  TypeInv'
PROOF
<1>1. CASE Resume
  <2>1. [q \in Questions |-> "none"] \in [Questions -> Shown]  BY DEF Shown
  <2>2. verdicts' \in [Questions -> Shown]  BY <1>1, <2>1, WithSolvedShows DEF Resume
  <2> QED  BY <1>1, <2>2
           DEF Resume, TypeInv, TypeOK, RequestsInv, PushedInv, serverVars, lockVars, countVars, historyVars
<1>2. CASE Reload
  <2>1. [q \in Questions |-> "none"] \in [Questions -> Shown]  BY DEF Shown
  <2>2. \A r \in requests : [r EXCEPT !.listening = FALSE] \in Request  BY RequestMoves DEF TypeInv, TypeOK
  <2>3. requests' \subseteq Request  BY <1>2, <2>2 DEF Reload
  <2>4. \A r \in requests : r \in Request  BY DEF TypeInv, TypeOK
  <2>5. RequestsInv'
    <3> SUFFICES ASSUME NEW r \in requests, r.stage = "sent"
                 PROVE  LET s == [r EXCEPT !.listening = FALSE]
                        IN  /\ s.listening \/ s.stage = "sent"
                            /\ s.listening => active' \in Questions
                            /\ s.stage # "snapshot" => s.asked \in Questions
      BY <1>2 DEF Reload, RequestsInv
    <3>1. r \in Request /\ r.asked \in Questions  BY <2>4 DEF TypeInv, RequestsInv
    <3> QED  BY <3>1 DEF Request
  <2>6. PushedInv' /\ rows' = rows /\ pushed' = {}  BY <1>2 DEF Reload, PushedInv
  <2>7. troubles' \in Nat /\ submits' = submits  BY <1>2, FaultCounts DEF Reload
  <2>8. Blank /\ UNCHANGED strayed /\ misplaced' = {} /\ overlooked' = {}  BY <1>2 DEF Reload
  <2>9. pollers' \in [Ids -> {Untracked} \cup 0..(MaxPolls - 1)]  BY <2>8 DEF Blank
  <2> QED  BY <2>1, <2>3, <2>5, <2>6, <2>7, <2>8, <2>9 DEF Blank, TypeInv, TypeOK
<1>3. CASE Refresh
  <2>1. verdicts' \in [Questions -> Shown]  BY <1>3, WithSolvedShows DEF Refresh, TypeInv, TypeOK
  <2> QED  BY <1>3, <2>1
           DEF Refresh, TypeInv, TypeOK, RequestsInv, PushedInv, serverVars, lockVars, countVars, historyVars
<1>4. CASE RestoreOnLoad
  <2>1. /\ pending' \subseteq Questions
        /\ evaluations' \in [Ids -> Questions \cup {NoQuestion}]
        /\ pollers' \in [Ids -> {Untracked} \cup 0..(MaxPolls - 1)]
        /\ troubles' \in Nat /\ submits' = submits
    <3>1. CASE PendingRows # {} /\ LockFor(LatestPending) /\ UNCHANGED countVars
      BY <3>1, LockForTyped DEF countVars, TypeInv
    <3>2. CASE UNCHANGED lockVars /\ (UNCHANGED countVars \/ Fault)
      BY <3>2, FaultCounts DEF countVars, TypeInv, TypeOK, lockVars
    <3> QED  BY <1>4, <3>1, <3>2 DEF RestoreOnLoad, lockVars, countVars
  <2>2. UNCHANGED <<serverVars, active, verdicts, requests, historyVars>> /\ page' = "ready"
    BY <1>4 DEF RestoreOnLoad
  <2> QED  BY <2>1, <2>2 DEF TypeInv, TypeOK, RequestsInv, PushedInv, serverVars, historyVars
<1>5. ASSUME NEW q \in Questions, OpenQuestion(q) PROVE TypeInv'
  <2>1. {r.question : r \in {r \in requests : r.listening}} \subseteq Questions
    BY DEF TypeInv, TypeOK, Request
  <2>2. strayed' \subseteq Questions  BY <1>5, <2>1 DEF OpenQuestion, TypeInv, TypeOK
  <2>3. active' = q
        /\ UNCHANGED <<serverVars, page, verdicts, lockVars, requests, countVars, misplaced, overlooked>>
    BY <1>5 DEF OpenQuestion
  <2> QED  BY <2>2, <2>3 DEF TypeInv, TypeOK, RequestsInv, PushedInv, serverVars, lockVars, countVars
<1> QED  BY <1>1, <1>2, <1>3, <1>4, <1>5

LEMMA PressTyped ==
    ASSUME TypeInv, Press
    PROVE  TypeInv'
PROOF
<1> DEFINE new == [id |-> submits', question |-> active, previous |-> verdicts[active],
                   listening |-> TRUE, stage |-> "snapshot", asked |-> NoQuestion, row |-> 0]
<1>1. active \in Questions /\ submits' \in Nat  BY DEF Press, TypeInv, TypeOK
<1>2. verdicts[active] \in Shown  BY <1>1 DEF TypeInv, TypeOK
<1>3. new \in Request /\ new.listening /\ new.stage = "snapshot"  BY <1>1, <1>2 DEF Request
<1>4. requests' = requests \cup {new}  BY DEF Press
<1>5. verdicts' \in [Questions -> Shown]
  BY <1>1, WithVerdictShows DEF Press, TypeInv, TypeOK, Shown
<1> HIDE DEF new
<1>6. requests' \subseteq Request /\ RequestsInv'
  BY <1>1, <1>3, <1>4 DEF TypeInv, TypeOK, RequestsInv, Press
<1> QED  BY <1>1, <1>5, <1>6
         DEF Press, TypeInv, TypeOK, PushedInv, serverVars, historyVars

\* Sending and its answer.
LEMMA SendTyped ==
    ASSUME TypeInv, NEW r \in requests, Send(r) \/ Serves(r) \/ AnswerLost(r)
    PROVE  TypeInv'
PROOF
<1>1. r \in Request  BY DEF TypeInv, TypeOK
<1>2. Len(rows) + 1 \in Nat  BY DEF TypeInv, TypeOK
<1>3. CASE Send(r)
  <2> DEFINE next == [r EXCEPT !.stage = "sent", !.asked = active]
  <2>1. r.listening /\ active \in Questions  BY <1>3 DEF Send, TypeInv, RequestsInv
  <2>2. next \in Request  BY <1>1, <2>1, RequestMoves
  <2>3. next.listening = r.listening /\ next.stage = "sent" /\ next.asked = active
    BY <1>1 DEF Request
  <2>4. Becomes(r, next)  BY <1>3 DEF Send
  <2>5. UNCHANGED <<serverVars, page, active, verdicts, lockVars, countVars, historyVars>>
    BY <1>3 DEF Send
  <2> HIDE DEF next
  <2>6. requests' \subseteq Request /\ RequestsInv'  BY <2>1, <2>2, <2>3, <2>4, <2>5, RequestsStay
  <2> QED  BY <2>5, <2>6
           DEF TypeInv, TypeOK, PushedInv, serverVars, lockVars, countVars, historyVars
<1>4. CASE Serves(r) \/ AnswerLost(r)
  <2>1. r.stage = "sent" /\ (Stores(r) \/ UNCHANGED rows)
        /\ UNCHANGED <<pushed, page, active, verdicts, lockVars, submits, historyVars>>
        /\ \/ Answers(r, "accepted", Len(rows) + 1) \/ Answers(r, "throttled", 0)
           \/ Answers(r, "refused", 0)
    BY <1>4 DEF Serves, Accept, Throttle, AnswerLost, Fault, countVars, serverVars
  <2>2. troubles' \in Nat
    BY <1>4, FaultCounts DEF Serves, Accept, Throttle, AnswerLost, countVars, TypeInv
  <2>3. requests' \subseteq Request /\ RequestsInv'  BY <1>2, <2>1, AnswerStays
  <2>4. /\ rows' \in Seq(Row)
        /\ \A i \in DOMAIN rows : i \in DOMAIN rows' /\ rows'[i] = rows[i]
    BY <2>1, RowsGrow
  <2>5. pushed' \subseteq DOMAIN rows' /\ PushedInv'
    BY <2>1, <2>4 DEF TypeInv, TypeOK, PushedInv
  <2> QED  BY <2>1, <2>2, <2>3, <2>4, <2>5 DEF TypeInv, TypeOK, lockVars, historyVars
<1> QED  BY <1>3, <1>4

\* The handlers that are answered.
LEMMA HearTyped ==
    ASSUME TypeInv, NEW r \in requests, Hears(r)
    PROVE  TypeInv'
PROOF
<1>1. r \in Request  BY DEF TypeInv, TypeOK
<1>2. active \in Questions
  BY DEF Hears, HearAccepted, HearRefused, HearThrottled, RestoreAfterThrottle, RestoreInVain,
         TypeInv, RequestsInv
<1>3. r.previous \in Shown /\ "ERROR" \in Shown  BY <1>1 DEF Request, Shown
<1>4. UNCHANGED <<serverVars, page, active, submits, strayed>>
  BY DEF Hears, HearAccepted, HearRefused, HearThrottled, RestoreAfterThrottle, RestoreInVain,
         Fault, countVars, historyVars
<1>5. requests' \subseteq Request /\ RequestsInv'
  <2>1. CASE HearThrottled(r)
    <3> DEFINE next == [r EXCEPT !.stage = "restoring"]
    <3>1. r.listening /\ r.asked \in Questions  BY <2>1 DEF HearThrottled, TypeInv, RequestsInv
    <3>2. next \in Request  BY <1>1, RequestMoves
    <3>3. next.listening = r.listening /\ next.stage = "restoring" /\ next.asked = r.asked
      BY <1>1 DEF Request
    <3>4. Becomes(r, next)  BY <2>1 DEF HearThrottled
    <3> HIDE DEF next
    <3> QED  BY <1>4, <3>1, <3>2, <3>3, <3>4, RequestsStay
  <2>2. CASE ~HearThrottled(r)
    <3>1. Ends(r)
      BY <2>2 DEF Hears, HearAccepted, HearRefused, RestoreAfterThrottle, RestoreInVain
    <3> QED  BY <1>4, <3>1, RequestsStay
  <2> QED  BY <2>1, <2>2
<1>6. troubles' \in Nat
  BY FaultCounts DEF Hears, HearAccepted, HearRefused, HearThrottled, RestoreAfterThrottle,
                     RestoreInVain, countVars, TypeInv
<1>7. misplaced' \subseteq Questions /\ overlooked' \subseteq Questions
  BY <1>2 DEF Hears, HearAccepted, HearRefused, HearThrottled, RestoreAfterThrottle,
              RestoreInVain, historyVars, TypeInv, TypeOK
<1>8. verdicts' \in [Questions -> Shown]
  BY <1>3, WithVerdictShows
  DEF Hears, HearAccepted, HearRefused, HearThrottled, RestoreAfterThrottle, RestoreInVain,
      TypeInv, TypeOK
<1>9. /\ pending' \subseteq Questions
      /\ evaluations' \in [Ids -> Questions \cup {NoQuestion}]
      /\ pollers' \in [Ids -> {Untracked} \cup 0..(MaxPolls - 1)]
  <2>1. CASE RestoreAfterThrottle(r)  BY <2>1, LockForTyped DEF RestoreAfterThrottle
  <2>2. CASE HearAccepted(r)
    <3>1. 0 \in 0..(MaxPolls - 1)  BY Constants
    <3> QED  BY <1>2, <2>2, <3>1 DEF HearAccepted, TypeInv, TypeOK
  <2>3. CASE HearRefused(r) \/ HearThrottled(r) \/ RestoreInVain(r)
    BY <2>3 DEF HearRefused, HearThrottled, RestoreInVain, TypeInv, TypeOK, lockVars
  <2> QED  BY <2>1, <2>2, <2>3 DEF Hears
<1> QED  BY <1>4, <1>5, <1>6, <1>7, <1>8, <1>9 DEF TypeInv, TypeOK, PushedInv, serverVars

\* Verdicts and polls.
LEMMA VerdictTyped ==
    ASSUME TypeInv, NEW i \in DOMAIN rows,
           Judge(i) \/ HearPush(i) \/ LosePush(i) \/ Polls(i) \/ PollRaises(i)
    PROVE  TypeInv'
PROOF
<1>1. CASE Judge(i)
  <2>1. PICK v \in Final : rows' = [rows EXCEPT ![i].status = v]  BY <1>1 DEF Judge
  <2>2. rows \in Seq(Row) /\ rows[i] \in Row  BY DEF TypeInv, TypeOK
  <2> DEFINE row == [rows[i] EXCEPT !.status = v]
  <2>3. row \in Row /\ row.status = v  BY <2>2 DEF Row
  <2>4. rows' = [rows EXCEPT ![i] = row]  BY <2>1
  <2> HIDE DEF row
  <2>5. rows' \in Seq(Row) /\ DOMAIN rows' = DOMAIN rows
        /\ \A k \in DOMAIN rows : rows'[k] = IF k = i THEN row ELSE rows[k]
    BY <2>2, <2>3, <2>4
  <2>6. v # "PENDING"  BY DEF Final
  <2>7. pushed' \subseteq DOMAIN rows' /\ PushedInv'
    BY <1>1, <2>3, <2>5, <2>6 DEF Judge, TypeInv, TypeOK, PushedInv
  <2> QED  BY <1>1, <2>5, <2>7
           DEF Judge, TypeInv, TypeOK, RequestsInv, lockVars, countVars, historyVars
<1>2. CASE HearPush(i)
  <2>1. rows[i].status # "PENDING"  BY <1>2 DEF HearPush, TypeInv, PushedInv
  <2> QED  BY <1>2, <2>1, ResolveTyped, VerdictsStay DEF HearPush, countVars, TypeInv
<1>3. CASE LosePush(i)
  BY <1>3, FaultCounts, VerdictsStay DEF LosePush, lockVars, TypeInv, TypeOK
<1>4. CASE PollAnswered(i)
  BY <1>4, ResolveTyped, VerdictsStay DEF PollAnswered, serverVars, countVars, TypeInv
<1> DEFINE Beats == {Untracked} \cup 0..(MaxPolls - 1)
<1>5. \A n \in Beats : n # Untracked /\ n + 1 < MaxPolls => n + 1 \in Beats
  BY Constants DEF Untracked
<1>6. pollers \in [Ids -> Beats] /\ Untracked \in Beats  BY DEF TypeInv, TypeOK
<1> HIDE DEF Beats
<1>7. CASE PollAgain(i)
  <2>1. pollers' \in [Ids -> Beats]  BY <1>5, <1>6, <1>7 DEF PollAgain
  <2> QED  BY <1>7, <2>1, VerdictsStay DEF PollAgain, serverVars, countVars, TypeInv, TypeOK, Beats
<1>8. CASE PollRaises(i)
  <2>1. pollers' \in [Ids -> Beats]  BY <1>5, <1>6, <1>8 DEF PollRaises
  <2> QED  BY <1>8, <2>1, FaultCounts, VerdictsStay DEF PollRaises, serverVars, TypeInv, TypeOK, Beats
<1>9. CASE PollGivesUp(i)
  <2>1. pollers' \in [Ids -> Beats]  BY <1>6, <1>9 DEF PollGivesUp
  <2>2. verdicts' \in [Questions -> Shown]
    BY <1>9, WithVerdictShows DEF PollGivesUp, TypeInv, TypeOK, Shown
  <2>3. /\ pending' \subseteq Questions
        /\ evaluations' \in [Ids -> Questions \cup {NoQuestion}]
        /\ UNCHANGED <<serverVars, page, active, requests, countVars, historyVars>>
    BY <1>9 DEF PollGivesUp, TypeInv, TypeOK
  <2> QED  BY <2>1, <2>2, <2>3, VerdictsStay DEF serverVars, countVars, TypeInv, Beats
<1> QED  BY <1>1, <1>2, <1>3, <1>4, <1>7, <1>8, <1>9 DEF Polls

LEMMA TypeStays == TypeInv /\ [Next]_vars => TypeInv'
PROOF
<1> SUFFICES ASSUME TypeInv, [Next]_vars PROVE TypeInv'  OBVIOUS
<1>1. CASE UNCHANGED vars
  BY <1>1 DEF vars, serverVars, lockVars, countVars, historyVars,
              TypeInv, TypeOK, RequestsInv, PushedInv
<1>2. CASE Resume \/ Reload \/ Refresh \/ RestoreOnLoad \/ \E q \in Questions : OpenQuestion(q)
  BY <1>2, PageTyped
<1>3. CASE Press  BY <1>3, PressTyped
<1>4. ASSUME NEW r \in requests, Send(r) \/ Serves(r) \/ AnswerLost(r) PROVE TypeInv'
  BY <1>4, SendTyped
<1>5. ASSUME NEW r \in requests, Hears(r) PROVE TypeInv'  BY <1>5, HearTyped
<1>6. ASSUME NEW i \in DOMAIN rows,
             Judge(i) \/ HearPush(i) \/ LosePush(i) \/ Polls(i) \/ PollRaises(i)
      PROVE  TypeInv'
  BY <1>6, VerdictTyped
<1> QED  BY <1>1, <1>2, <1>3, <1>4, <1>5, <1>6 DEF Next

LEMMA TypeStarts == Init => TypeInv
PROOF
<1>1. <<>> \in Seq(Row)  OBVIOUS
<1>2. \A q \in Questions : "none" \in Shown  BY DEF Shown
<1> QED  BY <1>1, <1>2 DEF Init, TypeInv, TypeOK, RequestsInv, PushedInv

LEMMA AlwaysTyped == Spec => []TypeInv
BY TypeStarts, TypeStays, PTL DEF Spec

\* Every variable keeps its type, whatever comes late or for a page that is gone.
\* Thus every handler that comes back finds a question open, and writes the card
\* of a question (submitBtnEl.onclick of workspace.html).
THEOREM TypeCorrect == Spec => []TypeOK
PROOF
<1>1. TypeInv => TypeOK  BY DEF TypeInv
<1> QED  BY <1>1, AlwaysTyped, PTL

-----------------------------------------------------------------------------
(* Solved is solved.                                                        *)

\* What was decided stays so.
LEMMA DecidedStays ==
    ASSUME TypeInv, [Next]_vars
    PROVE  /\ \A i \in DOMAIN rows :
                 /\ i \in DOMAIN rows' /\ rows'[i].question = rows[i].question
                 /\ rows[i].status # "PENDING" => rows'[i].status = rows[i].status
           /\ \A q \in Questions : Solved(q) => Solved(q)'
PROOF
<1>1. \A i \in DOMAIN rows :
         /\ i \in DOMAIN rows' /\ rows'[i].question = rows[i].question
         /\ rows[i].status # "PENDING" => rows'[i].status = rows[i].status
  <2>1. CASE UNCHANGED rows  BY <2>1
  <2>2. ASSUME NEW r \in requests, r.stage = "sent", Stores(r)
        PROVE  \A i \in DOMAIN rows : i \in DOMAIN rows' /\ rows'[i] = rows[i]
    BY <2>2, RowsGrow
  <2>3. ASSUME NEW i \in DOMAIN rows, Judge(i)
        PROVE  \A k \in DOMAIN rows :
                  /\ k \in DOMAIN rows' /\ rows'[k].question = rows[k].question
                  /\ rows[k].status # "PENDING" => rows'[k].status = rows[k].status
    <3>1. PICK v \in Final : rows' = [rows EXCEPT ![i].status = v]  BY <2>3 DEF Judge
    <3>2. rows[i] \in Row /\ rows \in Seq(Row)  BY DEF TypeInv, TypeOK
    <3>3. [rows[i] EXCEPT !.status = v].question = rows[i].question  BY <3>2 DEF Row
    <3> QED  BY <2>3, <3>1, <3>2, <3>3 DEF Judge
  <2>4. \/ UNCHANGED rows
        \/ \E r \in requests : r.stage = "sent" /\ Stores(r)
        \/ \E i \in DOMAIN rows : Judge(i)
    BY DEF Next, vars, serverVars, Resume, Reload, Refresh, RestoreOnLoad, OpenQuestion, Press,
           Send, Serves, Accept, Throttle, AnswerLost, Hears, HearAccepted, HearRefused,
           HearThrottled, RestoreAfterThrottle, RestoreInVain, HearPush, LosePush, Polls,
           PollAnswered, PollAgain, PollGivesUp, PollRaises
  <2> QED  BY <2>1, <2>2, <2>3, <2>4
<1>2. \A i \in DOMAIN rows : rows[i].status = "PASSED" => rows[i].status # "PENDING"  OBVIOUS
<1>3. ASSUME NEW q \in Questions, Solved(q) PROVE Solved(q)'
  <2>1. PICK i \in DOMAIN rows : rows[i].question = q /\ rows[i].status = "PASSED"
    BY <1>3 DEF Solved
  <2>2. i \in DOMAIN rows' /\ rows'[i].question = q /\ rows'[i].status = "PASSED"
    BY <1>1, <1>2, <2>1
  <2> QED  BY <2>2 DEF Solved
<1> QED  BY <1>1, <1>3

\* A step that writes no "Solved" on a card and no handler's memory.
LEMMA SolvedKept ==
    ASSUME TypeInv, SolvedInv, [Next]_vars, misplaced \subseteq misplaced',
           \A q \in Questions : verdicts'[q] = "PASSED" => verdicts[q] = "PASSED" \/ Explained(q)',
           \A r \in requests' : r.listening /\ r.previous = "PASSED" =>
                Explained(r.question)' \/ \E s \in requests : s.listening /\ s.previous = "PASSED" /\ s.question = r.question
    PROVE  SolvedInv'
PROOF
<1>1. \A q \in Questions : Explained(q) => Explained(q)'
  BY DecidedStays DEF Explained
<1>2. \A r \in requests : r.listening /\ r.previous = "PASSED" => Explained(r.question)
  BY DEF SolvedInv
<1>3. \A r \in requests : r.question \in Questions  BY DEF TypeInv, TypeOK, Request
<1>4. \A q \in Questions : verdicts[q] = "PASSED" => Explained(q)
  BY DEF SolvedInv, SolvedIsReal, Explained
<1>5. SolvedIsReal'  BY <1>1, <1>4 DEF SolvedIsReal, Explained
<1> QED  BY <1>1, <1>2, <1>3, <1>5 DEF SolvedInv

\* Sending, answering and hearing leave alone what a handler remembers.
LEMMA HandlersRemember ==
    ASSUME TypeInv, NEW r \in requests,
           Send(r) \/ Serves(r) \/ AnswerLost(r) \/ Hears(r)
    PROVE  \A x \in requests' :
              \E s \in requests : /\ s.listening = x.listening /\ s.question = x.question
                                  /\ s.previous = x.previous /\ s.id = x.id
PROOF
<1>1. r \in Request  BY DEF TypeInv, TypeOK
<1> DEFINE Like(x) == /\ r.listening = x.listening /\ r.question = x.question
                      /\ r.previous = x.previous /\ r.id = x.id
<1>2. Ends(r) \/ \E x : Becomes(r, x) /\ Like(x)
  <2>1. CASE Send(r)
    <3> DEFINE next == [r EXCEPT !.stage = "sent", !.asked = active]
    <3>1. Like(next)  BY <1>1 DEF Request
    <3> QED  BY <2>1, <3>1 DEF Send
  <2>2. ASSUME NEW s, NEW n, Answers(r, s, n)
        PROVE  Ends(r) \/ \E x : Becomes(r, x) /\ Like(x)
    <3> DEFINE next == [r EXCEPT !.stage = s, !.row = n]
    <3>1. Like(next)  BY <1>1 DEF Request
    <3> QED  BY <2>2, <3>1 DEF Answers
  <2>3. CASE Serves(r) \/ AnswerLost(r)
    BY <2>2, <2>3 DEF Serves, Accept, Throttle, AnswerLost
  <2>4. CASE HearThrottled(r)
    <3> DEFINE next == [r EXCEPT !.stage = "restoring"]
    <3>1. Like(next)  BY <1>1 DEF Request
    <3> QED  BY <2>4, <3>1 DEF HearThrottled
  <2>5. CASE Hears(r) /\ ~HearThrottled(r)
    BY <2>5 DEF Hears, HearAccepted, HearRefused, RestoreAfterThrottle, RestoreInVain
  <2> QED  BY <2>1, <2>3, <2>4, <2>5
<1> QED  BY <1>2 DEF Ends, Becomes

LEMMA SolvedStays == TypeInv /\ SolvedInv /\ [Next]_vars => SolvedInv'
PROOF
<1> SUFFICES ASSUME TypeInv, SolvedInv, [Next]_vars PROVE SolvedInv'  OBVIOUS
<1> DEFINE New(q) == verdicts'[q] = "PASSED" => verdicts[q] = "PASSED" \/ Explained(q)'
<1>1. CASE UNCHANGED vars
  BY <1>1, SolvedKept DEF vars, serverVars, historyVars
<1>2. CASE Resume \/ Refresh
  <2>1. [q \in Questions |-> "none"] \in [Questions -> Shown]  BY DEF Shown
  <2>2. \A q \in Questions : verdicts'[q] = "PASSED" => verdicts[q] = "PASSED" \/ Solved(q)
    BY <1>2, <2>1, WithSolvedShows DEF Resume, Refresh, TypeInv, TypeOK
  <2>3. UNCHANGED <<rows, requests, misplaced>>
    BY <1>2 DEF Resume, Refresh, serverVars, historyVars
  <2> QED  BY <2>2, <2>3, DecidedStays, SolvedKept DEF Explained
<1>3. CASE Reload
  <2>1. \A q \in Questions : verdicts'[q] = "none"  BY <1>3 DEF Reload, Blank
  <2>2. \A r \in requests' : ~r.listening  BY <1>3 DEF Reload, TypeInv, TypeOK, Request
  <2> QED  BY <2>1, <2>2 DEF SolvedInv, SolvedIsReal
<1>4. CASE RestoreOnLoad \/ \E q \in Questions : OpenQuestion(q)
  <2>1. UNCHANGED <<verdicts, requests, misplaced>>
    BY <1>4 DEF RestoreOnLoad, OpenQuestion, historyVars
  <2> QED  BY <2>1, SolvedKept
<1>5. CASE Press
  <2>1. active \in Questions  BY <1>5 DEF Press, TypeInv, TypeOK
  <2>2. \A q \in Questions : verdicts'[q] = "PASSED" => verdicts[q] = "PASSED"
    BY <1>5, WithVerdictShows DEF Press, TypeInv, TypeOK, Shown
  <2>3. \A q \in Questions : q = active /\ verdicts[q] = "PASSED" => Explained(q)'
    BY DecidedStays, <1>5 DEF SolvedInv, SolvedIsReal, Explained, Press, historyVars
  <2>4. \A x \in requests' : x \in requests \/ (x.question = active /\ x.previous = verdicts[active])
    BY <1>5 DEF Press
  <2>5. misplaced' = misplaced  BY <1>5 DEF Press, historyVars
  <2> QED  BY <2>1, <2>2, <2>3, <2>4, <2>5, SolvedKept DEF SolvedInv
<1>6. ASSUME NEW r \in requests, Send(r) \/ Serves(r) \/ AnswerLost(r) PROVE SolvedInv'
  <2>1. verdicts' = verdicts /\ misplaced' = misplaced
    BY <1>6 DEF Send, Serves, Accept, Throttle, AnswerLost, historyVars
  <2> QED  BY <1>6, <2>1, HandlersRemember, SolvedKept
<1>7. ASSUME NEW r \in requests, Hears(r) PROVE SolvedInv'
  <2>1. \A x \in requests' : x.listening /\ x.previous = "PASSED" =>
            \E s \in requests : s.listening /\ s.previous = "PASSED" /\ s.question = x.question
    BY <1>7, HandlersRemember
  <2>2. CASE HearAccepted(r) \/ HearThrottled(r)
    <3>1. verdicts' = verdicts /\ misplaced' = misplaced
      BY <2>2 DEF HearAccepted, HearThrottled, historyVars
    <3> QED  BY <2>1, <3>1, SolvedKept
  <2>3. CASE HearRefused(r) \/ RestoreInVain(r)
    <3>1. verdicts' = WithVerdict(active, "ERROR") /\ misplaced' = misplaced
      BY <2>3 DEF HearRefused, RestoreInVain, historyVars
    <3>2. \A q \in Questions : verdicts'[q] = "PASSED" => verdicts[q] = "PASSED"
      BY <3>1, WithVerdictShows DEF TypeInv, TypeOK, Shown
    <3> QED  BY <2>1, <3>1, <3>2, SolvedKept
  <2>4. CASE RestoreAfterThrottle(r)
    <3>1. r.listening /\ r.previous \in Shown /\ r.question \in Questions
      BY <2>4 DEF RestoreAfterThrottle, TypeInv, TypeOK, RequestsInv, Request
    <3>2. \A q \in Questions :
             verdicts'[q] = "PASSED" =>
                verdicts[q] = "PASSED" \/ (q = active /\ r.previous = "PASSED")
      BY <2>4, <3>1, WithVerdictShows DEF RestoreAfterThrottle, TypeInv, TypeOK
    <3>3. misplaced \subseteq misplaced' /\ (active # r.question => active \in misplaced')
      BY <2>4 DEF RestoreAfterThrottle
    <3>4. r.previous = "PASSED" => Explained(r.question)'
      BY <3>1, <3>3, DecidedStays DEF SolvedInv, Explained
    <3> QED  BY <2>1, <3>2, <3>3, <3>4, SolvedKept DEF Explained
  <2> QED  BY <1>7, <2>2, <2>3, <2>4 DEF Hears
<1>8. ASSUME NEW i \in DOMAIN rows,
             Judge(i) \/ HearPush(i) \/ LosePush(i) \/ Polls(i) \/ PollRaises(i)
      PROVE  SolvedInv'
  <2>1. requests' = requests /\ misplaced' = misplaced
    BY <1>8 DEF Judge, HearPush, LosePush, Polls, PollAnswered, PollAgain, PollGivesUp, PollRaises,
                historyVars
  <2>2. CASE verdicts' = verdicts  BY <2>1, <2>2, SolvedKept
  <2>3. CASE rows[i].status # "PENDING" /\ verdicts' = WithVerdict(rows[i].question, rows[i].status)
    <3>1. rows[i] \in Row  BY DEF TypeInv, TypeOK
    <3>2. rows[i].status \in Shown /\ rows[i].question \in Questions  BY <2>3, <3>1 DEF Row, Shown
    <3>3. \A q \in Questions :
             verdicts'[q] = "PASSED" => verdicts[q] = "PASSED" \/ Solved(q)
      BY <2>3, <3>2, WithVerdictShows DEF TypeInv, TypeOK, Solved
    <3> QED  BY <2>1, <3>3, DecidedStays, SolvedKept DEF Explained
  <2>4. CASE \E q : verdicts' = WithVerdict(q, "ERROR")
    <3>1. \A q \in Questions : verdicts'[q] = "PASSED" => verdicts[q] = "PASSED"
      BY <2>4, WithVerdictShows DEF TypeInv, TypeOK, Shown
    <3> QED  BY <2>1, <3>1, SolvedKept
  <2> QED
    BY <1>8, <2>2, <2>3, <2>4
    DEF Judge, HearPush, LosePush, Polls, PollAnswered, PollAgain, PollGivesUp, PollRaises, Resolve,
        TypeInv, PushedInv
<1> QED  BY <1>1, <1>2, <1>3, <1>4, <1>5, <1>6, <1>7, <1>8 DEF Next

LEMMA AlwaysSolved == Spec => [](TypeInv /\ SolvedInv)
PROOF
<1>1. Init => SolvedInv  BY DEF Init, SolvedInv, SolvedIsReal
<1> QED  BY <1>1, TypeStarts, TypeStays, SolvedStays, PTL DEF Spec

\* A card says "Solved" only of a question with a PASSED row, whatever verdicts,
\* polls and answers come late, twice or to another question than the open one;
\* what applyQuestionVerdict is given after a 429 is the exception the property
\* names.
THEOREM SolvedCardsAreReal == Spec => []SolvedIsReal
PROOF
<1>1. SolvedInv => SolvedIsReal  BY DEF SolvedInv
<1> QED  BY <1>1, AlwaysSolved, PTL

\* A solved question stays solved on the page, and is shown so again when the
\* page has been loaded anew: no handler replaces a PASSED, and renderExamMode
\* asks the server before anything else is shown.
THEOREM SolvedCardsStay == Spec => SolvedStaysShown
PROOF
<1>1. ASSUME TypeInv, [Next]_vars, page' # "loading", NEW q \in Questions,
             IF page = "loading" THEN Solved(q) ELSE verdicts[q] = "PASSED"
      PROVE  verdicts'[q] = "PASSED"
  <2>1. CASE Resume \/ Refresh
    <3>1. [p \in Questions |-> "none"] \in [Questions -> Shown]  BY DEF Shown
    <3> QED  BY <1>1, <2>1, <3>1, WithSolvedShows DEF Resume, Refresh, TypeInv, TypeOK
  <2>2. CASE Reload  BY <1>1, <2>2 DEF Reload, Blank
  <2>3. CASE ~Resume /\ ~Refresh /\ ~Reload
    <3>1. page # "loading"
      BY <1>1, <2>3 DEF Next, vars, RestoreOnLoad, OpenQuestion, Press, Send, Serves, Accept, Throttle,
         AnswerLost, Hears, HearAccepted, HearRefused, HearThrottled, RestoreAfterThrottle,
         RestoreInVain, Judge, HearPush, LosePush, Polls, PollAnswered, PollAgain, PollGivesUp,
         PollRaises
    <3>2. verdicts' = verdicts \/ \E p, v : verdicts' = WithVerdict(p, v)
      BY <1>1, <2>3 DEF Next, vars, RestoreOnLoad, OpenQuestion, Press, Send, Serves, Accept, Throttle,
         AnswerLost, Hears, HearAccepted, HearRefused, HearThrottled, RestoreAfterThrottle,
         RestoreInVain, Judge, HearPush, LosePush, Polls, PollAnswered, PollAgain, PollGivesUp,
         PollRaises, Resolve
    <3> QED  BY <1>1, <3>1, <3>2 DEF WithVerdict, TypeInv, TypeOK
  <2> QED  BY <2>1, <2>2, <2>3
<1>2. TypeInv /\ [Next]_vars =>
         [page' # "loading" =>
             \A q \in Questions :
                (IF page = "loading" THEN Solved(q) ELSE verdicts[q] = "PASSED")
                    => verdicts'[q] = "PASSED"]_<<page, verdicts>>
  BY <1>1
<1> QED  BY <1>2, AlwaysTyped, PTL DEF Spec, SolvedStaysShown

-----------------------------------------------------------------------------
(* The lock.                                                                *)

\* What is taken out of a set of handlers, put in, or replaced counts.
LEMMA WaitingCounted ==
    ASSUME CountInv, TypeInv, NEW r \in requests
    PROVE  /\ IsFiniteSet(Waiting) /\ Cardinality(Waiting) \in Nat
           /\ IsFiniteSet(requests \ {r})
           /\ r \in Waiting => Cardinality(Waiting \ {r}) = Cardinality(Waiting) - 1
PROOF
<1>1. IsFiniteSet(Waiting)  BY FS_Subset DEF CountInv, Waiting
<1>2. Cardinality(Waiting) \in Nat  BY <1>1, FS_CardinalityType
<1>3. IsFiniteSet(requests \ {r})  BY FS_RemoveElement DEF CountInv
<1> QED  BY <1>1, <1>2, <1>3, FS_RemoveElement

LEMMA SubsetCounted ==
    ASSUME NEW S, IsFiniteSet(S), NEW T, T \subseteq S
    PROVE  IsFiniteSet(T) /\ Cardinality(T) \in Nat /\ Cardinality(T) <= Cardinality(S)
BY FS_Subset, FS_CardinalityType

LEMMA OneMore ==
    ASSUME NEW S, IsFiniteSet(S), NEW x
    PROVE  /\ IsFiniteSet(S \cup {x}) /\ Cardinality(S \cup {x}) \in Nat
           /\ Cardinality(S) \in Nat /\ Cardinality(S \cup {x}) <= Cardinality(S) + 1
PROOF
<1> DEFINE c == Cardinality(S)
           d == Cardinality(S \cup {x})
<1>1. IsFiniteSet(S \cup {x}) /\ d = IF x \in S THEN c ELSE c + 1  BY FS_AddElement
<1>2. c \in Nat /\ d \in Nat  BY <1>1, FS_CardinalityType
<1> HIDE DEF c, d
<1>3. d <= c + 1  BY <1>1, <1>2
<1> QED  BY <1>1, <1>2, <1>3 DEF c, d

LEMMA ImageCounted ==
    ASSUME NEW S, IsFiniteSet(S)
    PROVE  LET T == {[r EXCEPT !.listening = FALSE] : r \in S}
           IN  IsFiniteSet(T) /\ Cardinality(T) <= Cardinality(S)
PROOF
<1> DEFINE T == {[r EXCEPT !.listening = FALSE] : r \in S}
           f == [r \in S |-> [r EXCEPT !.listening = FALSE]]
<1>1. f \in Surjection(S, T)  BY DEF Surjection
<1> HIDE DEF f, T
<1>2. IsFiniteSet(T) /\ Cardinality(T) <= Cardinality(S)  BY <1>1, FS_Surjection
<1> QED  BY <1>2 DEF T

LEMMA CountStays == TypeInv /\ CountInv /\ [Next]_vars => CountInv'
PROOF
<1> SUFFICES ASSUME TypeInv, CountInv, [Next]_vars PROVE CountInv'  OBVIOUS
<1> USE DEF CountInv
<1>1. submits \in Nat /\ Len(rows) \in Nat /\ MaxSubmits \in Nat
  BY Constants DEF TypeInv, TypeOK
<1>2. IsFiniteSet(Waiting) /\ Cardinality(Waiting) \in Nat
  <2>1. Waiting \subseteq requests  BY DEF Waiting
  <2> QED  BY <2>1, SubsetCounted
<1>3. CASE UNCHANGED <<rows, requests, submits>>  BY <1>3 DEF Waiting
<1>4. CASE Reload
  <2> DEFINE Sent == {r \in requests : r.stage = "sent"}
  <2>1. Sent \subseteq Waiting  BY DEF Waiting
  <2>2. IsFiniteSet(Sent) /\ Cardinality(Sent) \in Nat /\ Cardinality(Sent) <= Cardinality(Waiting)
    BY <1>2, <2>1, SubsetCounted
  <2>3. requests' = {[r EXCEPT !.listening = FALSE] : r \in Sent}  BY <1>4 DEF Reload
  <2> HIDE DEF Sent
  <2>4. IsFiniteSet(requests') /\ Cardinality(requests') <= Cardinality(Sent)
    BY <2>2, <2>3, ImageCounted
  <2>5. Waiting' \subseteq requests'  BY DEF Waiting
  <2>6. Cardinality(Waiting') \in Nat /\ Cardinality(requests') \in Nat
        /\ Cardinality(Waiting') <= Cardinality(requests')
    BY <2>4, <2>5, SubsetCounted
  <2>7. rows' = rows /\ submits' = submits  BY <1>4 DEF Reload, Fault
  <2> QED  BY <1>1, <1>2, <2>2, <2>4, <2>6, <2>7
<1>5. CASE Press
  <2>1. PICK new : requests' = requests \cup {new}  BY <1>5 DEF Press
  <2>2. IsFiniteSet(requests')  BY <2>1, FS_AddElement
  <2>3. Waiting' \subseteq Waiting \cup {new}  BY <2>1 DEF Waiting
  <2>4. IsFiniteSet(Waiting \cup {new}) /\ Cardinality(Waiting \cup {new}) <= Cardinality(Waiting) + 1
    BY <1>2, OneMore
  <2>5. Cardinality(Waiting') \in Nat /\ Cardinality(Waiting \cup {new}) \in Nat
        /\ Cardinality(Waiting') <= Cardinality(Waiting \cup {new})
    BY <2>3, <2>4, SubsetCounted
  <2>6. rows' = rows /\ submits' = submits + 1 /\ submits < MaxSubmits
    BY <1>5 DEF Press, serverVars
  <2> QED  BY <1>1, <1>2, <2>2, <2>4, <2>5, <2>6
<1>6. ASSUME NEW r \in requests, Send(r) \/ Serves(r) \/ AnswerLost(r) \/ Hears(r)
      PROVE  CountInv'
  <2>1. IsFiniteSet(requests \ {r})  BY WaitingCounted
  <2>2. submits' = submits
    BY <1>6 DEF Send, Serves, Accept, Throttle, AnswerLost, Hears, HearAccepted, HearRefused,
                HearThrottled, RestoreAfterThrottle, RestoreInVain, countVars, Fault
  <2>3. CASE Send(r)
    <3>1. PICK next : requests' = (requests \ {r}) \cup {next}  BY <2>3 DEF Send, Becomes
    <3>2. IsFiniteSet(requests')  BY <2>1, <3>1, FS_AddElement
    <3>3. r \in Waiting  BY <2>3 DEF Send, Waiting
    <3>4. Waiting' \subseteq (Waiting \ {r}) \cup {next}  BY <3>1 DEF Waiting
    <3>5. Cardinality(Waiting \ {r}) = Cardinality(Waiting) - 1  BY <3>3, WaitingCounted
    <3>6. IsFiniteSet((Waiting \ {r}) \cup {next})
          /\ Cardinality((Waiting \ {r}) \cup {next}) <= Cardinality(Waiting)
      <4>1. IsFiniteSet(Waiting \ {r})  BY <1>2, FS_RemoveElement
      <4>2. /\ IsFiniteSet((Waiting \ {r}) \cup {next}) /\ Cardinality((Waiting \ {r}) \cup {next}) \in Nat
            /\ Cardinality((Waiting \ {r}) \cup {next}) <= Cardinality(Waiting \ {r}) + 1
        BY <4>1, OneMore
      <4> QED  BY <1>2, <3>5, <4>1, <4>2
    <3>7. Cardinality(Waiting') \in Nat /\ Cardinality((Waiting \ {r}) \cup {next}) \in Nat
          /\ Cardinality(Waiting') <= Cardinality((Waiting \ {r}) \cup {next})
      BY <3>4, <3>6, SubsetCounted
    <3>8. rows' = rows  BY <2>3 DEF Send, serverVars
    <3> QED  BY <1>1, <1>2, <2>2, <3>2, <3>6, <3>7, <3>8
  <2>4. CASE ~Send(r)
    <3>1. \/ requests' = requests \ {r}
          \/ \E next : requests' = (requests \ {r}) \cup {next} /\ next.stage \notin {"snapshot", "sent"}
      <4>1. r \in Request  BY DEF TypeInv, TypeOK
      <4>2. ASSUME NEW s \in {"accepted", "throttled", "refused"}, NEW n, Answers(r, s, n)
            PROVE  \/ requests' = requests \ {r}
                   \/ \E next : requests' = (requests \ {r}) \cup {next} /\ next.stage \notin {"snapshot", "sent"}
        <5> DEFINE next == [r EXCEPT !.stage = s, !.row = n]
        <5>1. next.stage = s  BY <4>1 DEF Request
        <5> QED  BY <4>2, <5>1 DEF Answers, Becomes, Ends
      <4>3. CASE Serves(r) \/ AnswerLost(r)  BY <4>2, <4>3 DEF Serves, Accept, Throttle, AnswerLost
      <4>4. CASE HearThrottled(r)
        <5> DEFINE next == [r EXCEPT !.stage = "restoring"]
        <5>1. next.stage = "restoring"  BY <4>1 DEF Request
        <5> QED  BY <4>4, <5>1 DEF HearThrottled, Becomes
      <4>5. CASE Hears(r) /\ ~HearThrottled(r)
        BY <4>5 DEF Hears, HearAccepted, HearRefused, RestoreAfterThrottle, RestoreInVain, Ends
      <4> QED  BY <1>6, <2>4, <4>3, <4>4, <4>5
    <3>2. IsFiniteSet(requests')  BY <2>1, <3>1, FS_AddElement
    <3>3. Waiting' \subseteq Waiting \ {r}  BY <3>1 DEF Waiting
    <3>4. IsFiniteSet(Waiting \ {r})  BY <1>2, FS_RemoveElement
    <3>5. Cardinality(Waiting') \in Nat /\ Cardinality(Waiting \ {r}) \in Nat
          /\ Cardinality(Waiting') <= Cardinality(Waiting \ {r})
      BY <3>3, <3>4, SubsetCounted
    <3>6. CASE rows' = rows
      <4>1. Waiting \ {r} \subseteq Waiting  OBVIOUS
      <4>2. Cardinality(Waiting \ {r}) <= Cardinality(Waiting)  BY <1>2, <4>1, SubsetCounted
      <4> QED  BY <1>1, <1>2, <2>2, <3>2, <3>5, <3>6, <4>2
    <3>7. CASE r.stage = "sent" /\ Stores(r)
      <4>1. Cardinality(Waiting \ {r}) = Cardinality(Waiting) - 1
        BY <3>7, WaitingCounted DEF Waiting
      <4>2. Len(rows') = Len(rows) + 1  BY <3>7 DEF Stores, TypeInv, TypeOK
      <4> QED  BY <1>1, <1>2, <2>2, <3>2, <3>5, <4>1, <4>2
    <3> QED
      BY <1>6, <2>4, <3>6, <3>7
      DEF Serves, Accept, Throttle, AnswerLost, Hears, HearAccepted, HearRefused, HearThrottled,
          RestoreAfterThrottle, RestoreInVain, serverVars
  <2> QED  BY <2>3, <2>4
<1>7. ASSUME NEW i \in DOMAIN rows, Judge(i) PROVE CountInv'
  <2>1. Len(rows') = Len(rows)  BY <1>7 DEF Judge, TypeInv, TypeOK
  <2> QED  BY <1>7, <2>1 DEF Judge, countVars, Waiting
<1> QED
  BY <1>3, <1>4, <1>5, <1>6, <1>7
  DEF Next, vars, serverVars, countVars, Resume, Refresh, RestoreOnLoad, OpenQuestion, HearPush, LosePush,
      Polls, PollAnswered, PollAgain, PollGivesUp, PollRaises, Fault

\* A page that is being loaded is not waited for, and no lock is its own.
LEMMA LoadingStays == TypeInv /\ LockInv /\ [Next]_vars => LoadingInv'
PROOF
<1> SUFFICES ASSUME TypeInv, LoadingInv, [Next]_vars, page' = "loading"
             PROVE  /\ \A r \in requests' : ~r.listening
                    /\ \A i \in Ids : evaluations'[i] = NoQuestion /\ pollers'[i] = Untracked
  BY DEF LockInv, LoadingInv
<1>1. CASE Reload
  <2>1. \A r \in requests' : ~r.listening  BY <1>1 DEF Reload, TypeInv, TypeOK, Request
  <2> QED  BY <1>1, <2>1 DEF Reload, Blank
<1>2. CASE UNCHANGED vars  BY <1>2 DEF vars, lockVars, LoadingInv
<1>3. CASE ~Reload /\ Next
  <2>1. page = "loading" /\ page' = page
    BY <1>3 DEF Next, Resume, Refresh, RestoreOnLoad, OpenQuestion, Press, Send, Serves,
       Accept, Throttle, AnswerLost, Hears, HearAccepted, HearRefused, HearThrottled,
       RestoreAfterThrottle, RestoreInVain, Judge, HearPush, LosePush, Polls, PollAnswered,
       PollAgain, PollGivesUp, PollRaises
  <2>2. /\ \A r \in requests : ~r.listening
        /\ \A i \in Ids : evaluations[i] = NoQuestion /\ pollers[i] = Untracked
    BY <2>1 DEF LoadingInv
  <2>3. evaluations \in [Ids -> Questions \cup {NoQuestion}]
        /\ pollers \in [Ids -> {Untracked} \cup 0..(MaxPolls - 1)]
    BY DEF TypeInv, TypeOK
  <2>4. ASSUME NEW r \in requests, Send(r) \/ Serves(r) \/ AnswerLost(r) \/ Hears(r)
        PROVE  /\ \A x \in requests' : ~x.listening
               /\ UNCHANGED <<evaluations, pollers>>
    <3>1. \A x \in requests' : ~x.listening  BY <2>2, <2>4, HandlersRemember
    <3>2. ~r.listening /\ r.stage = "sent"  BY <2>2 DEF TypeInv, RequestsInv
    <3>3. UNCHANGED <<evaluations, pollers>>
      BY <2>4, <3>2 DEF Send, Serves, Accept, Throttle, AnswerLost, Hears, HearAccepted,
         HearRefused, HearThrottled, RestoreAfterThrottle, RestoreInVain, lockVars
    <3> QED  BY <3>1, <3>3
  <2>5. ASSUME NEW i \in DOMAIN rows,
               Judge(i) \/ HearPush(i) \/ LosePush(i) \/ Polls(i) \/ PollRaises(i)
        PROVE  /\ requests' = requests
               /\ \A k \in Ids : evaluations'[k] = NoQuestion /\ pollers'[k] = Untracked
    <3>1. requests' = requests
      BY <2>5 DEF Judge, HearPush, LosePush, Polls, PollAnswered, PollAgain, PollGivesUp, PollRaises
    <3>2. CASE UNCHANGED <<evaluations, pollers>>  BY <2>2, <3>1, <3>2
    <3>3. CASE evaluations' = [evaluations EXCEPT ![i] = NoQuestion]
               /\ pollers' = [pollers EXCEPT ![i] = Untracked]
      BY <2>2, <2>3, <3>1, <3>3
    <3>4. CASE PollAgain(i) \/ PollRaises(i)
      <4>1. evaluations' = evaluations
        BY <3>4 DEF PollAgain, PollRaises
      <4>2. \A k \in Ids : k # i => pollers'[k] = pollers[k]  BY <2>3, <3>4 DEF PollAgain, PollRaises
      <4>3. i \notin Ids  BY <2>2, <3>4 DEF PollAgain, PollRaises
      <4> QED  BY <2>2, <3>1, <4>1, <4>2, <4>3
    <3> QED
      BY <2>5, <3>2, <3>3, <3>4
      DEF Judge, HearPush, LosePush, Polls, PollAnswered, PollGivesUp, Resolve, lockVars
  <2>6. CASE UNCHANGED <<requests, evaluations, pollers>>  BY <2>2, <2>6
  <2> QED
    BY <1>3, <2>1, <2>2, <2>4, <2>5, <2>6
    DEF Next, Resume, Refresh, RestoreOnLoad, OpenQuestion, Press, lockVars
<1> QED  BY <1>1, <1>2, <1>3

\* As long as no question was left at a bad moment, the question that is open stays
\* while a handler is at work for it.
LEMMA NotStrayed ==
    ASSUME TypeInv, [Next]_vars, strayed' = {}
    PROVE  /\ strayed = {}
           /\ UNCHANGED active \/ (\A r \in requests : ~r.listening) \/ Reload
PROOF
<1>1. ASSUME NEW q \in Questions, OpenQuestion(q)
      PROVE  strayed = {} /\ \A r \in requests : ~r.listening
  BY <1>1 DEF OpenQuestion
<1>2. CASE ~(\E q \in Questions : OpenQuestion(q))
  BY <1>2 DEF Next, vars, historyVars, Resume, Reload, Refresh, RestoreOnLoad, Press, Send, Serves,
       Accept, Throttle, AnswerLost, Hears, HearAccepted, HearRefused, HearThrottled,
       RestoreAfterThrottle, RestoreInVain, Judge, HearPush, LosePush, Polls, PollAnswered,
       PollAgain, PollGivesUp, PollRaises
<1> QED  BY <1>1, <1>2

LEMMA JudgedStays ==
    ASSUME TypeInv, [Next]_vars, NEW q, Judged(q)
    PROVE  Judged(q)'
PROOF
<1>1. PICK k \in DOMAIN rows : rows[k].question = q /\ rows[k].status # "PENDING"  BY DEF Judged
<1>2. k \in DOMAIN rows' /\ rows'[k].question = q /\ rows'[k].status # "PENDING"
  BY <1>1, DecidedStays
<1> QED  BY <1>2 DEF Judged

\* The card of an unanswered submission shows an error, unless the question has
\* been solved.
LEMMA ErrorAccounts ==
    ASSUME TypeInv, SolvedInv, misplaced = {}, NEW q \in Questions, NEW p, rows' = rows,
           verdicts' = WithVerdict(p, "ERROR"), q = p
    PROVE  Accounted(q)'
PROOF
<1>1. CASE verdicts[q] = "PASSED"
  <2>1. Solved(q)  BY <1>1 DEF SolvedInv, SolvedIsReal
  <2>2. PICK k \in DOMAIN rows : rows[k].question = q /\ rows[k].status = "PASSED"
    BY <2>1 DEF Solved
  <2>3. Judged(q)'  BY <2>2 DEF Judged
  <2> QED  BY <2>3 DEF Accounted
<1>2. CASE verdicts[q] # "PASSED"
  <2>1. verdicts'[q] = "ERROR"  BY <1>2, WithVerdictShows DEF TypeInv, TypeOK, Shown
  <2> QED  BY <2>1 DEF Accounted
<1> QED  BY <1>1, <1>2

\* The verdict of another question is not touched.
LEMMA OthersShown ==
    ASSUME TypeInv, NEW q \in Questions, NEW p, NEW v, p # q
    PROVE  WithVerdict(p, v)[q] = verdicts[q]
BY DEF WithVerdict, TypeInv, TypeOK

\* A question keeps what accounts for it when nothing of it is taken away.
LEMMA AccountedKept ==
    ASSUME TypeInv, [Next]_vars, NEW q \in Questions, Accounted(q),
           q \in pending => q \in pending' \/ Judged(q)',
           verdicts[q] = "ERROR" => verdicts'[q] = "ERROR" \/ q \in pending' \/ Judged(q)',
           q \in overlooked => q \in overlooked'
    PROVE  Accounted(q)'
BY JudgedStays DEF Accounted

LEMMA SolvedIsJudged ==
    ASSUME NEW q, Solved(q), UNCHANGED rows
    PROVE  Judged(q)'
PROOF
<1>1. PICK k \in DOMAIN rows : rows[k].question = q /\ rows[k].status = "PASSED"  BY DEF Solved
<1> QED  BY <1>1 DEF Judged

\* Whoever handles the verdict of a row, its question has been judged.
LEMMA ResolveHolds ==
    ASSUME TypeInv, [Next]_vars, NEW i \in DOMAIN rows, rows[i].status # "PENDING", Resolve(i),
           UNCHANGED <<rows, requests, historyVars>>, NEW q \in Questions, Held(q)
    PROVE  Held(q)'
PROOF
<1>1. CASE rows[i].question = q
  <2>1. Judged(q)'  BY <1>1 DEF Judged
  <2> QED  BY <2>1 DEF Held, Accounted
<1>2. CASE rows[i].question # q
  <2>1. verdicts'[q] = verdicts[q]  BY <1>2, OthersShown DEF Resolve
  <2>2. q \in pending => q \in pending'  BY <1>2 DEF Resolve
  <2>3. Accounted(q) => Accounted(q)'  BY <2>1, <2>2, AccountedKept DEF historyVars
  <2>4. Restoring(q) => Restoring(q)'  BY DEF Restoring
  <2> QED  BY <2>3, <2>4 DEF Held
<1> QED  BY <1>1, <1>2

\* A handler that is heard: what it takes from its question, it explains.
LEMMA HearHolds ==
    ASSUME TypeInv, SolvedInv, LockInv, [Next]_vars, strayed = {},
           NEW r \in requests, Hears(r), NEW q \in Questions, Held(q)
    PROVE  Held(q)'
PROOF
<1>1. r \in Request /\ r.listening
  BY DEF TypeInv, TypeOK, RequestsInv, Hears, HearAccepted, HearRefused, HearThrottled,
         RestoreAfterThrottle, RestoreInVain
<1>2. r.question = active /\ misplaced = {}  BY <1>1 DEF LockInv, HandlersInv
<1>3. rows' = rows
  BY DEF Hears, HearAccepted, HearRefused, HearThrottled, RestoreAfterThrottle, RestoreInVain, serverVars
<1>4. CASE HearAccepted(r)
  <2>1. Accounted(q) => Accounted(q)'  BY <1>4, AccountedKept DEF HearAccepted, historyVars
  <2>2. Restoring(q) => Restoring(q)'  BY <1>4 DEF HearAccepted, Restoring, Ends
  <2> QED  BY <2>1, <2>2 DEF Held
<1>5. CASE HearRefused(r)
  <2>1. CASE q = active
    <3>1. Accounted(q)'  BY <1>2, <1>3, <1>5, <2>1, ErrorAccounts DEF HearRefused
    <3> QED  BY <3>1 DEF Held
  <2>2. CASE q # active
    <3>1. verdicts'[q] = verdicts[q]  BY <1>5, <2>2, OthersShown DEF HearRefused
    <3>2. Accounted(q) => Accounted(q)'
      BY <1>5, <2>2, <3>1, AccountedKept DEF HearRefused, historyVars
    <3>3. Restoring(q) => Restoring(q)'  BY <1>5 DEF HearRefused, Restoring, Ends
    <3> QED  BY <3>2, <3>3 DEF Held
  <2> QED  BY <2>1, <2>2
<1>6. CASE HearThrottled(r)
  <2> DEFINE next == [r EXCEPT !.stage = "restoring"]
  <2>1. next.listening /\ next.stage = "restoring" /\ next.question = active
    BY <1>1, <1>2 DEF Request
  <2>2. requests' = (requests \ {r}) \cup {next}  BY <1>6 DEF HearThrottled, Becomes
  <2> HIDE DEF next
  <2>3. CASE q = active
    <3>1. Restoring(q)'  BY <2>1, <2>2, <2>3 DEF Restoring
    <3> QED  BY <3>1 DEF Held
  <2>4. CASE q # active
    <3>1. Accounted(q) => Accounted(q)'  BY <1>6, <2>4, AccountedKept DEF HearThrottled, historyVars
    <3>2. Restoring(q) => Restoring(q)'  BY <1>6, <2>2 DEF HearThrottled, Restoring
    <3> QED  BY <3>1, <3>2 DEF Held
  <2> QED  BY <2>3, <2>4
<1>7. CASE RestoreAfterThrottle(r)
  <2>1. CASE q = active
    <3>1. q \in pending' \/ q \in overlooked'
      BY <1>7, <2>1 DEF RestoreAfterThrottle, LockFor
    <3> QED  BY <3>1 DEF Held, Accounted
  <2>2. CASE q # active
    <3>1. verdicts'[q] = verdicts[q]  BY <1>7, <2>2, OthersShown DEF RestoreAfterThrottle
    <3>2. pending \subseteq pending' /\ overlooked \subseteq overlooked'
      BY <1>7 DEF RestoreAfterThrottle, LockFor
    <3>3. Accounted(q) => Accounted(q)'  BY <3>1, <3>2, AccountedKept
    <3>4. Restoring(q) => Restoring(q)'  BY <1>2, <1>7, <2>2 DEF RestoreAfterThrottle, Restoring, Ends
    <3> QED  BY <3>3, <3>4 DEF Held
  <2> QED  BY <2>1, <2>2
<1>8. CASE RestoreInVain(r)
  <2>1. CASE q = active
    <3>1. Accounted(q)'  BY <1>2, <1>3, <1>8, <2>1, ErrorAccounts DEF RestoreInVain
    <3> QED  BY <3>1 DEF Held
  <2>2. CASE q # active
    <3>1. verdicts'[q] = verdicts[q]  BY <1>8, <2>2, OthersShown DEF RestoreInVain
    <3>2. Accounted(q) => Accounted(q)'
      BY <1>8, <3>1, AccountedKept DEF RestoreInVain, historyVars, lockVars
    <3>3. Restoring(q) => Restoring(q)'  BY <1>2, <1>8, <2>2 DEF RestoreInVain, Restoring, Ends
    <3> QED  BY <3>2, <3>3 DEF Held
  <2> QED  BY <2>1, <2>2
<1> QED  BY <1>4, <1>5, <1>6, <1>7, <1>8 DEF Hears

LEMMA HeldStays ==
    ASSUME TypeInv, SolvedInv, LockInv, [Next]_vars, ~Reload, ~Resume, strayed' = {},
           NEW q \in Questions, Held(q)
    PROVE  Held(q)'
PROOF
<1>1. strayed = {}  BY NotStrayed
<1>2. CASE UNCHANGED <<rows, verdicts, pending, requests, overlooked>>
  <2>1. Accounted(q) => Accounted(q)'  BY <1>2, AccountedKept
  <2>2. Restoring(q) => Restoring(q)'  BY <1>2 DEF Restoring
  <2> QED  BY <2>1, <2>2 DEF Held
<1>3. CASE Refresh
  <2>1. rows' = rows /\ verdicts' = WithSolved(verdicts)
        /\ UNCHANGED <<pending, requests, overlooked>>
    BY <1>3 DEF Refresh, serverVars, lockVars, historyVars
  <2>2. verdicts'[q] = verdicts[q] \/ Solved(q)
    BY <2>1, WithSolvedShows DEF TypeInv, TypeOK
  <2>3. Accounted(q) => Accounted(q)'  BY <2>1, <2>2, SolvedIsJudged, AccountedKept
  <2>4. Restoring(q) => Restoring(q)'  BY <2>1 DEF Restoring
  <2> QED  BY <2>3, <2>4 DEF Held
<1>4. CASE RestoreOnLoad
  <2>1. UNCHANGED <<rows, verdicts, requests, overlooked>> /\ pending \subseteq pending'
    BY <1>4 DEF RestoreOnLoad, LockFor, serverVars, lockVars, historyVars
  <2>2. Accounted(q) => Accounted(q)'  BY <2>1, AccountedKept
  <2>3. Restoring(q) => Restoring(q)'  BY <2>1 DEF Restoring
  <2> QED  BY <2>2, <2>3 DEF Held
<1>5. CASE Press
  <2>1. pending = {} /\ pending' = {active} /\ overlooked' = overlooked
    BY <1>5 DEF Press, historyVars
  <2>2. q # active => verdicts'[q] = verdicts[q]  BY <1>5, OthersShown DEF Press
  <2>3. Accounted(q) => Accounted(q)'  BY <2>1, <2>2, AccountedKept
  <2>4. requests \subseteq requests'  BY <1>5 DEF Press
  <2>5. Restoring(q) => Restoring(q)'  BY <2>4 DEF Restoring
  <2> QED  BY <2>3, <2>5 DEF Held
<1>6. ASSUME NEW r \in requests, Send(r) \/ Serves(r) \/ AnswerLost(r) PROVE Held(q)'
  <2>1. UNCHANGED <<verdicts, pending, overlooked>>
    BY <1>6 DEF Send, Serves, Accept, Throttle, AnswerLost, lockVars, historyVars
  <2>2. Accounted(q) => Accounted(q)'  BY <2>1, AccountedKept
  <2>3. r.stage # "restoring"
    BY <1>6 DEF Send, Serves, Accept, Throttle, AnswerLost
  <2>4. requests \ {r} \subseteq requests'
    BY <1>6 DEF Send, Serves, Accept, Throttle, AnswerLost, Answers, Becomes, Ends
  <2>5. Restoring(q) => Restoring(q)'  BY <2>3, <2>4 DEF Restoring
  <2> QED  BY <2>2, <2>5 DEF Held
<1>7. ASSUME NEW r \in requests, Hears(r) PROVE Held(q)'  BY <1>1, <1>7, HearHolds
<1>8. ASSUME NEW i \in DOMAIN rows, Judge(i) PROVE Held(q)'
  <2>1. UNCHANGED <<verdicts, pending, requests, overlooked>>  BY <1>8 DEF Judge, lockVars, historyVars
  <2>2. Accounted(q) => Accounted(q)'  BY <2>1, AccountedKept
  <2>3. Restoring(q) => Restoring(q)'  BY <2>1 DEF Restoring
  <2> QED  BY <2>2, <2>3 DEF Held
<1>9. ASSUME NEW i \in DOMAIN rows, HearPush(i) \/ PollAnswered(i) PROVE Held(q)'
  <2>1. rows[i].status # "PENDING"  BY <1>9 DEF HearPush, PollAnswered, TypeInv, PushedInv
  <2> QED  BY <1>9, <2>1, ResolveHolds DEF HearPush, PollAnswered, serverVars
<1>10. ASSUME NEW i \in DOMAIN rows, PollGivesUp(i) PROVE Held(q)'
  <2>1. UNCHANGED <<rows, requests, overlooked>>  BY <1>10 DEF PollGivesUp, serverVars, historyVars
  <2>2. CASE evaluations[i] = q
    <3>1. q # NoQuestion  BY Constants
    <3>2. verdicts' = WithVerdict(evaluations[i], "ERROR")  BY <1>10, <2>2, <3>1 DEF PollGivesUp
    <3>3. Accounted(q)'  BY <1>1, <2>1, <2>2, <3>2, ErrorAccounts DEF LockInv
    <3> QED  BY <3>3 DEF Held
  <2>3. CASE evaluations[i] # q
    <3>1. verdicts'[q] = verdicts[q]  BY <1>10, <2>3, OthersShown DEF PollGivesUp
    <3>2. q \in pending => q \in pending'  BY <1>10, <2>3 DEF PollGivesUp
    <3>3. Accounted(q) => Accounted(q)'  BY <2>1, <3>1, <3>2, AccountedKept
    <3>4. Restoring(q) => Restoring(q)'  BY <2>1 DEF Restoring
    <3> QED  BY <3>3, <3>4 DEF Held
  <2> QED  BY <2>2, <2>3
<1>11. \/ UNCHANGED <<rows, verdicts, pending, requests, overlooked>>
       \/ Refresh \/ RestoreOnLoad \/ Press
       \/ \E r \in requests : Send(r) \/ Serves(r) \/ AnswerLost(r) \/ Hears(r)
       \/ \E i \in DOMAIN rows : Judge(i) \/ HearPush(i) \/ PollAnswered(i) \/ PollGivesUp(i)
  BY DEF Next, vars, OpenQuestion, LosePush, Polls, PollAgain, PollRaises, serverVars, lockVars, historyVars
<1> QED  BY <1>2, <1>3, <1>4, <1>5, <1>6, <1>7, <1>8, <1>9, <1>10, <1>11

\* Every handler that is on the page is at work for the question that is open, and
\* that question keeps the lock or what accounts for its loss.
LEMMA HandlersStay ==
    ASSUME TypeInv, SolvedInv, LockInv, [Next]_vars, strayed' = {}
    PROVE  HandlersInv'
PROOF
<1>1. strayed = {} /\ HandlersInv  BY NotStrayed DEF LockInv
<1>2. CASE \A x \in requests' : ~x.listening  BY <1>2 DEF HandlersInv
<1>3. ASSUME \E x \in requests' : x.listening PROVE HandlersInv'
  <2>1. ~Reload  BY <1>3 DEF Reload, TypeInv, TypeOK, Request
  <2>2. CASE Resume
    BY <1>3, <2>2 DEF Resume, LockInv, LoadingInv
  <2>3. CASE ~Resume
    <3>1. \A q \in Questions : Held(q) => Held(q)'  BY <2>1, <2>3, HeldStays
    <3>2. \A x \in requests : x \in Request  BY DEF TypeInv, TypeOK
    <3>3. \A k \in DOMAIN rows : k \in DOMAIN rows' /\ rows'[k].question = rows[k].question
      BY DecidedStays
    <3>4. \A x \in requests \cap requests' :
             x.listening =>
                /\ x.question = active'
                /\ x.stage # "snapshot" => x.asked = x.question
                /\ x.stage = "accepted" => x.row \in DOMAIN rows' /\ rows'[x.row].question = x.question
                /\ Held(x.question)'
      <4> SUFFICES ASSUME NEW x \in requests, x.listening
                   PROVE  /\ x.question = active'
                          /\ x.stage # "snapshot" => x.asked = x.question
                          /\ x.stage = "accepted" => x.row \in DOMAIN rows' /\ rows'[x.row].question = x.question
                          /\ Held(x.question)'
        OBVIOUS
      <4>1. active' = active  BY <2>1, NotStrayed
      <4>2. x.question \in Questions  BY <3>2 DEF Request
      <4> QED  BY <1>1, <3>1, <3>3, <4>1, <4>2 DEF HandlersInv
    <3> DEFINE Fine(x) == /\ x.question = active'
                          /\ x.stage # "snapshot" => x.asked = x.question
                          /\ x.stage = "accepted" =>
                                x.row \in DOMAIN rows' /\ rows'[x.row].question = x.question
                          /\ Held(x.question)'
    <3> SUFFICES ASSUME NEW x \in requests', x.listening, x \notin requests PROVE Fine(x)
      BY <3>4 DEF HandlersInv
    <3>5. CASE Press
      <4> DEFINE new == [id |-> submits', question |-> active, previous |-> verdicts[active],
                         listening |-> TRUE, stage |-> "snapshot", asked |-> NoQuestion, row |-> 0]
      <4>1. x = new  BY <3>5 DEF Press
      <4>2. x.question = active /\ x.stage = "snapshot"  BY <4>1
      <4>3. active' = active /\ pending' = {active}  BY <3>5 DEF Press
      <4>4. x.question \in pending'  BY <4>2, <4>3
      <4>5. Held(x.question)'  BY <4>4 DEF Held, Accounted
      <4> QED  BY <4>2, <4>3, <4>5
    <3>6. ASSUME NEW r \in requests, Send(r) PROVE Fine(x)
      <4> DEFINE next == [r EXCEPT !.stage = "sent", !.asked = active]
      <4>1. x = next /\ active' = active  BY <3>6 DEF Send, Becomes
      <4>2. x.question = r.question /\ x.listening = r.listening /\ x.stage = "sent" /\ x.asked = active
        BY <3>2, <4>1 DEF Request
      <4>3. r.question = active /\ Held(r.question) /\ r.question \in Questions
        BY <1>1, <3>2, <4>2 DEF HandlersInv, Request
      <4>4. Held(r.question)'  BY <3>1, <4>3
      <4> QED  BY <4>1, <4>2, <4>3, <4>4
    <3>7. ASSUME NEW r \in requests, NEW s \in {"accepted", "throttled", "refused"}, NEW n,
                 r.stage = "sent", active' = active, Answers(r, s, n),
                 s = "accepted" => Stores(r) /\ n = Len(rows) + 1
          PROVE  Fine(x)
      <4> DEFINE next == [r EXCEPT !.stage = s, !.row = n]
      <4>1. x = next /\ r.listening  BY <3>7 DEF Answers, Becomes, Ends
      <4>2. x.question = r.question /\ x.stage = s /\ x.asked = r.asked /\ x.row = n
        BY <3>2, <4>1 DEF Request
      <4>3. r.question = active /\ r.asked = r.question /\ Held(r.question) /\ r.question \in Questions
        BY <1>1, <3>2, <3>7, <4>1 DEF HandlersInv, Request
      <4>4. Held(r.question)'  BY <3>1, <4>3
      <4>5. ASSUME s = "accepted" PROVE n \in DOMAIN rows' /\ rows'[n].question = r.question
        <5> DEFINE row == [question |-> r.asked, writtenFor |-> r.question, status |-> "PENDING"]
        <5>1. rows' = Append(rows, row) /\ row.question = r.asked  BY <3>7, <4>5 DEF Stores
        <5>2. rows \in Seq(Row)  BY DEF TypeInv, TypeOK
        <5>3. r.asked \in Questions  BY <4>3
        <5>4. row \in Row  BY <4>3, <5>3 DEF Row
        <5> HIDE DEF row
        <5>5. n \in DOMAIN rows' /\ rows'[n] = row  BY <3>7, <4>5, <5>1, <5>2, <5>4
        <5> QED  BY <4>3, <5>1, <5>5
      <4> HIDE DEF next
      <4> QED  BY <3>7, <4>2, <4>3, <4>4, <4>5
    <3>8. ASSUME NEW r \in requests, HearThrottled(r) PROVE Fine(x)
      <4> DEFINE next == [r EXCEPT !.stage = "restoring"]
      <4>1. x = next /\ active' = active  BY <3>8 DEF HearThrottled, Becomes
      <4>2. x.question = r.question /\ x.listening = r.listening /\ x.stage = "restoring" /\ x.asked = r.asked
        BY <3>2, <4>1 DEF Request
      <4>3. r.question = active /\ r.asked = r.question /\ Held(r.question) /\ r.question \in Questions
        BY <1>1, <3>2, <3>8, <4>2 DEF HandlersInv, Request, HearThrottled
      <4>4. Held(r.question)'  BY <3>1, <4>3
      <4> QED  BY <4>1, <4>2, <4>3, <4>4
    <3> HIDE DEF Fine
    <3>9. ASSUME NEW r \in requests, Serves(r) \/ AnswerLost(r) PROVE Fine(x)
      BY <3>7, <3>9 DEF Serves, Accept, Throttle, AnswerLost
    <3>10. \/ requests' \subseteq requests \/ Press
           \/ \E r \in requests : Send(r) \/ Serves(r) \/ AnswerLost(r) \/ HearThrottled(r)
      BY <2>1, <2>3
      DEF Next, vars, Refresh, RestoreOnLoad, OpenQuestion, Hears, HearAccepted, HearRefused,
          RestoreAfterThrottle, RestoreInVain, Ends, Judge, HearPush, LosePush, Polls, PollAnswered,
          PollAgain, PollGivesUp, PollRaises
    <3> QED  BY <3>5, <3>6, <3>8, <3>9, <3>10
  <2> QED  BY <2>2, <2>3
<1> QED  BY <1>2, <1>3

\* A row that is polled has its lock, or a handler is about to take it.
LEMMA TrackedStays ==
    ASSUME TypeInv, SolvedInv, LockInv, [Next]_vars, strayed' = {}
    PROVE  TrackedInv'
PROOF
<1>1. strayed = {} /\ HandlersInv /\ TrackedInv  BY NotStrayed DEF LockInv
<1>2. evaluations \in [Ids -> Questions \cup {NoQuestion}]
      /\ pollers \in [Ids -> {Untracked} \cup 0..(MaxPolls - 1)]
  BY DEF TypeInv, TypeOK
<1>3. CASE Reload \/ Resume
  <2>1. \A i \in Ids : evaluations'[i] = NoQuestion /\ pollers'[i] = Untracked
    BY <1>3 DEF Reload, Blank, Resume, lockVars, LockInv, LoadingInv
  <2> QED  BY <2>1 DEF TrackedInv
<1>4. CASE ~Reload /\ ~Resume
  <2>1. \A q \in Questions : Held(q) => Held(q)'  BY <1>4, HeldStays
  <2>2. \A k \in DOMAIN rows :
           /\ k \in DOMAIN rows' /\ rows'[k].question = rows[k].question /\ rows[k].question \in Questions
           /\ rows'[k].status = "PENDING" => rows[k].status = "PENDING"
    <3>1. \A k \in DOMAIN rows : rows[k] \in Row  BY DEF TypeInv, TypeOK
    <3> QED  BY <3>1, DecidedStays DEF Row
  <2> DEFINE Kept(i) == /\ evaluations'[i] \in {evaluations[i], NoQuestion}
                        /\ pollers'[i] # Untracked => pollers[i] # Untracked /\ evaluations'[i] = evaluations[i]
             Fine(i) == /\ evaluations'[i] # NoQuestion =>
                              i \in DOMAIN rows' /\ rows'[i].question = evaluations'[i]
                        /\ pollers'[i] # Untracked => evaluations'[i] # NoQuestion
                        /\ \A q \in Questions :
                              pollers'[i] # Untracked /\ rows'[i].status = "PENDING"
                                 /\ rows'[i].question = q => Held(q)'
  <2>3. ASSUME NEW i \in Ids, Kept(i) PROVE Fine(i)
    <3>1. CASE evaluations'[i] = NoQuestion
      BY <1>1, <2>3, <3>1 DEF TrackedInv
    <3>2. CASE evaluations'[i] # NoQuestion
      <4>1. i \in DOMAIN rows /\ rows[i].question = evaluations[i] /\ evaluations'[i] = evaluations[i]
        BY <1>1, <2>3, <3>2 DEF TrackedInv
      <4>2. i \in DOMAIN rows' /\ rows'[i].question = rows[i].question /\ rows[i].question \in Questions
        BY <2>2, <4>1
      <4>3. \A q \in Questions :
               pollers'[i] # Untracked /\ rows'[i].status = "PENDING" /\ rows'[i].question = q => Held(q)
        BY <1>1, <2>2, <2>3, <4>1, <4>2 DEF TrackedInv
      <4> QED  BY <2>1, <3>2, <4>1, <4>2, <4>3
    <3> QED  BY <3>1, <3>2
  <2>4. CASE \A i \in Ids : Fine(i)
    <3> HIDE DEF Kept
    <3> QED  BY <2>4 DEF TrackedInv
  <2>5. CASE UNCHANGED <<evaluations, pollers>>
    <3>1. \A i \in Ids : Kept(i)  BY <2>5
    <3> HIDE DEF Kept, Fine
    <3> QED  BY <2>3, <2>4, <3>1
  <2>6. ASSUME NEW i \in DOMAIN rows, HearPush(i) \/ LosePush(i) \/ Polls(i) \/ PollRaises(i)
        PROVE  TrackedInv'
    <3>1. CASE Resolve(i)
      <4>1. \A k \in Ids : Kept(k)  BY <1>2, <3>1 DEF Resolve
      <4> HIDE DEF Kept, Fine
      <4> QED  BY <2>3, <2>4, <4>1
    <3>2. CASE LosePush(i)  BY <2>5, <3>2 DEF LosePush, lockVars
    <3>3. CASE PollGivesUp(i)
      <4>1. \A k \in Ids : Kept(k)  BY <1>2, <3>3 DEF PollGivesUp
      <4> HIDE DEF Kept, Fine
      <4> QED  BY <2>3, <2>4, <4>1
    <3>4. CASE PollAgain(i) \/ PollRaises(i)
      <4>1. \A k \in Ids : Kept(k)  BY <1>2, <3>4 DEF PollAgain, PollRaises
      <4> HIDE DEF Kept, Fine
      <4> QED  BY <2>3, <2>4, <4>1
    <3> QED  BY <2>6, <3>1, <3>2, <3>3, <3>4 DEF HearPush, Polls, PollAnswered
  <2>7. ASSUME PendingRows # {}, LockFor(LatestPending), rows' = rows PROVE TrackedInv'
    <3> DEFINE n == LatestPending
    <3>1. n \in DOMAIN rows /\ rows[n].question \in Questions  BY <2>7, LatestIsPending DEF TypeInv, TypeOK
    <3> HIDE DEF n
    <3>2. /\ pending' = pending \cup {rows[n].question}
          /\ evaluations' = [evaluations EXCEPT ![n] = rows[n].question]
          /\ pollers' = [pollers EXCEPT ![n] = IF @ = Untracked THEN 0 ELSE @]
      BY <2>7 DEF LockFor, n
    <3>3. \A k \in Ids : k # n => Kept(k)  BY <1>2, <3>2
    <3>4. \A q \in Questions : rows'[n].question = q => Held(q)'  BY <2>7, <3>2 DEF Held, Accounted
    <3>5. n \in Ids => evaluations'[n] = rows[n].question  BY <1>2, <3>2
    <3>6. rows[n].question # NoQuestion  BY <3>1, Constants
    <3>7. n \in Ids => Fine(n)  BY <2>7, <3>1, <3>4, <3>5, <3>6
    <3> HIDE DEF Kept, Fine
    <3> QED  BY <2>3, <2>4, <3>3, <3>7
  <2>8. ASSUME NEW r \in requests, HearAccepted(r) PROVE TrackedInv'
    <3>1. r.listening /\ r \in Request /\ r.question \in Questions
      BY <2>8 DEF HearAccepted, TypeInv, TypeOK, RequestsInv, Request
    <3>2. /\ r.question = active /\ r.row \in DOMAIN rows /\ rows[r.row].question = r.question
          /\ Held(r.question)
      BY <1>1, <2>8, <3>1 DEF HandlersInv, HearAccepted
    <3>3. Held(r.question)'  BY <2>1, <3>1, <3>2
    <3>4. /\ rows' = rows /\ evaluations' = [evaluations EXCEPT ![r.row] = active]
          /\ pollers' = [pollers EXCEPT ![r.row] = 0]
      BY <2>8 DEF HearAccepted, serverVars
    <3>5. \A k \in Ids : k # r.row => Kept(k)  BY <1>2, <3>4
    <3>6. r.question # NoQuestion  BY <3>1, Constants
    <3>7. r.row \in Ids => Fine(r.row)  BY <1>2, <3>2, <3>3, <3>4, <3>6
    <3> HIDE DEF Kept, Fine
    <3> QED  BY <2>3, <2>4, <3>5, <3>7
  <2>9. CASE RestoreOnLoad
    BY <2>5, <2>7, <2>9 DEF RestoreOnLoad, serverVars, lockVars
  <2>10. ASSUME NEW r \in requests, RestoreAfterThrottle(r) PROVE TrackedInv'
    BY <2>7, <2>10 DEF RestoreAfterThrottle, serverVars
  <2>11. \/ UNCHANGED <<evaluations, pollers>> \/ RestoreOnLoad
         \/ \E r \in requests : HearAccepted(r) \/ RestoreAfterThrottle(r)
         \/ \E i \in DOMAIN rows : HearPush(i) \/ LosePush(i) \/ Polls(i) \/ PollRaises(i)
    BY <1>4
    DEF Next, vars, lockVars, Refresh, OpenQuestion, Press, Send, Serves, Accept, Throttle, AnswerLost,
        Hears, HearRefused, HearThrottled, RestoreInVain, Judge
  <2> HIDE DEF Kept, Fine
  <2> QED  BY <2>5, <2>6, <2>8, <2>9, <2>10, <2>11
<1> QED  BY <1>3, <1>4

LEMMA LockStays == TypeInv /\ SolvedInv /\ LockInv /\ [Next]_vars => LockInv'
PROOF
<1> SUFFICES ASSUME TypeInv, SolvedInv, LockInv, [Next]_vars PROVE LockInv'  OBVIOUS
<1>1. LoadingInv'  BY LoadingStays
<1>2. ASSUME strayed' = {} PROVE misplaced' = {} /\ HandlersInv' /\ TrackedInv'
  <2>1. strayed = {} /\ misplaced = {} /\ HandlersInv  BY <1>2, NotStrayed DEF LockInv
  <2>2. ASSUME NEW r \in requests, RestoreAfterThrottle(r) PROVE misplaced' = misplaced
    <3>1. r.listening  BY <2>2 DEF RestoreAfterThrottle, TypeInv, RequestsInv
    <3> QED  BY <2>1, <2>2, <3>1 DEF RestoreAfterThrottle, HandlersInv
  <2>3. \/ misplaced' \in {misplaced, {}} \/ \E r \in requests : RestoreAfterThrottle(r)
    BY DEF Next, vars, historyVars, Resume, Reload, Refresh, RestoreOnLoad, OpenQuestion, Press, Send,
           Serves, Accept, Throttle, AnswerLost, Hears, HearAccepted, HearRefused, HearThrottled,
           RestoreInVain, Judge, HearPush, LosePush, Polls, PollAnswered, PollAgain, PollGivesUp, PollRaises
  <2>4. misplaced' = {}  BY <2>1, <2>2, <2>3
  <2> QED  BY <1>2, <2>4, HandlersStay, TrackedStays
<1> QED  BY <1>1, <1>2 DEF LockInv

LEMMA LockStarts == Init => LockInv /\ CountInv
PROOF
<1> SUFFICES ASSUME Init PROVE LockInv /\ CountInv  OBVIOUS
<1>1. LockInv  BY DEF Init, LockInv, LoadingInv, HandlersInv, TrackedInv
<1>2. Waiting = {}  BY DEF Init, Waiting
<1>3. IsFiniteSet(requests) /\ Cardinality(Waiting) = 0  BY <1>2, FS_EmptySet DEF Init
<1> QED  BY <1>1, <1>3, Constants DEF Init, CountInv

\* While the page waits for a row and no handler is at work, the row's question
\* keeps the Submit button locked, or one of the named reasons why it does not
\* holds: an error on the card, a verdict of the same question, a lock that a 429
\* brought to another question, a question left while its request was on its way.
THEOREM LockIsKept == Spec => []LockedWhileJudged
PROOF
<1>1. TypeInv /\ CountInv => DOMAIN rows \subseteq Ids
  <2> SUFFICES ASSUME TypeInv, CountInv PROVE DOMAIN rows \subseteq Ids  OBVIOUS
  <2>1. Waiting \subseteq requests  BY DEF Waiting
  <2>2. Cardinality(Waiting) \in Nat  BY <2>1, SubsetCounted DEF CountInv
  <2>3. Len(rows) \in Nat /\ DOMAIN rows = 1..Len(rows)  BY DEF TypeInv, TypeOK
  <2>4. Len(rows) <= MaxSubmits  BY <2>2, <2>3, Constants DEF CountInv, TypeInv
  <2> QED  BY <2>3, <2>4, Constants DEF Ids
<1>2. TypeInv /\ CountInv /\ LockInv => LockedWhileJudged
  <2> SUFFICES ASSUME TypeInv, CountInv, LockInv, strayed = {}, requests = {}, NEW i \in DOMAIN rows,
                      pollers[i] # Untracked, rows[i].status = "PENDING"
               PROVE  Accounted(rows[i].question)
    BY DEF LockedWhileJudged, Accounted, Judged
  <2>1. i \in Ids /\ rows[i] \in Row  BY <1>1 DEF TypeInv, TypeOK
  <2>2. rows[i].question \in Questions  BY <2>1 DEF Row
  <2>3. Held(rows[i].question)  BY <2>1, <2>2 DEF LockInv, TrackedInv
  <2> QED  BY <2>3 DEF Held, Restoring
<1>3. Spec => [](TypeInv /\ SolvedInv /\ LockInv /\ CountInv)
  <2>1. Init => SolvedInv  BY DEF Init, SolvedInv, SolvedIsReal
  <2> QED  BY <2>1, TypeStarts, TypeStays, SolvedStays, LockStarts, LockStays, CountStays, PTL DEF Spec
<1> QED  BY <1>2, <1>3, PTL
=============================================================================
