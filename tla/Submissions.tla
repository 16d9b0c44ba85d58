---------------------------- MODULE Submissions ----------------------------
(***************************************************************************)
(* Django's side of a judged submission: SubmissionCreateView,              *)
(* SubmissionUpdateView and SubmissionDeleteView of core_api/views.py over  *)
(* the rows of the Submission table.                                        *)
(*                                                                          *)
(* Every ORM call commits on its own.  A create request saves the row and   *)
(* only later publishes it; an update request reads the row, works out the  *)
(* final status and saves the whole row.  Requests overlap.                 *)
(***************************************************************************)
EXTENDS Integers, FiniteSets

CONSTANTS
    Subs,       \* submissions
    Verdict,    \* final statuses
    Caller      \* who sends an update request, and waits for its answer

VARIABLES
    rows,       \* rows[s]: status of the row, "absent": no such row
    creating,   \* creating[s]: how far the create request of s has come
    handlers    \* update requests between their get() and their save()

vars == <<rows, creating, handlers>>

Status == Verdict \cup {"PENDING", "absent"}

\* "lost": reported as queued, though the broker never got the message.
Progress == {"new", "saved", "queued", "lost", "queueFailed", "rejected", "died"}

Handler == [caller : Caller, sub : Subs, verdict : Verdict, awaited : BOOLEAN]

TypeOK ==
    /\ rows \in [Subs -> Status]
    /\ creating \in [Subs -> Progress]
    /\ handlers \subseteq Handler

Init ==
    /\ rows = [s \in Subs |-> "absent"]
    /\ creating = [s \in Subs |-> "new"]
    /\ handlers = {}

-----------------------------------------------------------------------------
(* SubmissionCreateView.perform_create. *)

CreateSaves(s) ==
    /\ creating[s] = "new"
    /\ creating' = [creating EXCEPT ![s] = "saved"]
    /\ rows' = [rows EXCEPT ![s] = "PENDING"]
    /\ UNCHANGED handlers

\* The request, or its process, ends after the save and before the send: an
\* exception of an event, a snapshot, get_kafka_producer().
CreateDies(s) ==
    /\ creating[s] = "saved"
    /\ creating' = [creating EXCEPT ![s] = "died"]
    /\ UNCHANGED <<rows, handlers>>

\* No executor takes the language: the row is deleted again.
CreateRejected(s) ==
    /\ creating[s] = "saved"
    /\ creating' = [creating EXCEPT ![s] = "rejected"]
    /\ rows' = [rows EXCEPT ![s] = "absent"]
    /\ UNCHANGED handlers

\* send() and flush() returned: the row is reported as queued.
CreateQueued(s) ==
    /\ creating[s] = "saved"
    /\ creating' = [creating EXCEPT ![s] = "queued"]
    /\ UNCHANGED <<rows, handlers>>

\* flush() returns as well when the broker refused the message: the future that
\* send() returned is dropped.
CreateQueuedInVain(s) ==
    /\ creating[s] = "saved"
    /\ creating' = [creating EXCEPT ![s] = "lost"]
    /\ UNCHANGED <<rows, handlers>>

\* send() raised.  save(update_fields=...) writes no row that is gone.
CreateQueueFails(s) ==
    /\ creating[s] = "saved"
    /\ creating' = [creating EXCEPT ![s] = "queueFailed"]
    /\ rows' = [rows EXCEPT ![s] = IF @ = "absent" THEN @ ELSE "SYSTEM_ERROR"]
    /\ UNCHANGED handlers

-----------------------------------------------------------------------------
(* SubmissionUpdateView.patch and finalize_submission_result. *)

UpdateReads(c, s, v) ==
    /\ rows[s] # "absent"
    /\ handlers' = handlers \cup {[caller |-> c, sub |-> s, verdict |-> v, awaited |-> TRUE]}
    /\ UNCHANGED <<rows, creating>>

\* save() writes every column, and inserts the row when it is not there.
UpdateSaves(h) ==
    /\ h \in handlers
    /\ rows' = [rows EXCEPT ![h.sub] = h.verdict]
    /\ handlers' = handlers \ {h}
    /\ UNCHANGED creating

\* The callers in C stop waiting; Django goes on with their requests.
Abandon(C) ==
    /\ handlers' = {IF h.caller \in C THEN [h EXCEPT !.awaited = FALSE] ELSE h : h \in handlers}
    /\ UNCHANGED <<rows, creating>>

\* SubmissionDeleteView, or the cascade of a deleted user.
Delete(s) ==
    /\ rows[s] # "absent"
    /\ rows' = [rows EXCEPT ![s] = "absent"]
    /\ UNCHANGED <<creating, handlers>>
=============================================================================
