------------------------------ MODULE Submission ------------------------------
(***************************************************************************)
(* From the form to the movers: the request of EstimateRequestDraft and    *)
(* the outbox that announces it (NotificationOutbox).  They meet in two    *)
(* places.  A submission enqueues the outbox row after its transaction, so *)
(* that the request may be closed, or the process die, before it is        *)
(* announced; and the worker goes on with a request only while it is       *)
(* SUBMITTED, whoever closes it.  What the form calls its outbox is the    *)
(* worker's table.                                                         *)
(***************************************************************************)
EXTENDS NotificationOutbox

CONSTANTS Handlers, Days, MaxDay    \* those of EstimateRequestDraft

VARIABLES
    requestStatus,      \* status of each request; Jobs names both rows
    formPc,             \* next statement of each handler
    step, filled, moveDate, day, id, input, date, old
formVars == <<requestStatus, formPc, step, filled, moveDate, day, id, input, date, old>>

Announced == {j \in Jobs : status[j] # "NONE"}

D == INSTANCE EstimateRequestDraft WITH
        Requests <- Jobs, status <- requestStatus, pc <- formPc, outbox <- Announced

ASSUME FormConstants == D!ConstantsFit

\* Calls to the form, and days.
Form ==
    /\ UNCHANGED vars
    /\ (\E h \in Handlers : D!Step(h)) \/ D!NewDay

Announce(j) ==
    /\ Enqueue(j)
    /\ \E h \in Handlers : id[h] = j /\ D!enqueueNewQuoteRequestFanout(h)

\* The request is confirmed or its day is over, enqueued or not.
Close(j) ==
    /\ IF requestStatus[j] = "SUBMITTED" THEN CloseRequest(j) ELSE UNCHANGED vars
    /\ D!ConfirmQuote(j) \/ D!CloseOverdue(j)

SubmissionInit == Init /\ D!Init

SubmissionNext ==
    \/ Form
    \/ \E j \in Jobs : Announce(j) \/ Close(j)
    \/ Serve /\ UNCHANGED formVars

SubmissionSpec == SubmissionInit /\ [][SubmissionNext]_<<vars, formVars>>

-----------------------------------------------------------------------------
(* Properties.                                                              *)

\* What is submitted is complete, and only that has a row in the outbox.
SubmittedIsComplete == D!SubmittedIsComplete

\* Nothing of a submitted request changes any more, but for its status.
SubmittedIsFrozen == D!SubmittedIsFrozen
=============================================================================
