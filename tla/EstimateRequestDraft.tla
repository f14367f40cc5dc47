------------------------- MODULE EstimateRequestDraft -------------------------
(***************************************************************************)
(* The moving request of one customer before matching                      *)
(* (estimate-request.service.ts): create a draft, save the three steps of  *)
(* the form, revise a field, submit, and announce the submission to the    *)
(* outbox.  Every operation reads first and writes later with a condition  *)
(* on the status; tabs and double clicks run them side by side.            *)
(***************************************************************************)
EXTENDS Integers, FiniteSets

CONSTANTS
    Requests,   \* estimate_requests rows the customer may come to own
    Handlers,   \* HTTP requests the server works on at one time
    Days,       \* dates the customer picks
    MaxDay,     \* bound: the clock stops on this day
    None        \* null

\* Days are whole and null is none of them.
ConstantsFit == Days \subseteq Int /\ MaxDay \in Nat /\ None \notin Days

\* What a submission needs; the detail addresses are optional and left out.
Addresses == {"departureZipCode", "departureAddress",
              "arrivalZipCode", "arrivalAddress"}
Fields == {"moveType", "moveDate"} \cup Addresses
TotalInputSteps == 3
TotalProgressSteps == 4
Statuses == {"NONE", "DRAFT", "SUBMITTED", "CONFIRMED", "COMPLETED", "EXPIRED"}

\* What one call brings: the fields it fills and the step it moves on to,
\* which is 0 when it leaves the step alone.
SaveStep(s) ==
    [op |-> "save",
     gives |-> CASE s = 1 -> {"moveType"}
                 [] s = 2 -> {"moveDate"}
                 [] s = 3 -> Addresses,
     next |-> IF s + 1 > TotalInputSteps THEN TotalInputSteps ELSE s + 1]
Revise(f) == [op |-> "revise", gives |-> {f}, next |-> 0]
Submit == [op |-> "submit", gives |-> {}, next |-> 0]
Inputs == {SaveStep(s) : s \in 1..TotalInputSteps}
            \cup {Revise(f) : f \in Fields} \cup {Submit}

VARIABLES
    status,     \* [Requests -> Statuses]; NONE: no such row yet
    step,       \* currentStep
    filled,     \* the fields of each row that are not null
    moveDate,   \* [Requests -> Days \cup {None}]
    outbox,     \* requests with a NEW_QUOTE_REQUEST_FANOUT row
    day,        \* today in Korea
    pc,         \* next statement of each handler
    id,         \* the request a handler works on
    input,      \* what it was given
    date,       \* the move date among it; today, for a creation
    old         \* currentStep as the handler read it

rows == <<status, step, filled, moveDate>>
locals == <<id, input, date, old>>
vars == <<rows, outbox, day, pc, locals>>

Submitted(r) == status[r] \notin {"NONE", "DRAFT"}

Goto(h, next) == pc' = [pc EXCEPT ![h] = next]

Finish(h) ==
    /\ Goto(h, "idle")
    /\ id' = [id EXCEPT ![h] = None]
    /\ input' = [input EXCEPT ![h] = None]
    /\ date' = [date EXCEPT ![h] = None]
    /\ old' = [old EXCEPT ![h] = 0]

Continue(h, next) == Goto(h, next) /\ UNCHANGED locals

-----------------------------------------------------------------------------
(* createEstimateRequest.                                                   *)

\* buildActiveRequestWhere: a confirmed move is active until its day is over.
ActiveRequests(today) ==
    {r \in Requests : \/ status[r] \in {"DRAFT", "SUBMITTED"}
                      \/ status[r] = "CONFIRMED" /\ moveDate[r] >= today}

StartCreate(h) ==
    /\ pc[h] = "idle"
    /\ Goto(h, "find")
    /\ date' = [date EXCEPT ![h] = day]
    /\ UNCHANGED <<rows, outbox, day, id, input, old>>

findActiveEstimateRequest(h) ==
    /\ pc[h] = "find"
    /\ IF ActiveRequests(date[h]) = {} THEN Continue(h, "insert") ELSE Finish(h)
    /\ UNCHANGED <<rows, outbox, day>>

\* One DRAFT per user: a second one is refused by the index (Abort).
createDraftEstimateRequest(h, r) ==
    /\ pc[h] = "insert"
    /\ status[r] = "NONE"
    /\ \A q \in Requests : status[q] # "DRAFT"
    /\ status' = [status EXCEPT ![r] = "DRAFT"]
    /\ step' = [step EXCEPT ![r] = 1]
    /\ Finish(h)
    /\ UNCHANGED <<filled, moveDate, outbox, day>>

-----------------------------------------------------------------------------
(* saveEstimateRequestStep, reviseEstimateRequestField and                  *)
(* submitEstimateRequest.                                                   *)
StartEdit(h, r, in, d) ==
    /\ pc[h] = "idle"
    /\ status[r] # "NONE"
    /\ Goto(h, "own")
    /\ id' = [id EXCEPT ![h] = r]
    /\ input' = [input EXCEPT ![h] = in]
    /\ date' = [date EXCEPT ![h] = d]
    /\ UNCHANGED <<rows, outbox, day, old>>

\* assertMoveDateNotPast and isReadyToSubmit, on the row just read.
Acceptable(h) ==
    /\ "moveDate" \in input[h].gives => date[h] >= day
    /\ input[h].op = "submit" => filled[id[h]] = Fields

\* Mutant: the submit button decides whether the form is complete.
getOwnedDraftUnready(h) ==
    /\ pc[h] = "own"
    /\ IF status[id[h]] = "DRAFT"
       THEN /\ Goto(h, "update")
            /\ old' = [old EXCEPT ![h] = step[id[h]]]
            /\ UNCHANGED <<id, input, date>>
       ELSE Finish(h)
    /\ UNCHANGED <<rows, outbox, day>>

getOwnedDraftOrThrow(h) ==
    /\ pc[h] = "own"
    /\ IF status[id[h]] = "DRAFT" /\ Acceptable(h)
       THEN /\ Goto(h, "update")
            /\ old' = [old EXCEPT ![h] = step[id[h]]]
            /\ UNCHANGED <<id, input, date>>
       ELSE Finish(h)
    /\ UNCHANGED <<rows, outbox, day>>

\* Never behind the step that was read.
NextStep(h) ==
    IF input[h].op # "save" THEN step[id[h]]
    ELSE IF old[h] > input[h].next THEN old[h] ELSE input[h].next

\* Mutant: update by id alone.
updateDraftAnyStatus(h) ==
    /\ pc[h] = "update"
    /\ input[h].op # "submit"
    /\ filled' = [filled EXCEPT ![id[h]] = @ \cup input[h].gives]
    /\ moveDate' = IF "moveDate" \in input[h].gives
                   THEN [moveDate EXCEPT ![id[h]] = date[h]] ELSE moveDate
    /\ step' = [step EXCEPT ![id[h]] = NextStep(h)]
    /\ Finish(h)
    /\ UNCHANGED <<status, outbox, day>>

\* The update finds its row only while it is a DRAFT, else Refused.
updateEstimateRequestDraft(h) ==
    /\ pc[h] = "update"
    /\ input[h].op # "submit"
    /\ status[id[h]] = "DRAFT"
    /\ filled' = [filled EXCEPT ![id[h]] = @ \cup input[h].gives]
    /\ moveDate' = IF "moveDate" \in input[h].gives
                   THEN [moveDate EXCEPT ![id[h]] = date[h]] ELSE moveDate
    /\ step' = [step EXCEPT ![id[h]] = NextStep(h)]
    /\ Finish(h)
    /\ UNCHANGED <<status, outbox, day>>

submitEstimateRequest(h) ==
    /\ pc[h] = "update"
    /\ input[h].op = "submit"
    /\ status[id[h]] = "DRAFT"
    /\ status' = [status EXCEPT ![id[h]] = "SUBMITTED"]
    /\ step' = [step EXCEPT ![id[h]] = TotalProgressSteps]
    /\ Continue(h, "enqueue")
    /\ UNCHANGED <<filled, moveDate, outbox, day>>

Refused(h) ==
    /\ pc[h] = "update"
    /\ status[id[h]] # "DRAFT"
    /\ Finish(h)
    /\ UNCHANGED <<rows, outbox, day>>

\* Beside the submission, not with it; an error is only logged (Abort).
enqueueNewQuoteRequestFanout(h) ==
    /\ pc[h] = "enqueue"
    /\ outbox' = outbox \cup {id[h]}
    /\ Finish(h)
    /\ UNCHANGED <<rows, day>>

\* An error or a crash before the handler's next statement.
Abort(h) ==
    /\ pc[h] # "idle"
    /\ Finish(h)
    /\ UNCHANGED <<rows, outbox, day>>

-----------------------------------------------------------------------------
(* What happens to a submitted request elsewhere (QuoteMatching).  A quote  *)
(* is confirmed until the day is over in UTC, nine hours after Korea.       *)
ConfirmQuote(r) ==
    /\ status[r] = "SUBMITTED"
    /\ moveDate[r] >= day - 1
    /\ status' = [status EXCEPT ![r] = "CONFIRMED"]
    /\ UNCHANGED <<step, filled, moveDate, outbox, day, pc, locals>>

CloseOverdue(r) ==
    /\ status[r] \in {"SUBMITTED", "CONFIRMED"}
    /\ moveDate[r] < day
    /\ status' = [status EXCEPT ![r] = IF @ = "SUBMITTED" THEN "EXPIRED"
                                                          ELSE "COMPLETED"]
    /\ UNCHANGED <<step, filled, moveDate, outbox, day, pc, locals>>

NewDay ==
    /\ day < MaxDay
    /\ day' = day + 1
    /\ UNCHANGED <<rows, outbox, pc, locals>>

-----------------------------------------------------------------------------
Init ==
    /\ status = [r \in Requests |-> "NONE"]
    /\ step = [r \in Requests |-> 1]
    /\ filled = [r \in Requests |-> {}]
    /\ moveDate = [r \in Requests |-> None]
    /\ outbox = {}
    /\ day = 0
    /\ pc = [h \in Handlers |-> "idle"]
    /\ id = [h \in Handlers |-> None]
    /\ input = [h \in Handlers |-> None]
    /\ date = [h \in Handlers |-> None]
    /\ old = [h \in Handlers |-> 0]

Step(h) ==
    \/ StartCreate(h)
    \/ findActiveEstimateRequest(h)
    \/ \E r \in Requests : createDraftEstimateRequest(h, r)
    \/ \E r \in Requests, in \in Inputs, d \in Days : StartEdit(h, r, in, d)
    \/ getOwnedDraftOrThrow(h)
    \/ updateEstimateRequestDraft(h)
    \/ submitEstimateRequest(h)
    \/ Refused(h)
    \/ Abort(h)

Next ==
    \/ \E h \in Handlers : Step(h) \/ enqueueNewQuoteRequestFanout(h)
    \/ \E r \in Requests : ConfirmQuote(r) \/ CloseOverdue(r)
    \/ NewDay

Spec == Init /\ [][Next]_vars

-----------------------------------------------------------------------------
(* Properties.                                                              *)

\* Every variable keeps to the values its comment gives.
TypeOK ==
    /\ status \in [Requests -> Statuses]
    /\ step \in [Requests -> 1..TotalProgressSteps]
    /\ filled \in [Requests -> SUBSET Fields]
    /\ moveDate \in [Requests -> Days \cup {None}]
    /\ outbox \subseteq Requests
    /\ day \in 0..MaxDay
    /\ pc \in [Handlers -> {"idle", "find", "insert", "own", "update", "enqueue"}]
    /\ \A h \in Handlers :
          /\ pc[h] \in {"own", "update", "enqueue"}
                => id[h] \in Requests /\ input[h] \in Inputs /\ date[h] \in Days
          /\ pc[h] \in {"find", "insert"} => date[h] \in 0..MaxDay
    /\ DOMAIN id = Handlers /\ DOMAIN input = Handlers /\ DOMAIN date = Handlers
    /\ old \in [Handlers -> 0..TotalProgressSteps]

\* A request reaches the movers only with every required field, although
\* isReadyToSubmit looked at a row read before the update that submits, and
\* only a submitted request is announced.
SubmittedIsComplete ==
    \A r \in Requests :
        /\ Submitted(r) => /\ filled[r] = Fields
                           /\ step[r] = TotalProgressSteps
        /\ "moveDate" \in filled[r] <=> moveDate[r] # None
        /\ r \in outbox => Submitted(r)

\* What was read stays true: a row is never emptied nor deleted, and the
\* row a handler edits was a draft once.
ReadsHold ==
    \A h \in Handlers :
        /\ pc[h] \in {"own", "update", "enqueue"} => status[id[h]] # "NONE"
        /\ pc[h] = "update" /\ input[h].op = "submit" => filled[id[h]] = Fields
        /\ pc[h] = "enqueue" => Submitted(id[h])
        /\ pc[h] = "update" => old[h] \in 1..TotalInputSteps

\* A row that does not exist yet is empty.
NothingBefore ==
    \A r \in Requests : /\ status[r] = "NONE" => filled[r] = {}
                        /\ status[r] = "DRAFT" => step[r] \in 1..TotalInputSteps

\* The inductive invariant.
Inv == TypeOK /\ SubmittedIsComplete /\ ReadsHold /\ NothingBefore

\* A save that lost the race against the submission changes nothing: what
\* movers quote for is what the customer submitted.
SubmittedIsFrozen ==
    [][\A r \in Requests : Submitted(r) =>
          /\ step'[r] = step[r]
          /\ filled'[r] = filled[r]
          /\ moveDate'[r] = moveDate[r]
          /\ Submitted(r)']_vars

\* "조회+생성을 트랜잭션으로 묶고, 유저당 DRAFT 1건 unique로 동시 생성 race
\* condition을 차단": however calls interleave, a customer has one active request.
\* The code does not keep it (README, Findings).
OneActiveRequest == Cardinality(ActiveRequests(day)) <= 1
=============================================================================
