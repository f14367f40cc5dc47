---------------------------- MODULE QuoteMatching ----------------------------
(***************************************************************************)
(* Matching of moving requests with movers: the HTTP handlers that submit  *)
(* a quote, reject a designated request, designate a mover and confirm a   *)
(* quote (quote.service.ts, designated-estimate-request.service.ts) and    *)
(* the nightly job that moves requests past their date                     *)
(* (estimate-request-status-change.job.ts), step by step: one action per   *)
(* statement sent to PostgreSQL.  A transaction runs at READ COMMITTED;    *)
(* its writes appear when it commits, which is when its row lock goes.     *)
(***************************************************************************)
EXTENDS Integers, FiniteSets

CONSTANTS
    Requests,       \* estimate_requests rows
    Movers,         \* users of type MOVER
    Handlers,       \* HTTP requests the server works on at one time
    Jobs,           \* runs of the status-change job alive at one time
    None,           \* null
    MaxDesignated,  \* DESIGNATED_MAX_PROPOSALS
    MaxGeneral,     \* GENERAL_MAX_PROPOSALS
    Days,           \* calendar days a move may be booked for
    MaxTime         \* bound: the clock stops after this many half days

ASSUME MoversFinite == IsFiniteSet(Movers)
ASSUME JobsFinite == IsFiniteSet(Jobs)
ASSUME CapsAreNumbers == MaxDesignated \in Nat /\ MaxGeneral \in Nat
ASSUME TimeIsWhole == Days \subseteq Int /\ MaxTime \in Nat \ {0}

Pairs == Requests \X Movers
RequestStatus == {"DRAFT", "SUBMITTED", "CONFIRMED", "COMPLETED", "EXPIRED"}
QuoteStatus == {"NONE", "PENDING", "CONFIRMED", "REJECTED"}
SentQuoteStatuses == {"PENDING", "CONFIRMED"}
Kinds == {"PROPOSAL", "REJECTION", "CONFIRM", "DESIGNATE"}
Calls == [kind : Kinds, pair : Pairs]
ASSUME NoneIsNull == None \notin Movers \cup Handlers \cup Requests \cup Calls
Notices == {"OFFER", "REJECTED", "DESIGNATED", "CONFIRMED"}
InTxPcs == {"target", "existing", "count", "redesignated", "requote", "write"}
HandlerPcs == InTxPcs \cup
    {"idle", "read", "idempotent", "precheck", "lock", "context", "deliver"}
JobPcs == {"off", "expire.scan", "expire.apply", "complete.scan",
           "complete.apply", "review.list", "review", "review.create"}

VARIABLES
    status,      \* [Requests -> RequestStatus]
    moveDate,    \* [Requests -> Days]
    confirmed,   \* the mover of confirmedQuoteId, or None
    quote,       \* [Pairs -> QuoteStatus]; unique(estimateRequestId, moverId)
    flagged,     \* pairs whose quote is stored with isDesignated = true
    designated,  \* rows of estimate_designated_movers
    lock,        \* who holds SELECT ... FOR UPDATE on the request row
    pc,          \* next statement of each handler
    call,        \* what the handler was asked to do, None when idle
    target,      \* isDesignatedTarget as the handler read it
    seen,        \* status the handler read before it took the lock
    now,         \* half days: an even value is 00:00-09:00 KST
    jobPc,       \* next statement of each job run
    today,       \* startOfDayKst, read once when the run starts
    cand,        \* rows the running statement or loop of the job works on
    due,         \* the request the job is about to ask a review of
    sent,        \* notification rows by kind and pair
    reviewed     \* REVIEW_REQUESTED rows of each request

rows == <<status, moveDate, confirmed, quote, flagged, designated>>
locals == <<call, target, seen>>
handlers == <<lock, pc, call, target, seen>>
jobs == <<jobPc, today, cand, due>>
notes == <<sent, reviewed>>
vars == <<rows, handlers, now, jobs, notes>>

-----------------------------------------------------------------------------
(* The clock.  KST is UTC+9, so for the first nine hours of a KST day UTC   *)
(* is still on the day before.  It starts in the day of day 0.              *)
startOfDayKst(t) == t \div 2
startOfDay(t) == (t - 1) \div 2
isMoveDateExpired(d, t) == d < startOfDay(t)

Req(h) == call[h].pair[1]
Is(h, kind) == call[h] # None /\ call[h].kind = kind
InTx(h) == pc[h] \in InTxPcs

\* countActiveProposals: the live quotes of r of one kind.
ActiveProposals(r, isDesignated) ==
    {m \in Movers : /\ quote[<<r, m>>] \in SentQuoteStatuses
                    /\ (<<r, m>> \in flagged) = isDesignated}
\* findExistingQuote in quote.repository.ts: any answer of the mover counts.
HasQuote(h) == quote[call[h].pair] # "NONE"
\* A rejection does not keep the customer from designating the mover.
findExistingQuoteByStatuses(h) == quote[call[h].pair] \in SentQuoteStatuses
getMaxProposalCount(isDesignated) ==
    IF isDesignated THEN MaxDesignated ELSE MaxGeneral

-----------------------------------------------------------------------------
(* How a handler moves from one statement to the next.                      *)
Proceed(h, next) ==
    /\ pc' = [pc EXCEPT ![h] = next]
    /\ UNCHANGED <<lock, call>>

Release(h) == lock' = [r \in Requests |-> IF lock[r] = h THEN None ELSE lock[r]]

\* Mutant: an early return leaves the transaction open.
FinishKeepsLock(h) ==
    /\ UNCHANGED lock
    /\ pc' = [pc EXCEPT ![h] = "idle"]
    /\ call' = [call EXCEPT ![h] = None]
    /\ target' = [target EXCEPT ![h] = FALSE]
    /\ seen' = [seen EXCEPT ![h] = None]

\* The response goes out, and a transaction still open is rolled back.
Finish(h) ==
    /\ Release(h)
    /\ pc' = [pc EXCEPT ![h] = "idle"]
    /\ call' = [call EXCEPT ![h] = None]
    /\ target' = [target EXCEPT ![h] = FALSE]
    /\ seen' = [seen EXCEPT ![h] = None]

Check(h, passed, next) ==
    IF passed THEN Proceed(h, next) /\ UNCHANGED <<target, seen>> ELSE Finish(h)

\* Mutant: a plain SELECT, which waits for nobody.
LockRequestPlain(h, admitted, next) ==
    /\ pc[h] = "lock"
    /\ IF admitted
       THEN /\ lock' = [lock EXCEPT ![Req(h)] = h]
            /\ pc' = [pc EXCEPT ![h] = next]
            /\ UNCHANGED locals
       ELSE Finish(h)
    /\ UNCHANGED <<rows, now, jobs, notes>>

\* findEstimateRequestForUpdate and the checks made on the row it returns.
LockRequest(h, admitted, next) ==
    /\ pc[h] = "lock"
    /\ lock[Req(h)] = None
    /\ IF admitted
       THEN /\ lock' = [lock EXCEPT ![Req(h)] = h]
            /\ pc' = [pc EXCEPT ![h] = next]
            /\ UNCHANGED locals
       ELSE Finish(h)
    /\ UNCHANGED <<rows, now, jobs, notes>>

\* COMMIT: the writes beside it become visible and the lock goes.
Commit(h, next) ==
    /\ Release(h)
    /\ pc' = [pc EXCEPT ![h] = next]
    /\ UNCHANGED locals

assertSubmittedEstimateRequest(r) == status[r] = "SUBMITTED" /\ confirmed[r] = None

-----------------------------------------------------------------------------
(* Where a call enters: submitQuote locks first, the others read first.     *)
Begin(h, c) ==
    /\ pc[h] = "idle"
    /\ call' = [call EXCEPT ![h] = c]
    /\ pc' = [pc EXCEPT ![h] = IF c.kind \in {"PROPOSAL", "REJECTION"}
                               THEN "lock" ELSE "read"]
    /\ UNCHANGED <<rows, lock, target, seen, now, jobs, notes>>

\* Mutant: submitQuote does not look at the status.
SubmitLockAnyStatus(h) ==
    /\ Is(h, "PROPOSAL") \/ Is(h, "REJECTION")
    /\ LockRequest(h, ~isMoveDateExpired(moveDate[Req(h)], now), "target")

(* submitQuote: PROPOSAL and REJECTION.                                     *)
SubmitLock(h) ==
    /\ Is(h, "PROPOSAL") \/ Is(h, "REJECTION")
    /\ LockRequest(h, /\ assertSubmittedEstimateRequest(Req(h))
                      /\ ~isMoveDateExpired(moveDate[Req(h)], now), "target")

isDesignatedMover(h) ==
    /\ pc[h] = "target"
    /\ target' = [target EXCEPT ![h] = call[h].pair \in designated]
    /\ Proceed(h, "existing")
    /\ UNCHANGED <<rows, seen, now, jobs, notes>>

\* A proposal goes on to the count; a rejection needs a designation.
findExistingQuote(h) ==
    /\ pc[h] = "existing"
    /\ Check(h, ~HasQuote(h) /\ (Is(h, "REJECTION") => target[h]),
             IF Is(h, "PROPOSAL") THEN "count" ELSE "write")
    /\ UNCHANGED <<rows, now, jobs, notes>>

CountProposals(h) ==
    /\ pc[h] = "count"
    /\ Check(h, Cardinality(ActiveProposals(Req(h), target[h]))
                  < getMaxProposalCount(target[h]), "write")
    /\ UNCHANGED <<rows, now, jobs, notes>>

\* The insert of createQuote; a duplicate key (P2002) ends in Abort.
CreateQuote(h, kind, initial) ==
    /\ pc[h] = "write"
    /\ Is(h, kind)
    /\ quote[call[h].pair] = "NONE"
    /\ quote' = [quote EXCEPT ![call[h].pair] = initial]
    /\ flagged' = IF target[h] THEN flagged \cup {call[h].pair} ELSE flagged
    /\ Commit(h, "context")
    /\ UNCHANGED <<status, moveDate, confirmed, designated, now, jobs, notes>>

CreateProposal(h) == CreateQuote(h, "PROPOSAL", "PENDING")
CreateRejection(h) == CreateQuote(h, "REJECTION", "REJECTED")

-----------------------------------------------------------------------------
(* confirmQuote.                                                            *)
findCustomerQuoteForConfirm(h) ==
    /\ pc[h] = "read"
    /\ Is(h, "CONFIRM")
    /\ IF quote[call[h].pair] \in SentQuoteStatuses
       THEN /\ seen' = [seen EXCEPT ![h] = quote[call[h].pair]]
            /\ Proceed(h, "lock")
            /\ UNCHANGED target
       ELSE Finish(h)
    /\ UNCHANGED <<rows, now, jobs, notes>>

\* Mutant: confirmQuote trusts the quote it read and skips the request.
ConfirmLockUnchecked(h) ==
    /\ Is(h, "CONFIRM")
    /\ LockRequest(h, seen[h] = "PENDING", "write")

ConfirmLock(h) ==
    /\ Is(h, "CONFIRM")
    /\ LockRequest(h, /\ assertSubmittedEstimateRequest(Req(h))
                      /\ seen[h] = "PENDING"
                      /\ ~isMoveDateExpired(moveDate[Req(h)], now), "write")

\* The conditional update of the quote; when it finds no PENDING row the
\* transaction ends without touching the request (Abort).
ConfirmQuoteWithEstimateRequest(h) ==
    /\ pc[h] = "write"
    /\ Is(h, "CONFIRM")
    /\ quote[call[h].pair] = "PENDING"
    /\ quote' = [quote EXCEPT ![call[h].pair] = "CONFIRMED"]
    /\ status' = [status EXCEPT ![Req(h)] = "CONFIRMED"]
    /\ confirmed' = [confirmed EXCEPT ![Req(h)] = call[h].pair[2]]
    /\ Commit(h, "context")
    /\ UNCHANGED <<moveDate, flagged, designated, now, jobs, notes>>

-----------------------------------------------------------------------------
(* createDesignatedEstimateRequest.                                         *)
DesignateRead(h) ==
    /\ pc[h] = "read"
    /\ Is(h, "DESIGNATE")
    /\ seen' = [seen EXCEPT ![h] = status[Req(h)]]
    /\ Proceed(h, "idempotent")
    /\ UNCHANGED <<rows, target, now, jobs, notes>>

\* An existing row is returned whatever the status; then the stale status
\* decides.
DesignateExisting(h) ==
    /\ pc[h] = "idempotent"
    /\ Check(h, call[h].pair \notin designated /\ seen[h] = "SUBMITTED",
             "precheck")
    /\ UNCHANGED <<rows, now, jobs, notes>>

DesignatePrecheck(h) ==
    /\ pc[h] = "precheck"
    /\ Check(h, ~findExistingQuoteByStatuses(h), "lock")
    /\ UNCHANGED <<rows, now, jobs, notes>>

DesignateLock(h) ==
    /\ Is(h, "DESIGNATE")
    /\ LockRequest(h, status[Req(h)] = "SUBMITTED", "redesignated")

\* Mutant: the loser of a race notifies as well.
DesignateRecheckNotifies(h) ==
    /\ pc[h] = "redesignated"
    /\ Commit(h, IF call[h].pair \in designated THEN "deliver" ELSE "requote")
    /\ UNCHANGED <<rows, now, jobs, notes>>

\* Found inside the transaction: rolled back, the raced row is returned and
\* nobody is notified.
DesignateRecheck(h) ==
    /\ pc[h] = "redesignated"
    /\ Check(h, call[h].pair \notin designated, "requote")
    /\ UNCHANGED <<rows, now, jobs, notes>>

\* Mutant: the check made before the transaction is trusted.
DesignateRequoteTrusted(h) ==
    /\ pc[h] = "requote"
    /\ Proceed(h, "write")
    /\ UNCHANGED <<rows, target, seen, now, jobs, notes>>

DesignateRequote(h) ==
    /\ pc[h] = "requote"
    /\ Check(h, ~findExistingQuoteByStatuses(h), "write")
    /\ UNCHANGED <<rows, now, jobs, notes>>

CreateDesignated(h) ==
    /\ pc[h] = "write"
    /\ Is(h, "DESIGNATE")
    /\ call[h].pair \notin designated
    /\ designated' = designated \cup {call[h].pair}
    /\ Commit(h, "deliver")
    /\ UNCHANGED <<status, moveDate, confirmed, quote, flagged, now, jobs, notes>>

-----------------------------------------------------------------------------
(* After the commit: the notification reads the quote again, then inserts.  *)
NoticeOf(h) == CASE call[h].kind = "PROPOSAL" -> "OFFER"
                 [] call[h].kind = "REJECTION" -> "REJECTED"
                 [] call[h].kind = "DESIGNATE" -> "DESIGNATED"
                 [] call[h].kind = "CONFIRM" -> "CONFIRMED"

\* An offer that is no longer PENDING is not announced.
notifyQuoteOfferArrivedByQuoteId(h) ==
    Is(h, "PROPOSAL") /\ quote[call[h].pair] = "PENDING"
\* Nor is a rejection by a mover nobody designated.
notifyDesignatedQuoteRejectedByQuoteId(h) ==
    Is(h, "REJECTION") /\ quote[call[h].pair] = "REJECTED" /\ call[h].pair \in flagged
\* The rows of the customer and the mover are inserted in one transaction.
notifyQuoteConfirmedByQuoteId(h) == Is(h, "CONFIRM") /\ HasQuote(h)

findQuoteNotificationContext(h) ==
    /\ pc[h] = "context"
    /\ Check(h, \/ notifyQuoteOfferArrivedByQuoteId(h)
                \/ notifyDesignatedQuoteRejectedByQuoteId(h)
                \/ notifyQuoteConfirmedByQuoteId(h), "deliver")
    /\ UNCHANGED <<rows, now, jobs, notes>>

createNotification(h) ==
    /\ pc[h] = "deliver"
    /\ sent' = [sent EXCEPT ![<<NoticeOf(h), call[h].pair>>] = @ + 1]
    /\ Finish(h)
    /\ UNCHANGED <<rows, now, jobs, reviewed>>

\* An error, a transaction timeout or a crash: uncommitted writes are lost,
\* a notification not yet inserted is never sent.
Abort(h) ==
    /\ pc[h] # "idle"
    /\ Finish(h)
    /\ UNCHANGED <<rows, now, jobs, notes>>

-----------------------------------------------------------------------------
(* submitEstimateRequest, as far as matching sees it: a conditional update, *)
(* which waits for the row lock and does not look at the date again.        *)
SubmitEstimateRequest(r) ==
    /\ status[r] = "DRAFT"
    /\ lock[r] = None
    /\ status' = [status EXCEPT ![r] = "SUBMITTED"]
    /\ UNCHANGED <<moveDate, confirmed, quote, flagged, designated, handlers,
                   now, jobs, notes>>

(* The status-change job: two bulk updates and the review catch-up.  A bulk *)
(* update takes its rows from a snapshot, waits for those that are locked   *)
(* and tests its WHERE again on what it finds.                              *)
PastMoveDate(j, from) ==
    {r \in Requests : status[r] = from /\ moveDate[r] < today[j]}

\* Mutant: UTC midnight for Korean midnight.
StartRunUtc(j) ==
    /\ jobPc[j] = "off"
    /\ today' = [today EXCEPT ![j] = startOfDay(now)]
    /\ jobPc' = [jobPc EXCEPT ![j] = "expire.scan"]
    /\ UNCHANGED <<rows, handlers, now, cand, due, notes>>

StartRun(j) ==
    /\ jobPc[j] = "off"
    /\ today' = [today EXCEPT ![j] = startOfDayKst(now)]
    /\ jobPc' = [jobPc EXCEPT ![j] = "expire.scan"]
    /\ UNCHANGED <<rows, handlers, now, cand, due, notes>>

Scan(j, at, from, next) ==
    /\ jobPc[j] = at
    /\ cand' = [cand EXCEPT ![j] = PastMoveDate(j, from)]
    /\ jobPc' = [jobPc EXCEPT ![j] = next]
    /\ UNCHANGED <<rows, handlers, now, today, due, notes>>

\* Mutant: rows are updated by the ids of the snapshot.
ApplySnapshot(j, at, from, to, next) ==
    /\ jobPc[j] = at
    /\ \A r \in cand[j] : lock[r] = None
    /\ status' = [r \in Requests |-> IF r \in cand[j] THEN to ELSE status[r]]
    /\ cand' = [cand EXCEPT ![j] = {}]
    /\ jobPc' = [jobPc EXCEPT ![j] = next]
    /\ UNCHANGED <<moveDate, confirmed, quote, flagged, designated, handlers,
                   now, today, due, notes>>

Apply(j, at, from, to, next) ==
    /\ jobPc[j] = at
    /\ \A r \in cand[j] : lock[r] = None
    /\ status' = [r \in Requests |-> IF r \in cand[j] \cap PastMoveDate(j, from)
                                     THEN to ELSE status[r]]
    /\ cand' = [cand EXCEPT ![j] = {}]
    /\ jobPc' = [jobPc EXCEPT ![j] = next]
    /\ UNCHANGED <<moveDate, confirmed, quote, flagged, designated, handlers,
                   now, today, due, notes>>

ExpireScan(j) == Scan(j, "expire.scan", "SUBMITTED", "expire.apply")
ExpireApply(j) ==
    Apply(j, "expire.apply", "SUBMITTED", "EXPIRED", "complete.scan")
CompleteScan(j) == Scan(j, "complete.scan", "CONFIRMED", "complete.apply")
CompleteApply(j) ==
    Apply(j, "complete.apply", "CONFIRMED", "COMPLETED", "review.list")

\* One side failing does not keep the other from being tried.  (An update of no
\* row that fails is no different from one that succeeds.)
StepFails(j) ==
    /\ jobPc[j] \in {"expire.apply", "complete.apply"}
    /\ cand[j] # {}
    /\ cand' = [cand EXCEPT ![j] = {}]
    /\ jobPc' = [jobPc EXCEPT ![j] = IF @ = "expire.apply"
                                     THEN "complete.scan" ELSE "review.list"]
    /\ UNCHANGED <<rows, handlers, now, today, due, notes>>

\* Mutant: the catch-up does not ask whether the move is completed.
ReviewListAny(j) ==
    /\ jobPc[j] = "review.list"
    /\ cand' = [cand EXCEPT ![j] = {r \in Requests : reviewed[r] = 0}]
    /\ jobPc' = [jobPc EXCEPT ![j] = "review"]
    /\ UNCHANGED <<rows, handlers, now, today, due, notes>>

ReviewList(j) ==
    /\ jobPc[j] = "review.list"
    /\ cand' = [cand EXCEPT ![j] =
                   {r \in Requests : status[r] = "COMPLETED" /\ reviewed[r] = 0}]
    /\ jobPc' = [jobPc EXCEPT ![j] = "review"]
    /\ UNCHANGED <<rows, handlers, now, today, due, notes>>

\* notifyReviewRequested looks for an earlier notification, then inserts.
ReviewCheck(j, r) ==
    /\ jobPc[j] = "review"
    /\ r \in cand[j]
    /\ cand' = [cand EXCEPT ![j] = @ \ {r}]
    /\ IF reviewed[r] = 0
       THEN /\ due' = [due EXCEPT ![j] = r]
            /\ jobPc' = [jobPc EXCEPT ![j] = "review.create"]
       ELSE UNCHANGED <<due, jobPc>>
    /\ UNCHANGED <<rows, handlers, now, today, notes>>

ReviewCreate(j) ==
    /\ jobPc[j] = "review.create"
    /\ \E n \in {0, 1} :    \* 0: the insert fails and is logged
          reviewed' = [reviewed EXCEPT ![due[j]] = @ + n]
    /\ due' = [due EXCEPT ![j] = None]
    /\ jobPc' = [jobPc EXCEPT ![j] = "review"]
    /\ UNCHANGED <<rows, handlers, now, today, cand, sent>>

StopRun(j) ==
    /\ jobPc' = [jobPc EXCEPT ![j] = "off"]
    /\ cand' = [cand EXCEPT ![j] = {}]
    /\ due' = [due EXCEPT ![j] = None]
    /\ today' = [today EXCEPT ![j] = 0]
    /\ UNCHANGED <<rows, handlers, now, notes>>

FinishRun(j) == jobPc[j] = "review" /\ cand[j] = {} /\ StopRun(j)

\* The process the run lives in dies, or its catch-up query fails.
KillRun(j) ==
    /\ jobPc[j] # "off"
    /\ ~(jobPc[j] = "review" /\ cand[j] = {})
    /\ StopRun(j)

Tick ==
    /\ now < MaxTime
    /\ now' = now + 1
    /\ UNCHANGED <<rows, handlers, jobs, notes>>

-----------------------------------------------------------------------------
Init ==
    /\ status = [r \in Requests |-> "DRAFT"]
    /\ moveDate \in [Requests -> Days]
    /\ confirmed = [r \in Requests |-> None]
    /\ quote = [p \in Pairs |-> "NONE"]
    /\ flagged = {}
    /\ designated = {}
    /\ lock = [r \in Requests |-> None]
    /\ pc = [h \in Handlers |-> "idle"]
    /\ call = [h \in Handlers |-> None]
    /\ target = [h \in Handlers |-> FALSE]
    /\ seen = [h \in Handlers |-> None]
    /\ now = 1
    /\ jobPc = [j \in Jobs |-> "off"]
    /\ today = [j \in Jobs |-> 0]
    /\ cand = [j \in Jobs |-> {}]
    /\ due = [j \in Jobs |-> None]
    /\ sent = [np \in Notices \X Pairs |-> 0]
    /\ reviewed = [r \in Requests |-> 0]

Lock(h) == SubmitLock(h) \/ ConfirmLock(h) \/ DesignateLock(h)

Read(h) ==
    \/ isDesignatedMover(h)
    \/ findExistingQuote(h)
    \/ CountProposals(h)
    \/ findCustomerQuoteForConfirm(h)
    \/ DesignateRead(h)
    \/ DesignateExisting(h)
    \/ DesignatePrecheck(h)
    \/ DesignateRecheck(h)
    \/ DesignateRequote(h)
    \/ findQuoteNotificationContext(h)

Write(h) ==
    \/ CreateProposal(h)
    \/ CreateRejection(h)
    \/ ConfirmQuoteWithEstimateRequest(h)
    \/ CreateDesignated(h)

JobStep(j) ==
    \/ ExpireScan(j)
    \/ ExpireApply(j)
    \/ CompleteScan(j)
    \/ CompleteApply(j)
    \/ ReviewList(j)
    \/ \E r \in Requests : ReviewCheck(j, r)
    \/ ReviewCreate(j)
    \/ FinishRun(j)

Next ==
    \/ \E h \in Handlers : \/ \E c \in Calls : Begin(h, c)
                           \/ Lock(h)
                           \/ Read(h)
                           \/ Write(h)
                           \/ createNotification(h)
                           \/ Abort(h)
    \/ \E j \in Jobs : StartRun(j) \/ JobStep(j) \/ StepFails(j) \/ KillRun(j)
    \/ \E r \in Requests : SubmitEstimateRequest(r)
    \/ Tick

Spec == Init /\ [][Next]_vars

-----------------------------------------------------------------------------
(* Fairness.  PostgreSQL queues those who wait for a row lock, every        *)
(* statement returns, cron starts the run every night, and not every night  *)
(* for ever does the run fail or its process die.                           *)
Fairness ==
    /\ \A h \in Handlers : /\ SF_vars(Lock(h))
                           /\ WF_vars(Read(h) \/ Write(h) \/ createNotification(h))
    /\ \A j \in Jobs : /\ WF_vars(StartRun(j))
                       /\ WF_vars(JobStep(j))
                       /\ SF_vars(ExpireApply(j))
    /\ <>[][\A j \in Jobs : ~StepFails(j) /\ ~KillRun(j)]_vars

FairSpec == Spec /\ Fairness

-----------------------------------------------------------------------------
(* Properties.                                                              *)

\* Every variable keeps to the values its comment gives.
TypeOK ==
    /\ status \in [Requests -> RequestStatus]
    /\ moveDate \in [Requests -> Days]
    /\ confirmed \in [Requests -> Movers \cup {None}]
    /\ quote \in [Pairs -> QuoteStatus]
    /\ flagged \subseteq Pairs
    /\ designated \subseteq Pairs
    /\ lock \in [Requests -> Handlers \cup {None}]
    /\ pc \in [Handlers -> HandlerPcs]
    /\ call \in [Handlers -> Calls \cup {None}]
    /\ \A h \in Handlers : pc[h] = "idle" <=> call[h] = None
    /\ target \in [Handlers -> BOOLEAN]
    /\ seen \in [Handlers -> RequestStatus \cup QuoteStatus \cup {None}]
    /\ now \in 1..MaxTime
    /\ jobPc \in [Jobs -> JobPcs]
    /\ today \in [Jobs -> Int]
    /\ cand \in [Jobs -> SUBSET Requests]
    /\ due \in [Jobs -> Requests \cup {None}]
    /\ sent \in [Notices \X Pairs -> Nat]
    /\ reviewed \in [Requests -> Nat]

\* The transaction of confirmQuote writes the request and the quote as one:
\* a request is confirmed or completed exactly when it names a mover, and
\* the only CONFIRMED quote it has is that mover's, whoever else tried to
\* confirm another, withdraw or expire at the same time.
ConfirmedConsistent ==
    \A r \in Requests :
        /\ status[r] \in {"CONFIRMED", "COMPLETED"} <=> confirmed[r] # None
        /\ \A m \in Movers : quote[<<r, m>>] = "CONFIRMED" <=> confirmed[r] = m

\* The flag copied into the quote when it was written still tells whether the
\* mover is designated, and only designated movers reject: a designation and
\* a general quote of one mover never slip past each other.
DesignationAgrees ==
    \A p \in Pairs :
        /\ quote[p] # "NONE" => (p \in flagged <=> p \in designated)
        /\ quote[p] = "REJECTED" => p \in designated
        /\ p \in flagged => quote[p] # "NONE"

\* Neither kind of quote ever exceeds its limit (DESIGNATED_MAX_PROPOSALS,
\* GENERAL_MAX_PROPOSALS), although the count and the insert are two
\* statements and many movers send at once.
ProposalCaps ==
    \A r \in Requests, d \in BOOLEAN :
        Cardinality(ActiveProposals(r, d)) <= getMaxProposalCount(d)

\* The row lock belongs to a handler exactly while its transaction is past
\* the FOR UPDATE on that row.
LockDiscipline ==
    \A r \in Requests, h \in Handlers :
        lock[r] = h <=> InTx(h) /\ Req(h) = r

\* Which statements a call goes through.
OwnSteps(h) ==
    /\ Is(h, "PROPOSAL") => pc[h] \in {"lock", "target", "existing", "count",
                                       "write", "context", "deliver"}
    /\ Is(h, "REJECTION") => pc[h] \in {"lock", "target", "existing",
                                        "write", "context", "deliver"}
    /\ Is(h, "CONFIRM") => pc[h] \in {"read", "lock", "write", "context",
                                      "deliver"}
    /\ Is(h, "DESIGNATE") => pc[h] \in {"read", "idempotent", "precheck",
                                        "lock", "redesignated", "requote",
                                        "write", "deliver"}

\* What a handler read is still true when it acts on it: what it read under
\* the lock until it commits, what confirmQuote read before it for as long
\* as quotes do not go back.
Held(h) ==
    LET p == call[h].pair
        submits == Is(h, "PROPOSAL") \/ Is(h, "REJECTION")
    IN  /\ InTx(h) => status[p[1]] = "SUBMITTED"
        /\ submits /\ pc[h] \in {"existing", "count", "write"}
              => (target[h] <=> p \in designated)
        /\ submits /\ pc[h] \in {"count", "write"} => quote[p] = "NONE"
        /\ Is(h, "REJECTION") /\ pc[h] = "write" => target[h]
        /\ Is(h, "PROPOSAL") /\ pc[h] = "write"
              => Cardinality(ActiveProposals(p[1], target[h]))
                   < getMaxProposalCount(target[h])
        /\ Is(h, "CONFIRM") /\ pc[h] \in {"lock", "write"}
              => quote[p] \in SentQuoteStatuses
        /\ Is(h, "DESIGNATE") /\ pc[h] \in {"requote", "write"}
              => p \notin designated
        /\ Is(h, "DESIGNATE") /\ pc[h] = "write" => quote[p] = "NONE"

HeldReads == \A h \in Handlers : OwnSteps(h) /\ Held(h)

\* No run of the job works with a date that is still to come.
TodayIsPast == \A j \in Jobs : today[j] <= startOfDayKst(now)

\* The inductive invariant.
Inv ==
    /\ TypeOK
    /\ ConfirmedConsistent
    /\ DesignationAgrees
    /\ ProposalCaps
    /\ LockDiscipline
    /\ HeldReads
    /\ TodayIsPast

\* What a notification announces: the row it is about was committed.
Fact(n, p) ==
    CASE n = "OFFER" -> quote[p] \in SentQuoteStatuses
      [] n = "REJECTED" -> quote[p] = "REJECTED"
      [] n = "DESIGNATED" -> p \in designated
      [] n = "CONFIRMED" -> quote[p] = "CONFIRMED"

\* Retried and concurrent calls never announce one event twice, and nothing
\* is announced that was rolled back ("알림 미발송" of a raced designation).
NoticesOnce ==
    \A n \in Notices, p \in Pairs :
        /\ sent[<<n, p>>] <= 1
        /\ sent[<<n, p>>] > 0 => Fact(n, p)

\* Why it is inductive: a handler that has committed and not yet announced has
\* something true to announce, which nobody announced before it and nobody
\* else is about to.
Owes(h, n, p) == pc[h] \in {"context", "deliver"} /\ NoticeOf(h) = n /\ call[h].pair = p
NoticesOwed ==
    \A n \in Notices, p \in Pairs, h \in Handlers :
        Owes(h, n, p) => /\ Fact(n, p) /\ sent[<<n, p>>] = 0
                         /\ \A g \in Handlers : Owes(g, n, p) => g = h

\* A completed move, and no other, is asked about, and across nights, restarts
\* and failed inserts no more often than runs are alive at one time: two runs
\* that both looked before either inserted each ask once (README, Findings), but
\* what is stored is never followed by the request of a later night.
ReviewsWithinRuns ==
    \A r \in Requests :
        /\ reviewed[r] <= Cardinality(Jobs)
        /\ reviewed[r] > 0 => status[r] = "COMPLETED"

\* Why it is inductive: the catch-up only ever holds completed moves, and what
\* is stored and what is about to be stored are together no more than the runs.
Asking(r) == {j \in Jobs : jobPc[j] = "review.create" /\ due[j] = r}
CatchUp(j) ==
    /\ jobPc[j] \in {"review", "review.create"}
          => \A r \in cand[j] : status[r] = "COMPLETED"
    /\ jobPc[j] = "review.create"
          => due[j] \in Requests /\ status[due[j]] = "COMPLETED"
ReviewsOwed ==
    /\ \A j \in Jobs : CatchUp(j)
    /\ \A r \in Requests : reviewed[r] + Cardinality(Asking(r)) <= Cardinality(Jobs)

\* Quotes and designations of a request change only while it is SUBMITTED,
\* a quote once confirmed or rejected stays so, and a request that the night
\* closed stays closed.
QuoteSettled(p) ==
    /\ quote'[p] # quote[p] => status[p[1]] = "SUBMITTED"
    /\ quote[p] \in {"CONFIRMED", "REJECTED"} => quote'[p] = quote[p]
    /\ p \in designated' \ designated => status[p[1]] = "SUBMITTED"
RequestSettled(r) ==
    status[r] \in {"EXPIRED", "COMPLETED"} => status'[r] = status[r]
Settled == (\A p \in Pairs : QuoteSettled(p)) /\ \A r \in Requests : RequestSettled(r)
SettledForGood == [][Settled]_vars

\* QuoteMatching implements MatchingContract: every commit is one of its
\* operations, the rest stutters.
Contract == INSTANCE MatchingContract WITH day <- startOfDayKst(now)
ContractSpec == Contract!Spec

\* Doc of the job ("이사일 다음 날 00:00(KST)부터 경과로 본다") with the comment of
\* the handlers ("이사일 경과 여부 검증 (cron 전 SUBMITTED도 차단)"): no handler
\* gets past its checks for a request whose move day is over in Korea.  The code
\* does not keep it (README, Findings).
PastMoveDayBlocked ==
    [][\A h \in Handlers :
          /\ pc[h] = "lock" /\ InTx(h)'
          /\ ~Is(h, "DESIGNATE")
          => startOfDayKst(now) <= moveDate[Req(h)]]_vars

\* Every call is answered: no handler waits for ever on another.
EveryCallReturns == \A h \in Handlers : pc[h] # "idle" ~> pc[h] = "idle"

\* A request nobody confirmed does not stay open past its day.
OverdueIsClosed ==
    \A r \in Requests :
        status[r] = "SUBMITTED" /\ moveDate[r] < startOfDayKst(now)
            ~> status[r] # "SUBMITTED"
=============================================================================
