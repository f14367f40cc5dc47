-------------------------- MODULE NotificationOutbox --------------------------
(***************************************************************************)
(* The outbox that announces a submitted request to the matching movers    *)
(* (notification.service.ts, notification.repository.ts,                   *)
(* notification-outbox.job.ts).  A tick claims rows one by one and sends   *)
(* each in chunks behind a cursor; it yields after some chunks, retries a  *)
(* failed row and takes over one that stood still.  The cron ticks do not  *)
(* overlap each other, but the run at boot overlaps them.                  *)
(***************************************************************************)
EXTENDS Integers, FiniteSets, Sequences

CONSTANTS
    Jobs,           \* notification_outboxes rows, one per request
    Movers,         \* user ids of the movers, in their order
    Workers,        \* ticks that run side by side in one process
    BootRun,        \* the one of them that runs only once per process
    ChunkSize,      \* NOTIFICATION_OUTBOX_CHUNK_SIZE
    MaxChunks,      \* OUTBOX_MAX_CHUNKS_PER_CLAIM
    MaxClaims,      \* OUTBOX_MAX_CLAIMS_PER_TICK
    MaxAttempts,    \* NOTIFICATION_OUTBOX_MAX_ATTEMPTS
    None            \* null

ASSUME MoversAreIds == Movers \subseteq Nat \ {0}
ASSUME LimitsArePositive == {ChunkSize, MaxChunks, MaxClaims, MaxAttempts}
                                \subseteq Nat \ {0}
ASSUME NoneIsNull == None \notin Workers

VARIABLES
    status,     \* of each row; NONE: not enqueued
    cursor,     \* cursorUserId, 0 for null
    attempts,
    erred,      \* rows with a lastError
    stale,      \* PROCESSING rows not updated for five minutes
    queue,      \* the rows in the order of updated_at
    holder,     \* of each row: the worker that claimed it last, None once any
                \* other wrote it since (no column: whose row it should be)
    open,       \* rows whose request is still SUBMITTED
    matching,   \* the movers whose profile fits the request of each row
    steady,     \* those of them who fitted ever since the row was enqueued
    notified,   \* the movers with the notification of each row
    pc, job, from, chunks, batch, tries,    \* of each worker: what it works on
    failed, claims,                         \* of each worker: its tick
    booted      \* the process made its run at boot

table == <<status, cursor, attempts, erred, stale, queue, holder>>
world == <<open, matching, steady>>
work == <<job, from, chunks, batch, tries>>
tick == <<failed, claims>>
vars == <<table, world, notified, pc, work, tick, booted>>

Working == {"request", "chunk", "insert", "advance", "yield", "done"}

Touch(j) ==
    /\ queue' = Append(SelectSeq(queue, LAMBDA k : k # j), j)
    /\ stale' = stale \ {j}

Goto(w, next) == pc' = [pc EXCEPT ![w] = next]

\* What the workers of S know of their rows is forgotten.
Forget(S) ==
    /\ job' = [w \in Workers |-> IF w \in S THEN None ELSE job[w]]
    /\ from' = [w \in Workers |-> IF w \in S THEN 0 ELSE from[w]]
    /\ chunks' = [w \in Workers |-> IF w \in S THEN 0 ELSE chunks[w]]
    /\ batch' = [w \in Workers |-> IF w \in S THEN {} ELSE batch[w]]
    /\ tries' = [w \in Workers |-> IF w \in S THEN 0 ELSE tries[w]]

\* The row is left and the tick goes on to its next claim.
Leave(w, failing) ==
    /\ Goto(w, "claim")
    /\ failed' = [failed EXCEPT ![w] = IF failing THEN @ \cup {job[w]} ELSE @]
    /\ Forget({w})
    /\ UNCHANGED claims

\* The tick is over.
Stop(S) ==
    /\ pc' = [w \in Workers |-> IF w \in S THEN "off" ELSE pc[w]]
    /\ failed' = [w \in Workers |-> IF w \in S THEN {} ELSE failed[w]]
    /\ claims' = [w \in Workers |-> IF w \in S THEN 0 ELSE claims[w]]
    /\ Forget(S)

-----------------------------------------------------------------------------
(* The world around the outbox.                                             *)
\* enqueueNewQuoteRequestFanout after the submission.
Enqueue(j) ==
    /\ status[j] = "NONE"
    /\ status' = [status EXCEPT ![j] = "PENDING"]
    /\ Touch(j)
    /\ steady' = [steady EXCEPT ![j] = matching[j]]
    /\ UNCHANGED <<cursor, attempts, erred, holder, open, matching, notified, pc,
                   work, tick, booted>>

\* The request is confirmed or expires.
CloseRequest(j) ==
    /\ j \in open
    /\ open' = open \ {j}
    /\ UNCHANGED <<table, matching, steady, notified, pc, work, tick, booted>>

\* A mover edits the profile, is withdrawn or joins.
EditProfile(j, m) ==
    /\ status[j] # "NONE"
    /\ matching' = [matching EXCEPT ![j] = IF m \in @ THEN @ \ {m} ELSE @ \cup {m}]
    /\ steady' = [steady EXCEPT ![j] = @ \ {m}]
    /\ UNCHANGED <<table, open, notified, pc, work, tick, booted>>

\* Five minutes pass without an update of the row.
GoStale(j) ==
    /\ status[j] = "PROCESSING"
    /\ j \notin stale
    /\ stale' = stale \cup {j}
    /\ UNCHANGED <<status, cursor, attempts, erred, queue, holder, world, notified,
                   pc, work, tick, booted>>

-----------------------------------------------------------------------------
(* processNotificationOutboxTick.                                           *)
StartTick(w) ==
    /\ pc[w] = "off"
    /\ w = BootRun => ~booted
    /\ booted' = (booted \/ w = BootRun)
    /\ Goto(w, "claim")
    /\ UNCHANGED <<table, world, notified, work, tick>>

\* Mutant: the status is not part of the WHERE.
ClaimableAnyStatus(w) ==
    {j \in Jobs : /\ attempts[j] < MaxAttempts
                  /\ status[j] # "NONE"
                  /\ j \notin failed[w]}

\* The WHERE of claimOutboxJob.
Claimable(w) ==
    {j \in Jobs : /\ attempts[j] < MaxAttempts
                  /\ status[j] = "PENDING" \/ (status[j] = "PROCESSING" /\ j \in stale)
                  /\ j \notin failed[w]}

\* Mutant: every row that was sent in part goes on for free.
NextAttemptsFree(j) == IF cursor[j] # 0 THEN attempts[j] ELSE attempts[j] + 1

\* A row that yielded goes on without spending an attempt.
NextAttempts(j) ==
    IF status[j] = "PENDING" /\ cursor[j] # 0 /\ j \notin erred
    THEN attempts[j] ELSE attempts[j] + 1

\* Mutant: off by one.
SpentLate(j) == NextAttempts(j) > MaxAttempts

Spent(j) == NextAttempts(j) >= MaxAttempts

\* The row that waited longest.  One whose attempts are spent becomes FAILED
\* and is not worked on.
claimOutboxJob(w) ==
    /\ pc[w] = "claim"
    /\ claims[w] < MaxClaims
    /\ \E i \in DOMAIN queue :
          LET j == queue[i]
          IN  /\ j \in Claimable(w)
              /\ \A k \in 1..(i - 1) : queue[k] \notin Claimable(w)
              /\ attempts' = [attempts EXCEPT ![j] = NextAttempts(j)]
              /\ status' = [status EXCEPT ![j] = IF Spent(j) THEN "FAILED"
                                                             ELSE "PROCESSING"]
              /\ erred' = IF Spent(j) THEN erred \cup {j} ELSE erred
              /\ Touch(j)
              /\ holder' = [holder EXCEPT ![j] = w]
              /\ failed' = [failed EXCEPT ![w] = IF Spent(j) THEN @ \cup {j} ELSE @]
              /\ Goto(w, IF Spent(j) THEN "claim" ELSE "request")
              /\ IF Spent(j) THEN UNCHANGED <<job, from, tries>>
                 ELSE /\ job' = [job EXCEPT ![w] = j]
                      /\ from' = [from EXCEPT ![w] = cursor[j]]
                      /\ tries' = [tries EXCEPT ![w] = NextAttempts(j)]
    /\ claims' = [claims EXCEPT ![w] = @ + 1]
    /\ UNCHANGED <<cursor, world, notified, chunks, batch, booted>>

\* Nothing left to claim, or enough claimed.
EndTick(w) ==
    /\ pc[w] = "claim"
    /\ Claimable(w) = {} \/ claims[w] = MaxClaims
    /\ Stop({w})
    /\ UNCHANGED <<table, world, notified, booted>>

-----------------------------------------------------------------------------
(* processNewQuoteRequestFanout.                                            *)
findEstimateRequestForFanout(w) ==
    /\ pc[w] = "request"
    /\ Goto(w, IF job[w] \in open THEN "chunk" ELSE "done")
    /\ UNCHANGED <<table, world, notified, work, tick, booted>>

\* The first ChunkSize matching movers behind the cursor c.
Chunk(j, c) ==
    LET after == {m \in matching[j] : m > c}
    IN  {B \in SUBSET after :
            /\ \A m \in B, k \in after : k < m => k \in B
            /\ \/ Cardinality(B) = ChunkSize
               \/ Cardinality(B) < ChunkSize /\ B = after}

findMoverIdsForNewRequestChunk(w) ==
    /\ pc[w] = "chunk"
    /\ \E B \in Chunk(job[w], from[w]) :
          /\ batch' = [batch EXCEPT ![w] = B]
          /\ Goto(w, IF B = {} THEN "done" ELSE "insert")
    /\ UNCHANGED <<table, world, notified, job, from, chunks, tries, tick, booted>>

\* Mutant: off by one.
ShortChunkToo(w) == Cardinality(batch[w]) <= ChunkSize

ShortChunk(w) == Cardinality(batch[w]) < ChunkSize

\* Who has the notification already is skipped.  A short chunk was the last.
createManyFanoutNotifications(w) ==
    /\ pc[w] = "insert"
    /\ notified' = [notified EXCEPT ![job[w]] = @ \cup batch[w]]
    /\ chunks' = [chunks EXCEPT ![w] = @ + 1]
    /\ \E last \in batch[w] :
          /\ \A m \in batch[w] : m <= last
          /\ from' = [from EXCEPT ![w] = last]
    /\ Goto(w, IF ShortChunk(w) THEN "done"
               ELSE IF chunks[w] + 1 >= MaxChunks THEN "yield" ELSE "advance")
    /\ UNCHANGED <<table, world, job, batch, tries, tick, booted>>

\* The updates go by the id of the row alone, whoever claimed it since.
Wrote(w) ==
    /\ Touch(job[w])
    /\ holder' = [holder EXCEPT ![job[w]] = IF @ = w THEN w ELSE None]

Record(w, newStatus, newCursor) ==
    /\ status' = [status EXCEPT ![job[w]] = newStatus]
    /\ cursor' = [cursor EXCEPT ![job[w]] = newCursor]
    /\ erred' = erred \ {job[w]}
    /\ Wrote(w)
    /\ UNCHANGED <<attempts, world, notified, booted>>

updateOutboxCursor(w) ==
    /\ pc[w] = "advance"
    /\ Record(w, "PROCESSING", from[w])
    /\ Goto(w, "chunk")
    /\ UNCHANGED <<work, tick>>

markOutboxYield(w) ==
    /\ pc[w] = "yield"
    /\ Record(w, "PENDING", from[w])
    /\ Leave(w, FALSE)

markOutboxDone(w) ==
    /\ pc[w] = "done"
    /\ Record(w, "DONE", cursor[job[w]])
    /\ Leave(w, FALSE)

\* A statement fails.
Throws(w) ==
    /\ pc[w] \in Working
    /\ Goto(w, "failure")
    /\ UNCHANGED <<table, world, notified, work, tick, booted>>

markOutboxFailure(w) ==
    /\ pc[w] = "failure"
    /\ status' = [status EXCEPT ![job[w]] =
                     IF tries[w] >= MaxAttempts THEN "FAILED" ELSE "PENDING"]
    /\ erred' = erred \cup {job[w]}
    /\ Wrote(w)
    /\ Leave(w, TRUE)
    /\ UNCHANGED <<cursor, attempts, world, notified, booted>>

\* That update fails as well: the row stays PROCESSING until it is stale.
FailureLost(w) ==
    /\ pc[w] = "failure"
    /\ Leave(w, TRUE)
    /\ UNCHANGED <<table, world, notified, booted>>

\* The claim itself fails, which ends the tick.
TickFails(w) ==
    /\ pc[w] = "claim"
    /\ Stop({w})
    /\ UNCHANGED <<table, world, notified, booted>>

\* The process dies with all its workers.
Crash ==
    /\ \E w \in Workers : pc[w] # "off"
    /\ Stop(Workers)
    /\ booted' = FALSE
    /\ UNCHANGED <<table, world, notified>>

-----------------------------------------------------------------------------
Init ==
    /\ status = [j \in Jobs |-> "NONE"]
    /\ cursor = [j \in Jobs |-> 0]
    /\ attempts = [j \in Jobs |-> 0]
    /\ erred = {}
    /\ stale = {}
    /\ queue = <<>>
    /\ holder = [j \in Jobs |-> None]
    /\ open = Jobs
    /\ matching \in [Jobs -> SUBSET Movers]
    /\ steady = [j \in Jobs |-> {}]
    /\ notified = [j \in Jobs |-> {}]
    /\ pc = [w \in Workers |-> "off"]
    /\ job = [w \in Workers |-> None]
    /\ from = [w \in Workers |-> 0]
    /\ chunks = [w \in Workers |-> 0]
    /\ batch = [w \in Workers |-> {}]
    /\ tries = [w \in Workers |-> 0]
    /\ failed = [w \in Workers |-> {}]
    /\ claims = [w \in Workers |-> 0]
    /\ booted = FALSE

WorkStep(w) ==
    \/ claimOutboxJob(w)
    \/ EndTick(w)
    \/ findEstimateRequestForFanout(w)
    \/ findMoverIdsForNewRequestChunk(w)
    \/ createManyFanoutNotifications(w)
    \/ updateOutboxCursor(w)
    \/ markOutboxYield(w)
    \/ markOutboxDone(w)
    \/ markOutboxFailure(w)
    \/ FailureLost(w)

\* What goes on beside the requests themselves.
Serve ==
    \/ \E j \in Jobs : GoStale(j) \/ \E m \in Movers : EditProfile(j, m)
    \/ \E w \in Workers : StartTick(w) \/ WorkStep(w) \/ Throws(w) \/ TickFails(w)
    \/ Crash

Next ==
    \/ \E j \in Jobs : Enqueue(j) \/ CloseRequest(j)
    \/ Serve

Spec == Init /\ [][Next]_vars

(* Fairness: cron starts a tick every minute, statements return, five       *)
(* minutes pass, not for ever does the process die while it works on a row, *)
(* and not for ever do the claims fail.  Other statements may fail as often *)
(* as they like, and the process may die between two rows as often.         *)
Fairness ==
    /\ \A w \in Workers \ {BootRun} : WF_vars(StartTick(w))
    /\ \A w \in Workers : WF_vars(WorkStep(w)) /\ SF_vars(claimOutboxJob(w))
    /\ \A j \in Jobs : WF_vars(GoStale(j))
    /\ <>[][Crash => \A w \in Workers : pc[w] \in {"off", "claim"}]_vars

FairSpec == Spec /\ Fairness

-----------------------------------------------------------------------------
(* Properties.                                                              *)

\* Every variable keeps to the values its comment gives.
TypeOK ==
    /\ status \in [Jobs -> {"NONE", "PENDING", "PROCESSING", "DONE", "FAILED"}]
    /\ cursor \in [Jobs -> Movers \cup {0}]
    /\ attempts \in [Jobs -> 0..MaxAttempts]
    /\ erred \subseteq Jobs
    /\ stale \subseteq Jobs
    /\ holder \in [Jobs -> Workers \cup {None}]
    /\ open \subseteq Jobs
    /\ matching \in [Jobs -> SUBSET Movers]
    /\ steady \in [Jobs -> SUBSET Movers]
    /\ notified \in [Jobs -> SUBSET Movers]
    /\ pc \in [Workers -> Working \cup {"off", "claim", "failure"}]
    /\ job \in [Workers -> Jobs \cup {None}]
    /\ from \in [Workers -> Movers \cup {0}]
    /\ chunks \in [Workers -> Nat]
    /\ batch \in [Workers -> SUBSET Movers]
    /\ tries \in [Workers -> 0..MaxAttempts]
    /\ failed \in [Workers -> SUBSET Jobs]
    /\ claims \in [Workers -> Nat]
    /\ booted \in BOOLEAN
    /\ \A w \in Workers : pc[w] \in Working \cup {"failure"} => job[w] \in Jobs

\* Everybody who matched all along up to a cursor has the notification.
Covered(j, c) == \A m \in steady[j] : m <= c => m \in notified[j]

Complete(j) == j \in open => steady[j] \subseteq notified[j]

\* A row that is DONE left nobody out, whatever failures, crashes, restarts
\* and takeovers it went through, unless its request is no longer open.
NobodyMissed == \A j \in Jobs : status[j] = "DONE" => Complete(j)

\* No cursor, stored or in a worker's hands, is ahead of the inserts; what a
\* worker is about to insert has no gap.
CursorsCover ==
    /\ \A j \in Jobs : Covered(j, cursor[j])
    /\ \A w \in Workers :
          /\ pc[w] \in Working => Covered(job[w], from[w])
          /\ pc[w] = "done" => Complete(job[w])
          /\ pc[w] = "insert" => \A m \in steady[job[w]] :
                m > from[w] =>
                    \/ m \in batch[w]
                    \/ /\ ~ShortChunk(w)
                       /\ \A k \in batch[w] : k < m

\* The rows in a worker's hands exist, and a new row starts from its first
\* mover.
Enqueued ==
    /\ \A w \in Workers : pc[w] \in Working \cup {"failure"}
                             => status[job[w]] # "NONE"
    /\ \A j \in Jobs : /\ status[j] = "NONE" => cursor[j] = 0
                       /\ steady[j] \subseteq matching[j]

\* The inductive invariant.
Inv == TypeOK /\ NobodyMissed /\ CursorsCover /\ Enqueued

\* A worker that stood still for five minutes is overtaken: another claims its
\* row and works on it beside it.  What follows holds of every row that was
\* written since its last claim by nobody but the worker that made that claim.

\* "claim 재시도 상한 — 초과 시 FAILED": a row whose attempts are spent is FAILED,
\* whoever holds an earlier claim to it, until that worker writes it too (then
\* it may stay PENDING and never be claimed again: README, Findings).
AttemptsSpentIsFailed ==
    \A j \in Jobs :
        attempts[j] = MaxAttempts => status[j] = "FAILED" \/ holder[j] = None

\* Why it is inductive: the row in the hands of the worker that claimed it last
\* is PROCESSING with attempts left, and what that worker knows of it is not
\* behind what is stored.
HeldRow(w) ==
    pc[w] \in Working \cup {"failure"} =>
        /\ holder[job[w]] = w =>
              /\ status[job[w]] = "PROCESSING"
              /\ tries[w] = attempts[job[w]] /\ attempts[job[w]] < MaxAttempts
              /\ from[w] >= cursor[job[w]]
        /\ pc[w] = "insert" => \A m \in batch[w] : m > from[w]
RowsHeld ==
    /\ \A j \in Jobs : status[j] = "NONE" => attempts[j] = 0
    /\ \A w \in Workers : HeldRow(w)

\* A row that is DONE or FAILED is taken up by no claim, and changed, like a
\* cursor that goes back, by nothing but the writes of a worker that was
\* overtaken and what follows them before the next claim.
RowSettled(j) ==
    /\ status[j] \in {"DONE", "FAILED"} => status'[j] = status[j] \/ holder'[j] = None
    /\ cursor'[j] >= cursor[j] \/ holder'[j] = None
SettledRows == [][\A j \in Jobs : RowSettled(j)]_vars

\* Every announcement comes to an end, however often its statements fail and
\* whoever overtakes whom: the row is DONE or FAILED some day, or a worker that
\* was overtaken has put it back with its attempts spent (README, Findings).
EveryRowSettles ==
    \A j \in Jobs : status[j] = "PENDING" ~>
        \/ status[j] \in {"DONE", "FAILED"}
        \/ attempts[j] = MaxAttempts /\ holder[j] = None
=============================================================================
