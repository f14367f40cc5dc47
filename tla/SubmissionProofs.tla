--------------------------- MODULE SubmissionProofs ---------------------------
(***************************************************************************)
(* Proofs about Submission and its two parts, for any number of rows,      *)
(* movers, workers, handlers and days and any limits.  NotificationOutbox: *)
(* a row that is DONE left nobody out, and what one worker makes of the    *)
(* rows is final.  EstimateRequestDraft: what is submitted is complete and *)
(* does not change.  Submission implements both.                           *)
(***************************************************************************)
EXTENDS Submission, FiniteSetTheorems, TLAPS

LEMMA Limits == /\ ChunkSize \in Nat \ {0} /\ MaxChunks \in Nat \ {0}
                /\ MaxClaims \in Nat \ {0} /\ MaxAttempts \in Nat \ {0}
  BY LimitsArePositive

LEMMA Ids == \A m \in Movers \cup {0} : m \in Int
  BY MoversAreIds

LEMMA InitInv == Init => Inv
  <1> SUFFICES ASSUME Init PROVE Inv
    OBVIOUS
  <1>1. TypeOK
    <2>1. 0 \in 0..MaxAttempts
      BY Limits
    <2>2. /\ status \in [Jobs -> {"NONE", "PENDING", "PROCESSING", "DONE", "FAILED"}]
          /\ cursor \in [Jobs -> Movers \cup {0}]
          /\ attempts \in [Jobs -> 0..MaxAttempts]
          /\ matching \in [Jobs -> SUBSET Movers]
          /\ steady \in [Jobs -> SUBSET Movers]
          /\ notified \in [Jobs -> SUBSET Movers]
      BY <2>1 DEF Init
    <2>3. /\ pc \in [Workers -> Working \cup {"off", "claim", "failure"}]
          /\ job \in [Workers -> Jobs \cup {None}]
          /\ from \in [Workers -> Movers \cup {0}]
          /\ chunks \in [Workers -> Nat]
          /\ batch \in [Workers -> SUBSET Movers]
          /\ tries \in [Workers -> 0..MaxAttempts]
          /\ failed \in [Workers -> SUBSET Jobs]
          /\ claims \in [Workers -> Nat]
      BY <2>1 DEF Init
    <2> QED
      BY <2>2, <2>3 DEF Init, TypeOK, Working
  <1>2. NobodyMissed /\ CursorsCover /\ Enqueued
    BY DEF Init, NobodyMissed, CursorsCover, Enqueued, Covered, Working
  <1> QED
    BY <1>1, <1>2 DEF Inv

\* Coverage survives whatever only adds notifications, drops movers from
\* those who matched all along, and closes requests.
LEMMA CoverGrows ==
    ASSUME NEW j \in Jobs, NEW c,
           notified[j] \subseteq notified'[j],
           steady'[j] \subseteq steady[j],
           open' \subseteq open
    PROVE  /\ Covered(j, c) => Covered(j, c)'
           /\ Complete(j) => Complete(j)'
  BY DEF Covered, Complete

\* A step that changes no row and lets workers only forget.
LEMMA StopInv ==
    ASSUME Inv, NEW S \in SUBSET Workers, Stop(S),
           UNCHANGED <<table, world, notified>>, booted' \in BOOLEAN
    PROVE  Inv'
  <1>1. TypeOK'
    <2>1. TypeOK /\ 0 \in 0..MaxAttempts
      BY Limits DEF Inv
    <2> QED
      BY <2>1 DEF TypeOK, Stop, Forget, table, world, Working
  <1>2. NobodyMissed' /\ CursorsCover' /\ Enqueued'
    BY DEF Inv, TypeOK, NobodyMissed, CursorsCover, Enqueued, Covered, Complete,
           Stop, Forget, table, world, Working, ShortChunk
  <1> QED
    BY <1>1, <1>2 DEF Inv

LEMMA WorldInv ==
    ASSUME Inv, NEW j \in Jobs,
           \/ CloseRequest(j) \/ GoStale(j)
           \/ \E m \in Movers : EditProfile(j, m)
    PROVE  Inv'
  <1>1. /\ UNCHANGED <<status, cursor, notified, pc, work>>
        /\ open' \subseteq open
        /\ \A k \in Jobs : /\ steady'[k] \subseteq steady[k]
                           /\ steady'[k] \subseteq matching'[k]
        /\ TypeOK'
    <2>1. CASE CloseRequest(j)
      BY <2>1 DEF Inv, TypeOK, Enqueued, CloseRequest, table, work, tick
    <2>2. CASE GoStale(j)
      BY <2>2 DEF Inv, TypeOK, Enqueued, GoStale, world, work, tick
    <2>3. ASSUME NEW m \in Movers, EditProfile(j, m)
          PROVE  /\ \A k \in Jobs : /\ steady'[k] \subseteq steady[k]
                                    /\ steady'[k] \subseteq matching'[k]
                 /\ TypeOK'
      <3>1. matching' \in [Jobs -> SUBSET Movers]
        BY <2>3 DEF Inv, TypeOK, EditProfile
      <3>2. steady' \in [Jobs -> SUBSET Movers]
        BY <2>3 DEF Inv, TypeOK, EditProfile
      <3> QED
        BY <2>3, <3>1, <3>2
        DEF Inv, TypeOK, Enqueued, EditProfile, table, work, tick
    <2> QED
      BY <2>1, <2>2, <2>3 DEF CloseRequest, GoStale, EditProfile, table, world
  <1>2. \A k \in Jobs : /\ \A c : Covered(k, c) => Covered(k, c)'
                        /\ Complete(k) => Complete(k)'
    BY <1>1, CoverGrows
  <1>3. NobodyMissed'
    BY <1>1, <1>2 DEF Inv, NobodyMissed
  <1>4. CursorsCover'
    BY <1>1, <1>2 DEF Inv, TypeOK, CursorsCover, work, Working, ShortChunk
  <1>5. Enqueued'
    BY <1>1 DEF Inv, Enqueued, work
  <1> QED
    BY <1>1, <1>3, <1>4, <1>5 DEF Inv

\* A new row starts at its first mover, whose id is positive.
LEMMA EnqueueInv ==
    ASSUME Inv, NEW j \in Jobs, Enqueue(j)
    PROVE  Inv'
  <1>1. TypeOK'
    BY DEF Inv, TypeOK, Enqueue, Touch, work, tick
  <1>2. /\ cursor[j] = 0 /\ UNCHANGED <<cursor, open, notified, pc, work>>
        /\ \A w \in Workers : pc[w] \in Working \cup {"failure"} => job[w] # j
        /\ \A k \in Jobs \ {j} : steady'[k] = steady[k] /\ status'[k] = status[k]
        /\ status'[j] = "PENDING" /\ matching' = matching
        /\ steady'[j] = matching[j]
    BY DEF Inv, TypeOK, Enqueued, Enqueue
  <1>3. \A k \in Jobs \ {j} : /\ \A c : Covered(k, c) => Covered(k, c)'
                              /\ Complete(k) => Complete(k)'
    BY <1>2 DEF Covered, Complete
  <1>4. Covered(j, cursor[j])'
    <2>1. \A m \in steady'[j] : m \in Nat \ {0}
      BY <1>1, MoversAreIds DEF TypeOK
    <2> QED
      BY <1>2, <2>1 DEF Covered
  <1>5. NobodyMissed'
    BY <1>2, <1>3 DEF Inv, NobodyMissed
  <1>6. CursorsCover'
    BY <1>2, <1>3, <1>4 DEF Inv, TypeOK, CursorsCover, work, Working, ShortChunk
  <1>7. Enqueued'
    BY <1>2 DEF Inv, TypeOK, Enqueued, work
  <1> QED
    BY <1>1, <1>5, <1>6, <1>7 DEF Inv

\* A claim hands over the stored cursor, which covers.
LEMMA ClaimInv ==
    ASSUME Inv, NEW w \in Workers, claimOutboxJob(w)
    PROVE  Inv'
  <1>1. PICK j \in Jobs :
          /\ j \in Claimable(w)
          /\ attempts' = [attempts EXCEPT ![j] = NextAttempts(j)]
          /\ status' = [status EXCEPT ![j] = IF Spent(j) THEN "FAILED"
                                                         ELSE "PROCESSING"]
          /\ erred' = IF Spent(j) THEN erred \cup {j} ELSE erred
          /\ Touch(j) /\ holder' = [holder EXCEPT ![j] = w]
          /\ failed' = [failed EXCEPT ![w] = IF Spent(j) THEN @ \cup {j} ELSE @]
          /\ Goto(w, IF Spent(j) THEN "claim" ELSE "request")
          /\ IF Spent(j) THEN UNCHANGED <<job, from, tries>>
             ELSE /\ job' = [job EXCEPT ![w] = j]
                  /\ from' = [from EXCEPT ![w] = cursor[j]]
                  /\ tries' = [tries EXCEPT ![w] = NextAttempts(j)]
    BY DEF claimOutboxJob, Claimable
  <1>2. /\ pc[w] = "claim" /\ claims' = [claims EXCEPT ![w] = @ + 1]
        /\ UNCHANGED <<cursor, world, notified, chunks, batch, booted>>
    BY DEF claimOutboxJob
  <1>3. NextAttempts(j) \in 0..MaxAttempts /\ status[j] # "NONE"
    BY <1>1, Limits DEF Inv, TypeOK, Claimable, NextAttempts
  <1>4. TypeOK'
    <2>1. /\ status' \in [Jobs -> {"NONE", "PENDING", "PROCESSING", "DONE", "FAILED"}]
          /\ attempts' \in [Jobs -> 0..MaxAttempts]
          /\ erred' \subseteq Jobs
          /\ stale' \subseteq Jobs
          /\ holder' \in [Jobs -> Workers \cup {None}]
      BY <1>1, <1>3 DEF Inv, TypeOK, Touch
    <2>2. /\ pc' \in [Workers -> Working \cup {"off", "claim", "failure"}]
          /\ failed' \in [Workers -> SUBSET Jobs]
          /\ claims' \in [Workers -> Nat]
      BY <1>1, <1>2 DEF Inv, TypeOK, Goto, Working
    <2>3. /\ job' \in [Workers -> Jobs \cup {None}]
          /\ from' \in [Workers -> Movers \cup {0}]
          /\ tries' \in [Workers -> 0..MaxAttempts]
      <3>1. CASE Spent(j)
        BY <1>1, <3>1 DEF Inv, TypeOK
      <3>2. CASE ~Spent(j)
        <4>1. /\ cursor[j] \in Movers \cup {0} /\ NextAttempts(j) \in 0..MaxAttempts
              /\ job' = [job EXCEPT ![w] = j]
              /\ from' = [from EXCEPT ![w] = cursor[j]]
              /\ tries' = [tries EXCEPT ![w] = NextAttempts(j)]
          BY <1>1, <1>3, <3>2 DEF Inv, TypeOK
        <4> QED
          BY <4>1 DEF Inv, TypeOK
      <3> QED
        BY <3>1, <3>2
    <2>4. \A v \in Workers : pc'[v] \in Working \cup {"failure"} => job'[v] \in Jobs
      BY <1>1, <1>2 DEF Inv, TypeOK, Goto, Working
    <2> QED
      BY <1>2, <2>1, <2>2, <2>3, <2>4 DEF Inv, TypeOK, world
  <1>5. NobodyMissed'
    BY <1>1, <1>2 DEF Inv, TypeOK, NobodyMissed, Complete, world
  <1>6. CursorsCover'
    <2>1. \A k \in Jobs : /\ \A c : Covered(k, c)' = Covered(k, c)
                          /\ Complete(k)' = Complete(k)
      BY <1>2 DEF Covered, Complete, world
    <2>2. \A v \in Workers \ {w} : /\ pc'[v] = pc[v] /\ job'[v] = job[v]
                                   /\ from'[v] = from[v] /\ batch'[v] = batch[v]
      BY <1>1, <1>2 DEF Inv, TypeOK, Goto
    <2>3. \/ pc'[w] = "claim"
          \/ pc'[w] = "request" /\ job'[w] = j /\ from'[w] = cursor[j]
      BY <1>1 DEF Inv, TypeOK, Goto
    <2>4. \A v \in Workers : ShortChunk(v)' = ShortChunk(v)
      BY <1>2 DEF ShortChunk
    <2> QED
      BY <1>1, <1>2, <2>1, <2>2, <2>3, <2>4
      DEF Inv, TypeOK, CursorsCover, Working, world
  <1>7. Enqueued'
    BY <1>1, <1>2, <1>3 DEF Inv, TypeOK, Enqueued, Goto, world, Working
  <1> QED
    BY <1>4, <1>5, <1>6, <1>7 DEF Inv

\* One worker takes a step at its row and touches no row.
LEMMA OwnStepInv ==
    ASSUME Inv, NEW w \in Workers, NEW next \in Working \cup {"failure"},
           Goto(w, next), pc[w] \in Working,
           UNCHANGED <<table, world, notified, job, from, chunks, tries, tick,
                       booted>>,
           \A v \in Workers \ {w} : batch'[v] = batch[v],
           batch' \in [Workers -> SUBSET Movers],
           next = "done" => Complete(job[w]),
           next = "insert" => \A m \in steady[job[w]] :
                m > from[w] =>
                    \/ m \in batch'[w]
                    \/ /\ ~ShortChunk(w)'
                       /\ \A k \in batch'[w] : k < m
    PROVE  Inv'
  <1>1. TypeOK'
    BY DEF Inv, TypeOK, Goto, table, world, tick, Working
  <1>2. \A k \in Jobs : /\ \A c : Covered(k, c)' = Covered(k, c)
                        /\ Complete(k)' = Complete(k)
    BY DEF Covered, Complete, world
  <1>3. /\ pc' = [pc EXCEPT ![w] = next]
        /\ job' = job /\ from' = from /\ steady' = steady
        /\ cursor' = cursor /\ status' = status /\ matching' = matching
    BY DEF Goto, table, world
  <1>4. NobodyMissed'
    BY <1>2, <1>3 DEF Inv, NobodyMissed
  <1>5. CursorsCover'
    <2>1. ASSUME NEW v \in Workers \ {w}
          PROVE  /\ pc'[v] = pc[v] /\ batch'[v] = batch[v]
                 /\ ShortChunk(v)' = ShortChunk(v)
      BY <1>3 DEF ShortChunk, Inv, TypeOK
    <2>2. job[w] \in Jobs /\ pc'[w] = next /\ Covered(job[w], from[w])
      BY <1>3 DEF Inv, TypeOK, CursorsCover
    <2> QED
      BY <1>2, <1>3, <2>1, <2>2 DEF Inv, TypeOK, CursorsCover, Working
  <1>6. Enqueued'
    BY <1>3 DEF Inv, TypeOK, Enqueued, Working
  <1> QED
    BY <1>1, <1>4, <1>5, <1>6 DEF Inv

\* Reading the request: one that is no longer open needs nobody notified.
LEMMA RequestInv ==
    ASSUME Inv, NEW w \in Workers,
           findEstimateRequestForFanout(w) \/ Throws(w)
    PROVE  Inv'
  <1>1. UNCHANGED <<table, world, notified, work, tick, booted>> /\ pc[w] \in Working
    BY DEF findEstimateRequestForFanout, Throws, Working
  <1>2. batch' = batch /\ batch \in [Workers -> SUBSET Movers]
    BY <1>1 DEF work, Inv, TypeOK
  <1>3. PICK next \in {"chunk", "done", "failure"} :
            Goto(w, next) /\ (next = "done" => Complete(job[w]))
    BY DEF findEstimateRequestForFanout, Throws, Complete
  <1> QED
    BY <1>1, <1>2, <1>3, OwnStepInv DEF Working, work

\* A chunk has no gap; an empty one means that nobody is left.
LEMMA ChunkInv ==
    ASSUME Inv, NEW w \in Workers, findMoverIdsForNewRequestChunk(w)
    PROVE  Inv'
  <1> DEFINE j == job[w]
             after == {m \in matching[j] : m > from[w]}
  <1>1. PICK B \in SUBSET after :
          /\ \A m \in B, k \in after : k < m => k \in B
          /\ \/ Cardinality(B) = ChunkSize
             \/ Cardinality(B) < ChunkSize /\ B = after
          /\ batch' = [batch EXCEPT ![w] = B]
          /\ Goto(w, IF B = {} THEN "done" ELSE "insert")
    BY DEF findMoverIdsForNewRequestChunk, Chunk
  <1>a. /\ pc[w] = "chunk"
        /\ UNCHANGED <<table, world, notified, job, from, chunks, tries, tick,
                       booted>>
    BY DEF findMoverIdsForNewRequestChunk
  <1>b. j \in Jobs /\ Covered(j, from[w]) /\ steady[j] \subseteq matching[j]
    BY <1>a DEF Inv, TypeOK, CursorsCover, Enqueued, Working
  <1>c. matching[j] \subseteq Movers /\ from[w] \in Movers \cup {0}
    BY <1>b DEF Inv, TypeOK
  <1>d. from[w] \in Int /\ \A m \in matching[j] : m \in Int
    BY <1>c, Ids
  <1>2. /\ pc[w] = "chunk" /\ j \in Jobs /\ Covered(j, from[w])
        /\ steady[j] \subseteq matching[j] /\ matching[j] \subseteq Movers
        /\ UNCHANGED <<table, world, notified, job, from, chunks, tries, tick,
                       booted>>
    BY <1>a, <1>b, <1>c
  <1>3. B = {} => Complete(j)
    <2>1. ASSUME B = {} PROVE after = {}
      BY <1>1, <2>1, Limits, FS_EmptySet
    <2>2. ASSUME after = {}, NEW m \in steady[j] PROVE m \in notified[j]
      <3>1. ~(m > from[w]) /\ m \in Int
        BY <1>b, <1>d, <2>2
      <3> QED
        BY <1>b, <1>d, <2>2, <3>1 DEF Covered
    <2> QED
      BY <2>1, <2>2 DEF Complete
  <1>4. ASSUME NEW m \in steady[j], m > from[w], m \notin B
        PROVE  ~(Cardinality(B) < ChunkSize) /\ \A k \in B : k < m
    <2>1. m \in after /\ m \in Int
      BY <1>b, <1>d, <1>4
    <2>2. ~(Cardinality(B) < ChunkSize)
      BY <1>1, <1>4, <2>1, Limits
    <2>3. ASSUME NEW k \in B PROVE k < m
      <3>1. ~(m < k) /\ k # m /\ k \in Int
        BY <1>1, <1>4, <1>d, <2>1
      <3> QED
        BY <2>1, <3>1
    <2> QED
      BY <2>2, <2>3
  <1>5. batch' \in [Workers -> SUBSET Movers] /\ batch'[w] = B
        /\ \A v \in Workers \ {w} : batch'[v] = batch[v]
    BY <1>1, <1>2 DEF Inv, TypeOK
  <1>6. PICK next \in {"done", "insert"} :
           /\ Goto(w, next)
           /\ next = "done" => B = {}
    BY <1>1
  <1>7. next = "insert" => \A m \in steady[j] :
                m > from[w] =>
                    \/ m \in batch'[w]
                    \/ /\ ~ShortChunk(w)'
                       /\ \A k \in batch'[w] : k < m
    BY <1>4, <1>5 DEF ShortChunk
  <1>8. /\ next \in Working /\ pc[w] \in Working
        /\ next = "done" => Complete(job[w])
    BY <1>2, <1>3, <1>6 DEF Working
  <1> QED
    BY <1>2, <1>5, <1>6, <1>7, <1>8, OwnStepInv

\* The chunk is inserted first and the cursor moves behind it.
LEMMA InsertInv ==
    ASSUME Inv, NEW w \in Workers, createManyFanoutNotifications(w)
    PROVE  Inv'
  <1> DEFINE j == job[w]
  <1>1. PICK last \in batch[w] :
          /\ \A m \in batch[w] : m <= last
          /\ from' = [from EXCEPT ![w] = last]
    BY DEF createManyFanoutNotifications
  <1>2. /\ pc[w] = "insert"
        /\ notified' = [notified EXCEPT ![j] = @ \cup batch[w]]
        /\ chunks' = [chunks EXCEPT ![w] = @ + 1]
        /\ UNCHANGED <<table, world, job, batch, tries, tick, booted>>
    BY DEF createManyFanoutNotifications
  <1>3. PICK next \in {"done", "yield", "advance"} :
          Goto(w, next) /\ (next = "done" => ShortChunk(w))
    BY DEF createManyFanoutNotifications
  <1>4. /\ TypeOK /\ j \in Jobs /\ last \in Movers /\ last \in Int
        /\ batch[w] \subseteq Movers
    BY <1>1, <1>2, MoversAreIds DEF Inv, TypeOK, Working
  <1>5. TypeOK'
    <2>1. notified' \in [Jobs -> SUBSET Movers]
      BY <1>2, <1>4 DEF TypeOK
    <2>2. /\ from' \in [Workers -> Movers \cup {0}]
          /\ chunks' \in [Workers -> Nat]
          /\ pc' \in [Workers -> Working \cup {"off", "claim", "failure"}]
      BY <1>1, <1>2, <1>3, <1>4 DEF TypeOK, Goto, Working
    <2>3. \A v \in Workers : pc'[v] \in Working \cup {"failure"} => job[v] \in Jobs
      BY <1>2, <1>3, <1>4 DEF TypeOK, Goto, Working
    <2> QED
      BY <1>2, <1>4, <2>1, <2>2, <2>3 DEF TypeOK, table, world, tick
  <1>6. \A k \in Jobs : /\ \A c : Covered(k, c) => Covered(k, c)'
                        /\ Complete(k) => Complete(k)'
    <2>1. \A k \in Jobs : notified[k] \subseteq notified'[k]
      BY <1>2, <1>4 DEF TypeOK
    <2> QED
      BY <1>2, <2>1, CoverGrows DEF world
  <1>7. /\ Covered(j, from[w])
        /\ \A m \in steady[j] : m \in Int /\ from[w] \in Int
        /\ \A m \in steady[j] : m > from[w] =>
              \/ m \in batch[w]
              \/ ~ShortChunk(w) /\ \A k \in batch[w] : k < m
    <2>1. /\ Covered(j, from[w])
          /\ \A m \in steady[j] : m > from[w] =>
                \/ m \in batch[w]
                \/ ~ShortChunk(w) /\ \A k \in batch[w] : k < m
      BY <1>2 DEF Inv, CursorsCover, Working
    <2>2. steady[j] \subseteq Movers /\ from[w] \in Movers \cup {0}
      BY <1>4 DEF TypeOK
    <2> QED
      BY <2>1, <2>2, Ids
  <1>8. Covered(j, last)'
    <2>1. ASSUME NEW m \in steady[j], m <= last
          PROVE  m \in notified[j] \cup batch[w]
      <3>1. CASE m <= from[w]
        BY <1>7, <2>1, <3>1 DEF Covered
      <3>2. CASE m > from[w]
        BY <1>1, <1>4, <1>7, <2>1, <3>2
      <3> QED
        BY <1>7, <3>1, <3>2
    <2> QED
      BY <1>2, <1>4, <2>1 DEF Covered, TypeOK, world
  <1>9. ShortChunk(w) => Complete(j)'
    <2>1. ASSUME ShortChunk(w), NEW m \in steady[j]
          PROVE  m \in notified[j] \cup batch[w]
      BY <1>7, <2>1 DEF Covered
    <2> QED
      BY <1>2, <1>4, <2>1 DEF Complete, TypeOK, world
  <1>10. NobodyMissed'
    BY <1>2, <1>6 DEF Inv, NobodyMissed, table
  <1>11. CursorsCover'
    <2>1. \A k \in Jobs : Covered(k, cursor[k])'
      <3>1. cursor' = cursor
        BY <1>2 DEF table
      <3> QED
        BY <1>6, <3>1 DEF Inv, CursorsCover, Covered
    <2>2. ASSUME NEW v \in Workers \ {w}
          PROVE  /\ pc'[v] = pc[v] /\ batch'[v] = batch[v] /\ job'[v] = job[v]
                 /\ from'[v] = from[v] /\ ShortChunk(v)' = ShortChunk(v)
      BY <1>1, <1>2, <1>3 DEF ShortChunk, TypeOK, Goto
    <2>3. /\ pc'[w] = next /\ from'[w] = last /\ job'[w] = j
      BY <1>1, <1>2, <1>3, <1>4 DEF TypeOK, Goto
    <2>4. steady' = steady
      BY <1>2 DEF world
    <2>5. ASSUME NEW v \in Workers, pc'[v] \in Working
          PROVE  Covered(job[v], from[v])' /\ (pc'[v] = "done" => Complete(job[v])')
      <3>1. CASE v = w
        <4>1. Covered(job[w], from[w])'
          BY <1>8, <2>3 DEF Covered
        <4>2. next = "done" => Complete(job[w])'
          BY <1>3, <1>9, <2>3 DEF Complete
        <4> QED
          BY <2>3, <3>1, <4>1, <4>2
      <3>2. CASE v # w
        <4>1. /\ job[v] \in Jobs /\ Covered(job[v], from[v])
              /\ pc[v] = "done" => Complete(job[v])
          BY <2>2, <2>5, <3>2, <1>4 DEF Inv, TypeOK, CursorsCover
        <4>2. Covered(job[v], from[v])'
          BY <1>6, <2>2, <3>2, <4>1 DEF Covered
        <4>3. pc[v] = "done" => Complete(job[v])'
          BY <1>6, <2>2, <3>2, <4>1 DEF Complete
        <4> QED
          BY <2>2, <3>2, <4>2, <4>3
      <3> QED
        BY <3>1, <3>2
    <2> QED
      BY <1>3, <2>1, <2>2, <2>3, <2>4, <2>5 DEF Inv, CursorsCover, Working
  <1>12. Enqueued'
    BY <1>2, <1>3, <1>4 DEF Inv, Enqueued, TypeOK, Goto, table, world, Working
  <1> QED
    BY <1>5, <1>10, <1>11, <1>12 DEF Inv

\* An update of the row in a worker's hands: its new cursor covers, and it is
\* DONE only when it is complete.
LEMMA RowInv ==
    ASSUME Inv, TypeOK', NEW w \in Workers, NEW j \in Jobs, j = job[w],
           UNCHANGED <<world, notified>>,
           pc'[w] \in {"claim", "chunk"}, pc[w] \in Working \cup {"failure"},
           pc'[w] = "chunk" => /\ job'[w] = j /\ from'[w] = from[w]
                               /\ pc[w] \in Working,
           \A v \in Workers \ {w} : /\ pc'[v] = pc[v] /\ job'[v] = job[v]
                                    /\ from'[v] = from[v] /\ batch'[v] = batch[v],
           \A k \in Jobs \ {j} : status'[k] = status[k] /\ cursor'[k] = cursor[k],
           Covered(j, cursor'[j]),
           status'[j] # "NONE",
           status'[j] = "DONE" => status[j] = "DONE" \/ Complete(j)
    PROVE  Inv'
  <1>1. /\ \A k \in Jobs : \A c : Covered(k, c)' <=> Covered(k, c)
        /\ \A k \in Jobs : Complete(k)' <=> Complete(k)
        /\ steady' = steady /\ matching' = matching /\ open' = open
        /\ notified' = notified
    BY DEF Covered, Complete, world
  <1>2. NobodyMissed'
    BY <1>1 DEF Inv, NobodyMissed
  <1>3. CursorsCover'
    <2>1. \A k \in Jobs : Covered(k, cursor[k])'
      BY <1>1 DEF Inv, CursorsCover, Covered
    <2>2. ASSUME NEW v \in Workers \ {w}
          PROVE  ShortChunk(v)' = ShortChunk(v)
      BY DEF ShortChunk
    <2>3. ASSUME NEW v \in Workers, pc'[v] \in Working
          PROVE  /\ Covered(job[v], from[v])'
                 /\ pc'[v] = "done" => Complete(job[v])'
      <3>1. /\ pc[v] \in Working /\ job'[v] = job[v] /\ from'[v] = from[v]
            /\ pc'[v] = "done" => pc[v] = "done"
        BY <2>3 DEF Working
      <3>2. /\ Covered(job[v], from[v])
            /\ pc'[v] = "done" => Complete(job[v])
        BY <3>1 DEF Inv, CursorsCover
      <3> QED
        BY <1>1, <3>1, <3>2 DEF Covered, Complete
    <2>4. ASSUME NEW v \in Workers, pc'[v] = "insert",
                 NEW m \in steady'[job'[v]], m > from'[v]
          PROVE  \/ m \in batch'[v]
                 \/ ~ShortChunk(v)' /\ \A k \in batch'[v] : k < m
      <3>1. /\ v # w /\ pc[v] = "insert" /\ m \in steady[job[v]] /\ m > from[v]
            /\ batch'[v] = batch[v] /\ ShortChunk(v)' = ShortChunk(v)
        BY <1>1, <2>2, <2>4
      <3>2. m \in batch[v] \/ (~ShortChunk(v) /\ \A k \in batch[v] : k < m)
        BY <3>1 DEF Inv, CursorsCover
      <3> QED
        BY <3>1, <3>2
    <2> QED
      BY <2>1, <2>3, <2>4 DEF CursorsCover, Working
  <1>4. Enqueued'
    <2>1. ASSUME NEW v \in Workers, pc'[v] \in Working \cup {"failure"}
          PROVE  status'[job'[v]] # "NONE"
      BY <2>1 DEF Inv, TypeOK, Enqueued, Working
    <2> QED
      BY <1>1, <2>1 DEF Inv, Enqueued
  <1> QED
    BY <1>2, <1>3, <1>4 DEF Inv

\* Saving the cursor, yielding and ending.
LEMMA RecordInv ==
    ASSUME Inv, NEW w \in Workers,
           updateOutboxCursor(w) \/ markOutboxYield(w) \/ markOutboxDone(w)
    PROVE  Inv'
  <1> DEFINE j == job[w]
  <1>1. /\ TypeOK /\ pc[w] \in Working /\ j \in Jobs
        /\ Covered(j, from[w]) /\ Covered(j, cursor[j])
        /\ pc[w] = "done" => Complete(j)
        /\ from[w] \in Movers \cup {0} /\ cursor[j] \in Movers \cup {0}
    BY DEF Inv, TypeOK, CursorsCover, updateOutboxCursor, markOutboxYield,
           markOutboxDone, Working
  <1>2. PICK s \in {"PROCESSING", "PENDING", "DONE"}, c \in {from[w], cursor[j]} :
           Record(w, s, c) /\ (s = "DONE" => pc[w] = "done")
    BY DEF updateOutboxCursor, markOutboxYield, markOutboxDone
  <1>3. /\ status' = [status EXCEPT ![j] = s]
        /\ cursor' = [cursor EXCEPT ![j] = c]
        /\ erred' = erred \ {j} /\ stale' = stale \ {j}
        /\ holder' = [holder EXCEPT ![j] = IF @ = w THEN w ELSE None]
        /\ UNCHANGED <<attempts, world, notified, booted>>
    BY <1>2 DEF Record, Wrote, Touch
  <1>4. \/ Goto(w, "chunk") /\ UNCHANGED <<work, tick>>
        \/ Leave(w, FALSE)
    BY DEF updateOutboxCursor, markOutboxYield, markOutboxDone
  <1>5. /\ \A v \in Workers \ {w} : /\ pc'[v] = pc[v] /\ job'[v] = job[v]
                                    /\ from'[v] = from[v] /\ batch'[v] = batch[v]
        /\ pc'[w] \in {"claim", "chunk"}
        /\ pc'[w] = "chunk" => job'[w] = j /\ from'[w] = from[w]
    BY <1>1, <1>4 DEF TypeOK, Goto, Leave, Forget, work
  <1>6. TypeOK'
    <2>1. /\ pc' \in [Workers -> Working \cup {"off", "claim", "failure"}]
          /\ job' \in [Workers -> Jobs \cup {None}]
          /\ from' \in [Workers -> Movers \cup {0}]
          /\ chunks' \in [Workers -> Nat]
          /\ batch' \in [Workers -> SUBSET Movers]
          /\ tries' \in [Workers -> 0..MaxAttempts]
      BY <1>1, <1>4, Limits DEF TypeOK, Goto, Leave, Forget, work, Working
    <2>2. /\ failed' \in [Workers -> SUBSET Jobs]
          /\ claims' \in [Workers -> Nat]
      BY <1>1, <1>4 DEF TypeOK, Leave, tick
    <2>3. \A v \in Workers : pc'[v] \in Working \cup {"failure"} => job'[v] \in Jobs
      BY <1>1, <1>5 DEF TypeOK, Working
    <2>4. /\ status' \in [Jobs -> {"NONE", "PENDING", "PROCESSING", "DONE", "FAILED"}]
          /\ cursor' \in [Jobs -> Movers \cup {0}]
          /\ erred' \subseteq Jobs /\ stale' \subseteq Jobs
          /\ holder' \in [Jobs -> Workers \cup {None}]
      BY <1>1, <1>2, <1>3 DEF TypeOK
    <2> QED
      BY <1>1, <1>3, <2>1, <2>2, <2>3, <2>4 DEF TypeOK, world
  <1>7. /\ \A k \in Jobs \ {j} : status'[k] = status[k] /\ cursor'[k] = cursor[k]
        /\ status'[j] = s /\ cursor'[j] = c
    BY <1>1, <1>3 DEF TypeOK
  <1>8. Covered(j, cursor'[j])
    BY <1>1, <1>2, <1>7
  <1> HIDE DEF j
  <1>9. j = job[w]
    BY DEF j
  <1> QED
    BY <1>1, <1>2, <1>3, <1>5, <1>6, <1>7, <1>8, <1>9, RowInv

LEMMA FailureInv ==
    ASSUME Inv, NEW w \in Workers, markOutboxFailure(w)
    PROVE  Inv'
  <1> DEFINE j == job[w]
  <1>1. /\ TypeOK /\ pc[w] = "failure" /\ j \in Jobs /\ Covered(j, cursor[j])
        /\ Leave(w, TRUE)
        /\ status' = [status EXCEPT ![j] =
                        IF tries[w] >= MaxAttempts THEN "FAILED" ELSE "PENDING"]
        /\ erred' = erred \cup {j} /\ stale' = stale \ {j}
        /\ holder' = [holder EXCEPT ![j] = IF @ = w THEN w ELSE None]
        /\ UNCHANGED <<cursor, attempts, world, notified, booted>>
    BY DEF Inv, TypeOK, CursorsCover, markOutboxFailure, Wrote, Touch
  <1>2. /\ \A v \in Workers \ {w} : /\ pc'[v] = pc[v] /\ job'[v] = job[v]
                                    /\ from'[v] = from[v] /\ batch'[v] = batch[v]
        /\ pc'[w] = "claim"
    BY <1>1 DEF TypeOK, Goto, Leave, Forget
  <1>3. TypeOK'
    <2>1. /\ pc' \in [Workers -> Working \cup {"off", "claim", "failure"}]
          /\ job' \in [Workers -> Jobs \cup {None}]
          /\ from' \in [Workers -> Movers \cup {0}]
          /\ chunks' \in [Workers -> Nat]
          /\ batch' \in [Workers -> SUBSET Movers]
          /\ tries' \in [Workers -> 0..MaxAttempts]
      BY <1>1, Limits DEF TypeOK, Goto, Leave, Forget, Working
    <2>2. /\ failed' \in [Workers -> SUBSET Jobs]
          /\ claims' \in [Workers -> Nat]
      BY <1>1 DEF TypeOK, Leave
    <2>3. \A v \in Workers : pc'[v] \in Working \cup {"failure"} => job'[v] \in Jobs
      BY <1>1, <1>2 DEF TypeOK, Working
    <2>4. /\ status' \in [Jobs -> {"NONE", "PENDING", "PROCESSING", "DONE", "FAILED"}]
          /\ erred' \subseteq Jobs /\ stale' \subseteq Jobs
          /\ holder' \in [Jobs -> Workers \cup {None}]
      BY <1>1 DEF TypeOK
    <2> QED
      BY <1>1, <2>1, <2>2, <2>3, <2>4 DEF TypeOK, world
  <1>4. /\ \A k \in Jobs \ {j} : status'[k] = status[k] /\ cursor'[k] = cursor[k]
        /\ status'[j] \in {"FAILED", "PENDING"} /\ cursor'[j] = cursor[j]
    BY <1>1 DEF TypeOK
  <1> HIDE DEF j
  <1>5. j = job[w]
    BY DEF j
  <1> QED
    BY <1>1, <1>2, <1>3, <1>4, <1>5, RowInv

\* A row left without a word, and a tick that starts.
LEMMA LeaveInv ==
    ASSUME Inv, NEW w \in Workers, FailureLost(w) \/ StartTick(w)
    PROVE  Inv'
  <1>1. CASE FailureLost(w)
    <2>1. /\ pc[w] = "failure" /\ job[w] \in Jobs /\ Leave(w, TRUE)
          /\ UNCHANGED <<table, world, notified, booted>>
      BY <1>1 DEF FailureLost, Inv, TypeOK
    <2>2. TypeOK'
      BY <2>1, Limits
      DEF Inv, TypeOK, Goto, Leave, Forget, table, world, Working
    <2>3. /\ \A v \in Workers \ {w} : /\ pc'[v] = pc[v] /\ job'[v] = job[v]
                                      /\ from'[v] = from[v] /\ batch'[v] = batch[v]
          /\ pc'[w] = "claim"
      BY <2>1 DEF Inv, TypeOK, Goto, Leave, Forget
    <2>4. Covered(job[w], cursor[job[w]]) /\ status[job[w]] # "NONE"
      BY <2>1 DEF Inv, CursorsCover, Enqueued
    <2> QED
      BY <2>1, <2>2, <2>3, <2>4, RowInv DEF table
  <1>2. CASE StartTick(w)
    <2>1. TypeOK'
      BY <1>2 DEF Inv, TypeOK, StartTick, Goto, table, world, work, tick, Working
    <2>2. NobodyMissed' /\ CursorsCover' /\ Enqueued'
      BY <1>2 DEF Inv, TypeOK, NobodyMissed, CursorsCover, Enqueued, Covered,
         Complete, StartTick, Goto, table, world, work, Working, ShortChunk
    <2> QED
      BY <2>1, <2>2 DEF Inv
  <1> QED
    BY <1>1, <1>2

LEMMA NextInv == Inv /\ [Next]_vars => Inv'
  <1> SUFFICES ASSUME Inv, [Next]_vars PROVE Inv'
    OBVIOUS
  <1>1. CASE UNCHANGED vars
    <2>1. TypeOK'
      BY <1>1 DEF Inv, TypeOK, vars, table, world, work, tick, Working
    <2>2. NobodyMissed' /\ CursorsCover' /\ Enqueued'
      BY <1>1 DEF Inv, NobodyMissed, CursorsCover, Enqueued, Covered, Complete,
         vars, table, world, work, Working, ShortChunk
    <2> QED
      BY <2>1, <2>2 DEF Inv
  <1>2. ASSUME NEW j \in Jobs,
               \/ Enqueue(j) \/ CloseRequest(j) \/ GoStale(j)
               \/ \E m \in Movers : EditProfile(j, m)
        PROVE  Inv'
    BY <1>2, EnqueueInv, WorldInv
  <1>3. ASSUME NEW w \in Workers, EndTick(w) \/ TickFails(w)
        PROVE  Inv'
    <2>1. /\ Stop({w}) /\ UNCHANGED <<table, world, notified>> /\ booted' = booted
          /\ {w} \in SUBSET Workers
      BY <1>3 DEF EndTick, TickFails
    <2> QED
      BY <2>1, StopInv DEF Inv, TypeOK
  <1>4. CASE Crash
    BY <1>4, StopInv DEF Crash
  <1>5. ASSUME NEW w \in Workers,
               StartTick(w) \/ WorkStep(w) \/ Throws(w) \/ TickFails(w)
        PROVE  Inv'
    BY <1>3, <1>5, ClaimInv, RequestInv, ChunkInv, InsertInv, RecordInv,
       FailureInv, LeaveInv DEF WorkStep
  <1> QED
    BY <1>1, <1>2, <1>4, <1>5 DEF Next, Serve

\* In every reachable state no cursor is ahead of the inserts.
THEOREM InvHolds == Spec => []Inv
  BY InitInv, NextInv, PTL DEF Spec

\* A finished announcement reached every mover who matched all along, for any
\* number of workers taking rows over from each other, crashing and failing.
THEOREM NobodyIsMissed == Spec => []NobodyMissed
  <1>1. Inv => NobodyMissed
    BY DEF Inv
  <1> QED
    BY <1>1, InvHolds, PTL

-----------------------------------------------------------------------------
(* A row's attempts and its cursor keep order in the hands of the worker    *)
(* that claimed it last.  (Two workers may hold one row: a tick that stood  *)
(* still for five minutes and the one that took its row over.)              *)
Held == Working \cup {"failure"}
Rows == AttemptsSpentIsFailed /\ RowsHeld
RowsStep == Rows' /\ \A j \in Jobs : RowSettled(j)

LEMMA RowsInit == Init => Rows
  <1> SUFFICES ASSUME Init PROVE Rows
    OBVIOUS
  <1>1. AttemptsSpentIsFailed
    BY Limits DEF Init, AttemptsSpentIsFailed
  <1>2. RowsHeld
    BY DEF Init, RowsHeld, HeldRow, Working
  <1> QED
    BY <1>1, <1>2 DEF Rows

\* A step that updates no row, and after which a worker holds what it held.
LEMMA QuietRows ==
    ASSUME Inv, Rows, UNCHANGED <<status, cursor, attempts, holder>>,
           \A w \in Workers :
              pc'[w] \in Held =>
                 /\ pc[w] \in Held
                 /\ UNCHANGED <<job[w], from[w], tries[w]>>
                 /\ pc'[w] = "insert" => \A m \in batch'[w] : m > from[w]
    PROVE  RowsStep
  <1>1. AttemptsSpentIsFailed'
    BY DEF Rows, AttemptsSpentIsFailed
  <1>2. ASSUME NEW w \in Workers, pc'[w] \in Held PROVE HeldRow(w)'
    <2>1. /\ HeldRow(w) /\ pc[w] \in Held
          /\ UNCHANGED <<job[w], from[w], tries[w]>>
          /\ pc'[w] = "insert" => \A m \in batch'[w] : m > from[w]
      BY <1>2 DEF Rows, RowsHeld
    <2> QED
      BY <2>1 DEF HeldRow, Held
  <1>3. RowsHeld'
    BY <1>2 DEF Rows, RowsHeld, HeldRow, Held
  <1>4. \A j \in Jobs : cursor[j] \in Int
    BY Ids DEF Inv, TypeOK
  <1>5. \A j \in Jobs : RowSettled(j)
    BY <1>4 DEF RowSettled
  <1> QED
    BY <1>1, <1>3, <1>5 DEF RowsStep, Rows

\* A step of one worker at the row j in its hands.  If its claim to the row is
\* the last, the cursor moves up and the row was not settled; if it is not,
\* either nothing of the row changes or the row has no holder any more.
LEMMA HeldRows ==
    ASSUME Inv, Rows, NEW w \in Workers, pc[w] \in Held,
           NEW j \in Jobs, j = job[w],
           UNCHANGED attempts,
           \A v \in Workers \ {w} :
              UNCHANGED <<pc[v], job[v], from[v], tries[v], batch[v]>>,
           \A k \in Jobs \ {j} : UNCHANGED <<status[k], cursor[k], holder[k]>>,
           holder'[j] \in {holder[j], None},
           holder[j] = w => cursor'[j] >= cursor[j],
           holder[j] # w => \/ holder'[j] = None
                            \/ UNCHANGED <<status[j], cursor[j]>>,
           status'[j] # "NONE",
           HeldRow(w)'
    PROVE  RowsStep
  <1>1. /\ holder[j] = w => status[j] = "PROCESSING" /\ attempts[j] < MaxAttempts
        /\ \A k \in Jobs : cursor[k] \in Int /\ attempts[k] \in Int
        /\ MaxAttempts \in Int
    BY Ids, Limits DEF Rows, RowsHeld, HeldRow, Held, Inv, TypeOK
  <1>2. AttemptsSpentIsFailed'
    <2>1. ASSUME NEW k \in Jobs, attempts[k] = MaxAttempts
          PROVE  status'[k] = "FAILED" \/ holder'[k] = None
      <3>1. status[k] = "FAILED" \/ holder[k] = None
        BY <2>1 DEF Rows, AttemptsSpentIsFailed
      <3>2. CASE k = j
        BY <1>1, <2>1, <3>1, <3>2
      <3> QED
        BY <3>1, <3>2
    <2> QED
      BY <2>1 DEF AttemptsSpentIsFailed
  <1>3. ASSUME NEW v \in Workers, v # w PROVE HeldRow(v)'
    <2> SUFFICES ASSUME pc[v] \in Held PROVE HeldRow(v)'
      BY <1>3 DEF HeldRow, Held
    <2>1. /\ HeldRow(v) /\ job[v] \in Jobs
          /\ UNCHANGED <<pc[v], job[v], from[v], tries[v], batch[v]>>
      BY <1>3 DEF Rows, RowsHeld, Inv, TypeOK, Held
    <2>2. holder'[job[v]] = v
             => /\ holder[job[v]] = v
                /\ UNCHANGED <<status[job[v]], cursor[job[v]]>>
      BY <1>3, <2>1, NoneIsNull
    <2> QED
      BY <2>1, <2>2 DEF HeldRow, Held
  <1>4. RowsHeld'
    BY <1>3 DEF Rows, RowsHeld
  <1>5. ASSUME NEW k \in Jobs PROVE RowSettled(k)
    <2>1. CASE k = j
      BY <1>1, <2>1 DEF RowSettled
    <2>2. CASE k # j
      BY <1>1, <2>2 DEF RowSettled
    <2> QED
      BY <2>1, <2>2
  <1> QED
    BY <1>2, <1>4, <1>5 DEF RowsStep, Rows

LEMMA EnqueueRows ==
    ASSUME Inv, Rows, NEW j \in Jobs, Enqueue(j)
    PROVE  RowsStep
  <1>1. /\ status' = [status EXCEPT ![j] = "PENDING"] /\ status[j] = "NONE"
        /\ UNCHANGED <<cursor, attempts, holder, pc, job, from, batch, tries>>
        /\ \A k \in Jobs : cursor[k] \in Int
    BY Ids DEF Enqueue, work, Inv, TypeOK
  <1>2. /\ \A k \in Jobs \ {j} : status'[k] = status[k]
        /\ status'[j] = "PENDING" /\ attempts[j] # MaxAttempts
    BY <1>1, Limits DEF Inv, TypeOK, Rows, RowsHeld
  <1>3. AttemptsSpentIsFailed'
    BY <1>1, <1>2 DEF Rows, AttemptsSpentIsFailed
  <1>4. \A w \in Workers : HeldRow(w)'
    <2> SUFFICES ASSUME NEW w \in Workers, pc[w] \in Held PROVE HeldRow(w)'
      BY <1>1 DEF HeldRow, Held
    <2>1. job[w] \in Jobs /\ HeldRow(w) /\ job[w] # j
      BY <1>1 DEF Inv, TypeOK, Enqueued, Rows, RowsHeld, Held
    <2> QED
      BY <1>1, <1>2, <2>1 DEF HeldRow
  <1>5. \A k \in Jobs : status'[k] = "NONE" => attempts'[k] = 0
    BY <1>1, <1>2 DEF Rows, RowsHeld
  <1>6. \A k \in Jobs : RowSettled(k)
    BY <1>1, <1>2 DEF RowSettled
  <1> QED
    BY <1>3, <1>4, <1>5, <1>6 DEF RowsStep, Rows, RowsHeld

\* A claim spends an attempt, the last one fails the row at once, and whoever
\* else has the row in hand does not hold it any more.
LEMMA ClaimRows ==
    ASSUME Inv, Rows, NEW w \in Workers, claimOutboxJob(w)
    PROVE  RowsStep
  <1>1. PICK j \in Jobs :
          /\ j \in Claimable(w)
          /\ attempts' = [attempts EXCEPT ![j] = NextAttempts(j)]
          /\ status' = [status EXCEPT ![j] = IF Spent(j) THEN "FAILED"
                                                         ELSE "PROCESSING"]
          /\ holder' = [holder EXCEPT ![j] = w]
          /\ Goto(w, IF Spent(j) THEN "claim" ELSE "request")
          /\ IF Spent(j) THEN UNCHANGED <<job, from, tries>>
             ELSE /\ job' = [job EXCEPT ![w] = j]
                  /\ from' = [from EXCEPT ![w] = cursor[j]]
                  /\ tries' = [tries EXCEPT ![w] = NextAttempts(j)]
    BY DEF claimOutboxJob, Claimable
  <1>2. /\ UNCHANGED <<cursor, batch>> /\ TypeOK
        /\ \A k \in Jobs : cursor[k] \in Int
    BY Ids DEF claimOutboxJob, Inv, TypeOK
  <1>3. /\ status[j] \in {"PENDING", "PROCESSING"}
        /\ NextAttempts(j) \in 0..MaxAttempts
        /\ Spent(j) <=> NextAttempts(j) = MaxAttempts
    <2>1. /\ attempts[j] \in 0..MaxAttempts /\ attempts[j] < MaxAttempts
          /\ status[j] \in {"PENDING", "PROCESSING"}
      BY <1>1, <1>2 DEF TypeOK, Claimable
    <2> QED
      BY <2>1, Limits DEF NextAttempts, Spent
  <1>4. /\ \A k \in Jobs \ {j} : UNCHANGED <<status[k], attempts[k], holder[k]>>
        /\ attempts'[j] = NextAttempts(j) /\ holder'[j] = w
        /\ status'[j] = IF Spent(j) THEN "FAILED" ELSE "PROCESSING"
    BY <1>1, <1>2 DEF TypeOK
  <1>5. AttemptsSpentIsFailed'
    <2>1. ASSUME NEW k \in Jobs, attempts'[k] = MaxAttempts
          PROVE  status'[k] = "FAILED" \/ holder'[k] = None
      BY <1>3, <1>4, <2>1 DEF Rows, AttemptsSpentIsFailed
    <2> QED
      BY <2>1 DEF AttemptsSpentIsFailed
  <1>6. \A k \in Jobs : status'[k] = "NONE" => attempts'[k] = 0
    BY <1>3, <1>4 DEF Rows, RowsHeld
  <1>7. HeldRow(w)'
    <2>1. CASE Spent(j)
      BY <1>1, <1>2, <2>1 DEF HeldRow, Goto, TypeOK, Working
    <2>2. CASE ~Spent(j)
      <3>1. /\ pc'[w] = "request" /\ job'[w] = j /\ from'[w] = cursor[j]
            /\ tries'[w] = NextAttempts(j)
        BY <1>1, <1>2, <2>2 DEF Goto, TypeOK
      <3>2. NextAttempts(j) < MaxAttempts
        BY <1>3, <2>2, Limits
      <3> QED
        BY <1>2, <1>4, <2>2, <3>1, <3>2 DEF HeldRow
    <2> QED
      BY <2>1, <2>2
  <1>8. ASSUME NEW v \in Workers, v # w PROVE HeldRow(v)'
    <2>1. /\ HeldRow(v)
          /\ pc[v] \in Held => job[v] \in Jobs
          /\ UNCHANGED <<pc[v], job[v], from[v], tries[v], batch[v]>>
      BY <1>1, <1>2, <1>8 DEF Goto, TypeOK, Rows, RowsHeld, Held
    <2>2. CASE pc[v] \in Held /\ job[v] # j
      BY <1>2, <1>4, <2>1, <2>2 DEF HeldRow, Held
    <2>3. CASE pc[v] \in Held /\ job[v] = j
      BY <1>4, <1>8, <2>1, <2>3 DEF HeldRow, Held
    <2>4. CASE pc[v] \notin Held
      BY <2>1, <2>4 DEF HeldRow, Held
    <2> QED
      BY <2>2, <2>3, <2>4
  <1>9. \A k \in Jobs : RowSettled(k)
    BY <1>2, <1>3, <1>4 DEF RowSettled
  <1> QED
    BY <1>5, <1>6, <1>7, <1>8, <1>9 DEF RowsStep, Rows, RowsHeld

\* The worker reads the request and the next movers, or a statement fails.
LEMMA ReadRows ==
    ASSUME Inv, Rows, NEW w \in Workers,
           \/ findEstimateRequestForFanout(w) \/ Throws(w)
           \/ findMoverIdsForNewRequestChunk(w)
    PROVE  RowsStep
  <1>1. /\ pc[w] \in Held /\ TypeOK
        /\ UNCHANGED <<status, cursor, attempts, holder, job, from, tries>>
        /\ \A v \in Workers \ {w} : UNCHANGED <<pc[v], batch[v]>>
    BY DEF findEstimateRequestForFanout, Throws, findMoverIdsForNewRequestChunk,
           Held, Working, table, work, Goto, Inv, TypeOK
  <1>2. pc'[w] = "insert" => \A m \in batch'[w] : m > from[w]
    <2>1. CASE findEstimateRequestForFanout(w) \/ Throws(w)
      BY <2>1 DEF findEstimateRequestForFanout, Throws, Goto, Inv, TypeOK
    <2>2. CASE findMoverIdsForNewRequestChunk(w)
      <3>1. PICK B \in Chunk(job[w], from[w]) : batch' = [batch EXCEPT ![w] = B]
        BY <2>2 DEF findMoverIdsForNewRequestChunk
      <3>2. \A m \in B : m > from[w]
        BY <3>1 DEF Chunk
      <3> QED
        BY <3>1, <3>2 DEF Inv, TypeOK
    <2> QED
      BY <2>1, <2>2
  <1>3. ASSUME NEW v \in Workers, pc'[v] \in Held, v # w
        PROVE  /\ pc[v] \in Held
               /\ pc'[v] = "insert" => \A m \in batch'[v] : m > from[v]
    BY <1>1, <1>3 DEF Rows, RowsHeld, HeldRow, Working
  <1> QED
    BY <1>1, <1>2, <1>3, QuietRows

\* The cursor in its hands moves up to the last mover of the chunk.
LEMMA InsertRows ==
    ASSUME Inv, Rows, NEW w \in Workers, createManyFanoutNotifications(w)
    PROVE  RowsStep
  <1>1. PICK last \in batch[w] : from' = [from EXCEPT ![w] = last]
    BY DEF createManyFanoutNotifications
  <1>2. /\ pc[w] = "insert" /\ TypeOK /\ job[w] \in Jobs /\ HeldRow(w)
        /\ UNCHANGED <<status, cursor, attempts, holder, job, tries, batch>>
        /\ status[job[w]] # "NONE"
    BY DEF createManyFanoutNotifications, Inv, TypeOK, Enqueued, Rows, RowsHeld,
           table, Working
  <1>3. /\ pc'[w] \in {"done", "yield", "advance"} /\ from'[w] = last
        /\ \A v \in Workers \ {w} : UNCHANGED <<pc[v], from[v]>>
    BY <1>1, <1>2 DEF createManyFanoutNotifications, Goto, TypeOK
  <1>4. /\ last > from[w]
        /\ last \in Int /\ from[w] \in Int
        /\ \A k \in Jobs : cursor[k] \in Int
    BY <1>1, <1>2, Ids DEF HeldRow, TypeOK, Working
  <1>5. HeldRow(w)'
    BY <1>2, <1>3, <1>4 DEF HeldRow, Working
  <1> QED
    BY <1>2, <1>3, <1>4, <1>5, HeldRows DEF Held, Working

\* The updates that go by the row's id alone: the worker that claimed the row
\* last finds it as its claim left it, any other leaves it without a holder.
LEMMA RecordRows ==
    ASSUME Inv, Rows, NEW w \in Workers,
           \/ updateOutboxCursor(w) \/ markOutboxYield(w) \/ markOutboxDone(w)
           \/ markOutboxFailure(w)
    PROVE  RowsStep
  <1>1. PICK j \in Jobs : j = job[w]
    BY DEF updateOutboxCursor, markOutboxYield, markOutboxDone, markOutboxFailure,
           Working, Inv, TypeOK
  <1>2. /\ pc[w] \in Held /\ TypeOK /\ HeldRow(w)
        /\ UNCHANGED attempts
    BY DEF updateOutboxCursor, markOutboxYield, markOutboxDone, markOutboxFailure,
           Record, Held, Working, Inv, Rows, RowsHeld
  <1>3. /\ from[w] \in Int /\ cursor[j] \in Int
        /\ holder[j] = w => /\ from[w] >= cursor[j] /\ tries[w] = attempts[j]
                            /\ attempts[j] < MaxAttempts
    BY <1>1, <1>2, Ids DEF HeldRow, Held, TypeOK
  <1>4. PICK s \in {"PROCESSING", "PENDING", "DONE", "FAILED"}, c \in {from[w], cursor[j]} :
           /\ status' = [status EXCEPT ![j] = s]
           /\ cursor' = [cursor EXCEPT ![j] = c]
           /\ holder' = [holder EXCEPT ![j] = IF @ = w THEN w ELSE None]
           /\ \/ Leave(w, FALSE) \/ Leave(w, TRUE)
              \/ /\ Goto(w, "chunk") /\ UNCHANGED work
                 /\ s = "PROCESSING" /\ c = from[w]
    <2>1. CASE updateOutboxCursor(w)
      BY <1>1, <1>2, <2>1 DEF updateOutboxCursor, Record, Wrote
    <2>2. CASE markOutboxYield(w)
      BY <1>1, <1>2, <2>2 DEF markOutboxYield, Record, Wrote
    <2>3. CASE markOutboxDone(w)
      BY <1>1, <1>2, <2>3 DEF markOutboxDone, Record, Wrote
    <2>4. CASE markOutboxFailure(w)
      <3>1. cursor' = [cursor EXCEPT ![j] = cursor[j]]
        BY <1>1, <1>2, <2>4 DEF markOutboxFailure, TypeOK
      <3> QED
        BY <1>1, <1>2, <2>4, <3>1 DEF markOutboxFailure, Wrote
    <2> QED
      BY <2>1, <2>2, <2>3, <2>4
  <1>5. /\ \A k \in Jobs \ {j} : UNCHANGED <<status[k], cursor[k], holder[k]>>
        /\ status'[j] = s /\ cursor'[j] = c
        /\ holder'[j] = IF holder[j] = w THEN w ELSE None
    BY <1>2, <1>4 DEF TypeOK
  <1>6. /\ \A v \in Workers \ {w} :
              UNCHANGED <<pc[v], job[v], from[v], tries[v], batch[v]>>
        /\ \/ pc'[w] = "claim"
           \/ /\ pc'[w] = "chunk" /\ UNCHANGED work
              /\ s = "PROCESSING" /\ c = from[w]
    BY <1>2, <1>4 DEF TypeOK, Goto, Leave, Forget, work
  <1>7. HeldRow(w)'
    BY <1>1, <1>2, <1>3, <1>5, <1>6, NoneIsNull DEF HeldRow, Held, Working, work
  <1>8. /\ holder[j] = w => cursor'[j] >= cursor[j]
        /\ status'[j] # "NONE"
        /\ holder'[j] \in {holder[j], None}
        /\ holder[j] # w => holder'[j] = None
    BY <1>3, <1>5
  <1> QED
    BY <1>1, <1>2, <1>5, <1>6, <1>7, <1>8, HeldRows

LEMMA NextRows ==
    ASSUME Inv, Rows, [Next]_vars
    PROVE  RowsStep
  <1>0. TypeOK
    BY DEF Inv
  <1>1. ASSUME UNCHANGED <<status, cursor, attempts, holder, pc, job, from, batch, tries>>
        PROVE  RowsStep
    BY <1>1, QuietRows DEF Rows, RowsHeld, HeldRow, Held
  <1>2. CASE UNCHANGED vars
    BY <1>1, <1>2 DEF vars, table, work
  <1>3. ASSUME NEW j \in Jobs,
               \/ CloseRequest(j) \/ GoStale(j)
               \/ \E m \in Movers : EditProfile(j, m)
        PROVE  RowsStep
    BY <1>1, <1>3 DEF CloseRequest, GoStale, EditProfile, table, work
  <1>4. ASSUME NEW w \in Workers,
               StartTick(w) \/ EndTick(w) \/ TickFails(w) \/ FailureLost(w)
        PROVE  RowsStep
    <2>1. /\ UNCHANGED <<status, cursor, attempts, holder>>
          /\ pc'[w] \in {"claim", "off"}
          /\ \A v \in Workers \ {w} :
                UNCHANGED <<pc[v], job[v], from[v], tries[v], batch[v]>>
      BY <1>0, <1>4
      DEF StartTick, EndTick, TickFails, FailureLost, Stop, Leave, Forget, Goto,
          table, work, TypeOK
    <2>2. ASSUME NEW v \in Workers, pc'[v] \in Held
          PROVE  /\ pc[v] \in Held /\ UNCHANGED <<job[v], from[v], tries[v]>>
                 /\ pc'[v] = "insert" => \A m \in batch'[v] : m > from[v]
      BY <2>1, <2>2 DEF Rows, RowsHeld, HeldRow, Held, Working
    <2> QED
      BY <2>1, <2>2, QuietRows
  <1>5. CASE Crash
    <2>1. UNCHANGED <<status, cursor, attempts, holder>> /\ \A w \in Workers : pc'[w] = "off"
      BY <1>5 DEF Crash, Stop, table
    <2> QED
      BY <2>1, QuietRows DEF Held, Working
  <1>6. ASSUME NEW w \in Workers,
               StartTick(w) \/ WorkStep(w) \/ Throws(w) \/ TickFails(w)
        PROVE  RowsStep
    BY <1>4, <1>6, ClaimRows, ReadRows, InsertRows, RecordRows DEF WorkStep
  <1> QED
    BY <1>2, <1>3, <1>5, <1>6, EnqueueRows DEF Next, Serve

\* However many workers run side by side, a row whose attempts are spent is
\* FAILED until a worker that another had overtaken writes it (claimOutboxJob).
THEOREM SpentRowsFail == Spec => []AttemptsSpentIsFailed
  <1>1. Rows /\ Inv /\ [Next]_vars => Rows'
    BY NextRows DEF RowsStep
  <1>2. Rows => AttemptsSpentIsFailed
    BY DEF Rows
  <1> QED
    BY <1>1, <1>2, RowsInit, InvHolds, PTL DEF Spec

\* However many workers run side by side, no claim takes up a row that is DONE
\* or FAILED, and only the write of a worker that another had overtaken, or one
\* that follows it before the next claim, changes such a row or takes a cursor
\* back (the updates that go by the row's id alone).
THEOREM RowsSettle == Spec => SettledRows
  <1>1. Rows /\ Inv /\ [Next]_vars => Rows'
    BY NextRows DEF RowsStep
  <1>2. Rows /\ Inv /\ [Next]_vars => [\A j \in Jobs : RowSettled(j)]_vars
    BY NextRows DEF RowsStep
  <1> QED
    BY <1>1, <1>2, RowsInit, InvHolds, PTL DEF Spec, SettledRows

-----------------------------------------------------------------------------
(***************************************************************************)
(* The form: the inductive invariant and what follows from it.             *)
(***************************************************************************)
LEMMA FormInitInv == ASSUME D!ConstantsFit, D!Init PROVE D!Inv
  BY DEF D!ConstantsFit, D!Init, D!Inv, D!TypeOK, D!SubmittedIsComplete, D!ReadsHold, D!NothingBefore,
      D!Submitted, D!Statuses, D!Fields, D!TotalProgressSteps, D!TotalInputSteps

\* A handler that answers forgets what it read: its conjuncts hold again.
LEMMA FormFinishInv ==
    ASSUME D!Inv, NEW h \in Handlers, D!Finish(h), UNCHANGED <<D!rows, Announced, day>>
    PROVE  D!Inv'
  BY DEF D!Inv, D!TypeOK, D!SubmittedIsComplete, D!ReadsHold, D!NothingBefore, D!Submitted,
         D!Finish, D!Goto, D!rows, D!Statuses, D!TotalProgressSteps, D!TotalInputSteps

\* The first statement of a call.
LEMMA FormStartInv ==
    ASSUME D!Inv, NEW h \in Handlers,
           D!StartCreate(h) \/ \E r \in Jobs, in \in D!Inputs, d \in Days :
                                D!StartEdit(h, r, in, d)
    PROVE  D!Inv'
  <1>1. CASE D!StartCreate(h)
    BY <1>1 DEF D!Inv, D!TypeOK, D!SubmittedIsComplete, D!ReadsHold, D!NothingBefore,
         D!Submitted, D!StartCreate, D!Goto, D!rows, D!Statuses
  <1>2. ASSUME NEW r \in Jobs, NEW in \in D!Inputs, NEW d \in Days,
               D!StartEdit(h, r, in, d)
        PROVE  D!Inv'
    BY <1>2 DEF D!Inv, D!TypeOK, D!SubmittedIsComplete, D!ReadsHold, D!NothingBefore,
         D!Submitted, D!StartEdit, D!Goto, D!rows, D!Statuses
  <1> QED
    BY <1>1, <1>2

\* Reading the row: what the checks saw is what ReadsHold remembers.
LEMMA FormReadInv ==
    ASSUME D!Inv, NEW h \in Handlers,
           D!findActiveEstimateRequest(h) \/ D!getOwnedDraftOrThrow(h)
    PROVE  D!Inv'
  <1>1. CASE D!findActiveEstimateRequest(h) /\ D!Continue(h, "insert")
    BY <1>1 DEF D!Inv, D!TypeOK, D!SubmittedIsComplete, D!ReadsHold, D!NothingBefore,
         D!Submitted, D!findActiveEstimateRequest, D!Continue, D!Goto, D!rows, D!locals,
         D!Statuses
  <1>2. CASE D!getOwnedDraftOrThrow(h) /\ ~D!Finish(h)
    <2>1. /\ formPc[h] = "own" /\ requestStatus[id[h]] = "DRAFT" /\ D!Acceptable(h)
          /\ formPc' = [formPc EXCEPT ![h] = "update"]
          /\ old' = [old EXCEPT ![h] = step[id[h]]]
          /\ UNCHANGED <<requestStatus, step, filled, moveDate, Announced, day, id, input, date>>
      BY <1>2 DEF D!getOwnedDraftOrThrow, D!Goto, D!rows
    <2>2. id[h] \in Jobs /\ step[id[h]] \in 1..D!TotalProgressSteps
      BY <2>1 DEF D!Inv, D!TypeOK
    <2> QED
      BY <2>1, <2>2 DEF D!Inv, D!TypeOK, D!SubmittedIsComplete, D!ReadsHold,
         D!NothingBefore, D!Submitted, D!Acceptable, D!TotalProgressSteps
  <1> QED
    BY <1>1, <1>2, FormFinishInv
    DEF D!findActiveEstimateRequest, D!getOwnedDraftOrThrow

LEMMA FormCreateInv ==
    ASSUME D!Inv, NEW h \in Handlers, NEW r \in Jobs,
           D!createDraftEstimateRequest(h, r)
    PROVE  D!Inv'
  BY DEF D!Inv, D!TypeOK, D!SubmittedIsComplete, D!ReadsHold, D!NothingBefore, D!Submitted,
         D!createDraftEstimateRequest, D!Finish, D!Goto, D!Statuses,
         D!TotalProgressSteps, D!TotalInputSteps

\* What a call brings: only the move date comes with a value, and a step it
\* moves on to is one of the form.
LEMMA FormInputShape ==
    ASSUME NEW in \in D!Inputs
    PROVE  /\ in.gives \subseteq D!Fields
           /\ in.next \in 0..D!TotalInputSteps
           /\ in.op = "save" => in.next \in 1..D!TotalInputSteps
  <1>1. CASE \E s \in 1..D!TotalInputSteps : in = D!SaveStep(s)
    <2>1. PICK s \in {1, 2, 3} : in = D!SaveStep(s)
      BY <1>1 DEF D!TotalInputSteps
    <2> QED
      BY <2>1 DEF D!SaveStep, D!Fields, D!Addresses, D!TotalInputSteps
  <1>2. CASE \E f \in D!Fields : in = D!Revise(f)
    BY <1>2 DEF D!Revise, D!TotalInputSteps
  <1>3. CASE in = D!Submit
    BY <1>3 DEF D!Submit, D!TotalInputSteps
  <1> QED
    BY <1>1, <1>2, <1>3 DEF D!Inputs

\* A save only adds fields, and only to a draft.
LEMMA FormSaveInv ==
    ASSUME D!ConstantsFit, D!Inv, NEW h \in Handlers, D!updateEstimateRequestDraft(h)
    PROVE  D!Inv'
  <1> DEFINE r == id[h]
  <1>1. /\ r \in Jobs /\ requestStatus[r] = "DRAFT"
        /\ input[h] \in D!Inputs /\ date[h] \in Days
        /\ old[h] \in 1..D!TotalInputSteps
        /\ step[r] \in 1..D!TotalInputSteps
    BY DEF D!Inv, D!TypeOK, D!ReadsHold, D!NothingBefore, D!updateEstimateRequestDraft
  <1>2. D!NextStep(h) \in 1..D!TotalInputSteps
    BY <1>1, FormInputShape DEF D!NextStep
  <1>3. /\ requestStatus' = requestStatus /\ Announced' = Announced /\ day' = day
        /\ filled' = [filled EXCEPT ![r] = @ \cup input[h].gives]
        /\ moveDate' = IF "moveDate" \in input[h].gives
                       THEN [moveDate EXCEPT ![r] = date[h]] ELSE moveDate
        /\ step' = [step EXCEPT ![r] = D!NextStep(h)]
        /\ D!Finish(h)
    BY DEF D!updateEstimateRequestDraft
  <1>4. input[h].gives \subseteq D!Fields
    BY <1>1, FormInputShape
  <1> HIDE DEF r
  <1>5. D!TypeOK'
    <2>1. filled' \in [Jobs -> SUBSET D!Fields]
      BY <1>1, <1>3, <1>4 DEF D!Inv, D!TypeOK
    <2>2. moveDate' \in [Jobs -> Days \cup {None}]
      BY <1>1, <1>3 DEF D!Inv, D!TypeOK
    <2>3. step' \in [Jobs -> 1..D!TotalProgressSteps]
      BY <1>1, <1>2, <1>3 DEF D!Inv, D!TypeOK, D!TotalInputSteps, D!TotalProgressSteps
    <2> QED
      BY <1>3, <2>1, <2>2, <2>3 DEF D!Inv, D!TypeOK, D!Finish, D!Goto, D!TotalProgressSteps
  <1>6. D!SubmittedIsComplete'
    BY <1>1, <1>3, <1>4
    DEF D!ConstantsFit, D!Inv, D!TypeOK, D!SubmittedIsComplete, D!Submitted
  <1>7. D!ReadsHold'
    BY <1>1, <1>3, <1>4
    DEF D!Inv, D!TypeOK, D!ReadsHold, D!Submitted, D!Finish, D!Goto
  <1>8. D!NothingBefore'
    BY <1>1, <1>2, <1>3 DEF D!Inv, D!TypeOK, D!NothingBefore
  <1> QED
    BY <1>5, <1>6, <1>7, <1>8 DEF D!Inv

\* The submission finds the row as complete as it was when it was read.
LEMMA FormSubmitInv ==
    ASSUME D!Inv, NEW h \in Handlers,
           D!submitEstimateRequest(h) \/ D!enqueueNewQuoteRequestFanout(h)
    PROVE  D!Inv'
  <1>1. CASE D!submitEstimateRequest(h)
    BY <1>1 DEF D!Inv, D!TypeOK, D!SubmittedIsComplete, D!ReadsHold, D!NothingBefore,
         D!Submitted, D!submitEstimateRequest, D!Continue, D!Goto, D!locals, D!Statuses,
         D!TotalProgressSteps
  <1>2. CASE D!enqueueNewQuoteRequestFanout(h)
    BY <1>2 DEF D!Inv, D!TypeOK, D!SubmittedIsComplete, D!ReadsHold, D!NothingBefore,
         D!Submitted, D!enqueueNewQuoteRequestFanout, D!Finish, D!Goto, D!rows,
         D!TotalProgressSteps
  <1> QED
    BY <1>1, <1>2

LEMMA FormElsewhereInv ==
    ASSUME D!ConstantsFit, D!Inv,
           D!NewDay \/ \E r \in Jobs : D!ConfirmQuote(r) \/ D!CloseOverdue(r)
    PROVE  D!Inv'
  <1>1. CASE D!NewDay
    BY <1>1 DEF D!ConstantsFit, D!Inv, D!TypeOK, D!SubmittedIsComplete, D!ReadsHold,
         D!NothingBefore, D!Submitted, D!NewDay, D!rows, D!locals
  <1>2. ASSUME NEW r \in Jobs, D!ConfirmQuote(r) \/ D!CloseOverdue(r)
        PROVE  D!Inv'
    BY <1>2 DEF D!Inv, D!TypeOK, D!SubmittedIsComplete, D!ReadsHold, D!NothingBefore,
         D!Submitted, D!ConfirmQuote, D!CloseOverdue, D!locals, D!Statuses
  <1> QED
    BY <1>1, <1>2

LEMMA FormNextInv == ASSUME D!ConstantsFit, D!Inv, [D!Next]_(D!vars) PROVE D!Inv'
  <1>1. CASE UNCHANGED D!vars
    BY <1>1 DEF D!Inv, D!TypeOK, D!SubmittedIsComplete, D!ReadsHold, D!NothingBefore,
         D!Submitted, D!vars, D!rows, D!locals
  <1>2. ASSUME NEW h \in Handlers, D!Step(h) PROVE D!Inv'
    <2>1. CASE D!Refused(h) \/ D!Abort(h)
      BY <2>1, FormFinishInv DEF D!Refused, D!Abort
    <2> QED
      BY <1>2, <2>1, FormStartInv, FormReadInv, FormCreateInv, FormSaveInv, FormSubmitInv DEF D!Step
  <1> QED
    BY <1>1, <1>2, FormElsewhereInv, FormSubmitInv DEF D!Next

-----------------------------------------------------------------------------
(***************************************************************************)
(* Submission implements both of its parts.                                *)
(***************************************************************************)

\* No worker and no mover makes a row or removes one.
LEMMA ServesRows ==
    ASSUME Inv, Serve PROVE Announced' = Announced
  <1> USE DEF Inv, TypeOK, Announced
  <1>1. ASSUME NEW j \in Jobs, GoStale(j) \/ \E m \in Movers : EditProfile(j, m)
        PROVE  Announced' = Announced
    BY <1>1 DEF GoStale, EditProfile, table
  <1>2. ASSUME NEW w \in Workers, StartTick(w) \/ Throws(w) \/ TickFails(w) \/ WorkStep(w)
        PROVE  Announced' = Announced
    <2>1. CASE claimOutboxJob(w)
      <3>1. PICK j : j \in Claimable(w) /\ status' = [status EXCEPT ![j] = IF Spent(j) THEN "FAILED"
                                                                                    ELSE "PROCESSING"]
        BY <2>1 DEF claimOutboxJob
      <3> QED
        BY <3>1 DEF Claimable
    <2>2. CASE updateOutboxCursor(w) \/ markOutboxYield(w) \/ markOutboxDone(w) \/ markOutboxFailure(w)
      <3>1. status[job[w]] # "NONE" /\ job[w] \in Jobs
        BY <2>2 DEF Enqueued, updateOutboxCursor, markOutboxYield, markOutboxDone, markOutboxFailure, Working
      <3>2. \E new \in {"PROCESSING", "PENDING", "DONE", "FAILED"} :
                status' = [status EXCEPT ![job[w]] = new]
        BY <2>2 DEF updateOutboxCursor, markOutboxYield, markOutboxDone, markOutboxFailure, Record
      <3> QED
        BY <3>1, <3>2
    <2> QED
      BY <1>2, <2>1, <2>2 DEF StartTick, Throws, TickFails, WorkStep, EndTick, FailureLost,
         findEstimateRequestForFanout, findMoverIdsForNewRequestChunk, createManyFanoutNotifications, table
  <1> QED
    BY <1>1, <1>2 DEF Serve, Crash, table

\* Its steps on the outbox are steps of the outbox.
LEMMA SubmissionServes == SubmissionSpec => Spec
  <1>1. SubmissionInit => Init
    BY DEF SubmissionInit
  <1>2. [SubmissionNext]_<<vars, formVars>> => [Next]_vars
    BY DEF SubmissionNext, Form, Announce, Close, Next
  <1> QED
    BY <1>1, <1>2, PTL DEF SubmissionSpec, Spec

\* And its steps on the form are steps of the form, on the worker's table.
LEMMA SubmissionSteps ==
    ASSUME Inv, [SubmissionNext]_<<vars, formVars>> PROVE [D!Next]_(D!vars)
  <1>1. CASE Form
    BY <1>1 DEF Form, D!Next
  <1>2. ASSUME NEW j \in Jobs, Announce(j) \/ Close(j) PROVE D!Next
    BY <1>2 DEF Announce, Close, D!Next
  <1>3. CASE Serve /\ UNCHANGED formVars
    BY <1>3, ServesRows DEF formVars, D!vars, D!rows, D!locals
  <1>4. CASE UNCHANGED <<vars, formVars>>
    BY <1>4 DEF vars, table, Announced, formVars, D!vars, D!rows, D!locals
  <1> QED
    BY <1>1, <1>2, <1>3, <1>4 DEF SubmissionNext

\* The rows of the outbox are what the form calls its outbox.
THEOREM SubmissionIsForm == SubmissionSpec => D!Spec
  <1>1. SubmissionInit => D!Init
    BY DEF SubmissionInit
  <1>2. Inv /\ [SubmissionNext]_<<vars, formVars>> => [D!Next]_(D!vars)
    BY SubmissionSteps
  <1> QED
    BY <1>1, <1>2, SubmissionServes, InvHolds, PTL DEF SubmissionSpec, D!Spec

\* In every reachable state the rows are well formed, what handlers read
\* still holds, and submitted rows are complete.
THEOREM FormInvHolds == SubmissionSpec => []D!Inv
  <1>1. D!Init => D!Inv
    BY FormInitInv, FormConstants
  <1>2. D!Inv /\ [D!Next]_(D!vars) => D!Inv'
    BY FormNextInv, FormConstants
  <1> QED
    BY <1>1, <1>2, SubmissionIsForm, PTL DEF D!Spec

\* No interleaving of saves, revisions and submissions, of however many
\* tabs, gets an incomplete request to the movers, or announces a draft.
THEOREM SubmittedComplete == SubmissionSpec => []SubmittedIsComplete
  <1>1. D!Inv => SubmittedIsComplete
    BY DEF SubmittedIsComplete, D!Inv
  <1> QED
    BY <1>1, FormInvHolds, PTL

\* One step of the system leaves the rows already submitted as they are.
LEMMA FormFrozenStep ==
    ASSUME D!Inv, D!Next, NEW r \in Jobs, D!Submitted(r)
    PROVE  /\ step'[r] = step[r]
           /\ filled'[r] = filled[r]
           /\ moveDate'[r] = moveDate[r]
           /\ D!Submitted(r)'
  <1>1. D!TypeOK
    BY DEF D!Inv
  <1>2. CASE UNCHANGED D!rows
    BY <1>2 DEF D!rows, D!Submitted
  <1>3. ASSUME NEW h \in Handlers, D!Step(h), ~UNCHANGED D!rows
        PROVE  /\ step'[r] = step[r]
               /\ filled'[r] = filled[r]
               /\ moveDate'[r] = moveDate[r]
               /\ D!Submitted(r)'
    <2>1. \/ \E q \in Jobs : D!createDraftEstimateRequest(h, q)
          \/ D!updateEstimateRequestDraft(h)
          \/ D!submitEstimateRequest(h)
      BY <1>3 DEF D!Step, D!StartCreate, D!findActiveEstimateRequest, D!StartEdit,
           D!getOwnedDraftOrThrow, D!Refused, D!Abort
    <2>2. ASSUME NEW q \in Jobs, D!createDraftEstimateRequest(h, q)
          PROVE  q # r /\ UNCHANGED <<filled, moveDate>>
                 /\ requestStatus'[r] = requestStatus[r] /\ step'[r] = step[r]
      BY <1>1, <2>2 DEF D!createDraftEstimateRequest, D!Submitted, D!TypeOK
    <2>3. CASE D!updateEstimateRequestDraft(h)
      BY <1>1, <2>3 DEF D!updateEstimateRequestDraft, D!Submitted, D!TypeOK
    <2>4. CASE D!submitEstimateRequest(h)
      BY <1>1, <2>4 DEF D!submitEstimateRequest, D!Submitted, D!TypeOK
    <2> QED
      BY <2>1, <2>2, <2>3, <2>4 DEF D!Submitted
  <1>4. ASSUME NEW q \in Jobs, D!ConfirmQuote(q) \/ D!CloseOverdue(q)
        PROVE  UNCHANGED <<step, filled, moveDate>> /\ D!Submitted(r)'
    BY <1>1, <1>4 DEF D!ConfirmQuote, D!CloseOverdue, D!Submitted, D!TypeOK
  <1> QED
    BY <1>2, <1>3, <1>4 DEF D!Next, D!NewDay, D!enqueueNewQuoteRequestFanout

\* What a customer submitted is what the movers see from then on.
THEOREM SubmittedStaysFrozen == SubmissionSpec => SubmittedIsFrozen
  <1> DEFINE Frozen == \A r \in Jobs : D!Submitted(r) =>
                /\ step'[r] = step[r]
                /\ filled'[r] = filled[r]
                /\ moveDate'[r] = moveDate[r]
                /\ D!Submitted(r)'
  <1>1. D!Inv /\ D!Next => Frozen
    BY FormFrozenStep
  <1>2. D!Inv /\ [D!Next]_(D!vars) => [Frozen]_(D!vars)
    BY <1>1
  <1> QED
    BY <1>2, FormInvHolds, SubmissionIsForm, PTL DEF D!Spec, SubmittedIsFrozen, D!SubmittedIsFrozen
=============================================================================
