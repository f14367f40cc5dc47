------------------------ MODULE QuoteMatchingProofs ------------------------
(***************************************************************************)
(* QuoteMatching keeps its invariants for every number of requests, movers,*)
(* handlers and job runs, every limit and every horizon of the clock.      *)
(***************************************************************************)
EXTENDS QuoteMatching, FiniteSetTheorems, TLAPS

USE NoneIsNull

(* A handler that is not idle works on a pair of a request and a mover.     *)
LEMMA CallShape ==
    ASSUME TypeOK, NEW h \in Handlers, pc[h] # "idle"
    PROVE  /\ call[h] # None
           /\ call[h] \in Calls
           /\ call[h].pair \in Pairs
           /\ Req(h) \in Requests
           /\ call[h].pair[2] \in Movers
           /\ call[h].pair = <<Req(h), call[h].pair[2]>>
  BY DEF TypeOK, Calls, Pairs, Req

(* Ending a call and passing a check keep the types of a handler's state.   *)
LEMMA FinishType ==
    ASSUME TypeOK, NEW h \in Handlers, Finish(h)
    PROVE  /\ lock' \in [Requests -> Handlers \cup {None}]
           /\ pc' \in [Handlers -> HandlerPcs]
           /\ call' \in [Handlers -> Calls \cup {None}]
           /\ \A g \in Handlers : pc'[g] = "idle" <=> call'[g] = None
           /\ target' \in [Handlers -> BOOLEAN]
           /\ seen' \in [Handlers -> RequestStatus \cup QuoteStatus \cup {None}]
  BY DEF TypeOK, Finish, Release, HandlerPcs

LEMMA ProceedType ==
    ASSUME TypeOK, NEW h \in Handlers, NEW next \in HandlerPcs \ {"idle"},
           pc[h] # "idle",
           pc' = [pc EXCEPT ![h] = next], call' = call
    PROVE  /\ pc' \in [Handlers -> HandlerPcs]
           /\ call' \in [Handlers -> Calls \cup {None}]
           /\ \A g \in Handlers : pc'[g] = "idle" <=> call'[g] = None
  BY DEF TypeOK

LEMMA InitInv == Init => Inv
  <1> SUFFICES ASSUME Init PROVE Inv
    OBVIOUS
  <1>1. TypeOK
    BY TimeIsWhole
    DEF Init, TypeOK, RequestStatus, QuoteStatus, JobPcs, HandlerPcs
  <1>2. ConfirmedConsistent
    BY DEF Init, ConfirmedConsistent, Pairs
  <1>3. DesignationAgrees
    BY DEF Init, DesignationAgrees
  <1>4. ProposalCaps
    <2> SUFFICES ASSUME NEW r \in Requests, NEW d \in BOOLEAN
                 PROVE  Cardinality(ActiveProposals(r, d)) <= getMaxProposalCount(d)
      BY DEF ProposalCaps
    <2>1. ActiveProposals(r, d) = {}
      BY DEF Init, ActiveProposals, Pairs, SentQuoteStatuses
    <2> QED
      BY <2>1, FS_EmptySet, CapsAreNumbers DEF getMaxProposalCount
  <1>5. LockDiscipline
    BY DEF Init, LockDiscipline, InTx, InTxPcs
  <1>6. HeldReads
    BY DEF Init, HeldReads, OwnSteps, Held, InTx, InTxPcs, Is
  <1>7. TodayIsPast
    BY DEF Init, TodayIsPast, startOfDayKst
  <1> QED
    BY <1>1, <1>2, <1>3, <1>4, <1>5, <1>6, <1>7 DEF Inv

-----------------------------------------------------------------------------
(* Steps of one handler that leave the tables alone.                        *)

\* Only h's own state may change, and not the tables, the clock or the job.
Local(h) ==
    /\ UNCHANGED <<rows, now, jobs>>
    /\ \A g \in Handlers \ {h} : /\ pc'[g] = pc[g]
                                 /\ call'[g] = call[g]
                                 /\ target'[g] = target[g]
                                 /\ seen'[g] = seen[g]

\* It is enough to look at h itself.
LEMMA LocalInv ==
    ASSUME Inv, NEW h \in Handlers, Local(h), TypeOK', LockDiscipline',
           OwnSteps(h)', Held(h)'
    PROVE  Inv'
  <1>1. ConfirmedConsistent' /\ DesignationAgrees'
    BY DEF Inv, ConfirmedConsistent, DesignationAgrees, Local, rows
  <1>2. ProposalCaps'
    BY DEF Inv, ProposalCaps, ActiveProposals, Local, rows
  <1>3. HeldReads'
    <2> SUFFICES ASSUME NEW g \in Handlers \ {h}
                 PROVE  OwnSteps(g)' /\ Held(g)'
      BY DEF HeldReads
    <2>1. OwnSteps(g) /\ Held(g)
      BY DEF Inv, HeldReads
    <2> QED
      BY <2>1 DEF OwnSteps, Held, Local, rows, Is, InTx, ActiveProposals
  <1>4. TodayIsPast'
    BY DEF Inv, TodayIsPast, Local, jobs
  <1> QED
    BY <1>1, <1>2, <1>3, <1>4 DEF Inv

\* The call is over: nothing is held, nothing is claimed.
LEMMA FinishInv ==
    ASSUME Inv, NEW h \in Handlers, Finish(h), UNCHANGED <<rows, now, jobs>>,
           sent' \in [Notices \X Pairs -> Nat], UNCHANGED reviewed
    PROVE  Inv'
  <1>1. TypeOK
    BY DEF Inv
  <1>2. TypeOK'
    BY <1>1, FinishType DEF TypeOK, rows, jobs
  <1>3. Local(h)
    BY <1>1 DEF Local, Finish, TypeOK
  <1>4. LockDiscipline'
    BY <1>1 DEF Inv, LockDiscipline, Finish, Release, InTx, InTxPcs, Req, TypeOK
  <1>5. OwnSteps(h)' /\ Held(h)'
    BY <1>1 DEF Finish, TypeOK, OwnSteps, Held, Is, InTx, InTxPcs
  <1> QED
    BY <1>2, <1>3, <1>4, <1>5, LocalInv

\* The call goes on, and neither takes nor gives back the lock.
LEMMA ProceedInv ==
    ASSUME Inv, NEW h \in Handlers, NEW next \in HandlerPcs \ {"idle"},
           pc[h] # "idle", Proceed(h, next), next \in InTxPcs <=> InTx(h),
           UNCHANGED <<rows, now, jobs, notes>>,
           target' \in [Handlers -> BOOLEAN],
           seen' \in [Handlers -> RequestStatus \cup QuoteStatus \cup {None}],
           \A g \in Handlers \ {h} : target'[g] = target[g] /\ seen'[g] = seen[g],
           OwnSteps(h)', Held(h)'
    PROVE  Inv'
  <1>1. TypeOK
    BY DEF Inv
  <1>2. TypeOK'
    BY <1>1, ProceedType DEF TypeOK, Proceed, rows, jobs, notes
  <1>3. Local(h)
    BY <1>1 DEF Local, Proceed, TypeOK
  <1>4. LockDiscipline'
    BY <1>1 DEF Inv, LockDiscipline, Proceed, InTx, Req, TypeOK
  <1> QED
    BY <1>2, <1>3, <1>4, LocalInv

\* The call takes the lock of its request.
LEMMA LockInv ==
    ASSUME Inv, NEW h \in Handlers, NEW next \in InTxPcs,
           pc[h] = "lock", lock[Req(h)] = None,
           lock' = [lock EXCEPT ![Req(h)] = h],
           pc' = [pc EXCEPT ![h] = next],
           UNCHANGED locals, UNCHANGED <<rows, now, jobs, notes>>,
           OwnSteps(h)', Held(h)'
    PROVE  Inv'
  <1>1. TypeOK
    BY DEF Inv
  <1>2. /\ Req(h) \in Requests
        /\ next \in HandlerPcs \ {"idle"}
    BY <1>1, CallShape DEF HandlerPcs, InTxPcs
  <1>3. TypeOK'
    BY <1>1, <1>2, ProceedType DEF TypeOK, locals, rows, jobs, notes
  <1>4. Local(h)
    BY <1>1 DEF Local, TypeOK, locals
  <1>5. LockDiscipline'
    <2> SUFFICES ASSUME NEW r \in Requests, NEW g \in Handlers
                 PROVE  lock'[r] = g <=> InTx(g)' /\ Req(g)' = r
      BY DEF LockDiscipline
    <2>1. /\ lock[r] = g <=> InTx(g) /\ Req(g) = r
          /\ lock[Req(h)] # g /\ ~InTx(h)
      BY <1>1 DEF Inv, LockDiscipline, TypeOK, InTx, InTxPcs
    <2>2. Req(g)' = Req(g)
      BY DEF Req, locals
    <2>3. CASE g = h
      BY <1>1, <1>2, <2>1, <2>2, <2>3 DEF TypeOK, InTx
    <2>4. CASE g # h
      <3>1. InTx(g)' <=> InTx(g)
        BY <1>1, <2>4 DEF TypeOK, InTx
      <3>2. lock'[r] = g <=> lock[r] = g /\ r # Req(h)
        BY <1>1, <1>2, <2>4 DEF TypeOK
      <3> QED
        BY <2>1, <2>2, <3>1, <3>2
    <2> QED
      BY <2>3, <2>4
  <1> QED
    BY <1>3, <1>4, <1>5, LocalInv

LEMMA BeginInv ==
    ASSUME Inv, NEW h \in Handlers, NEW c \in Calls, Begin(h, c)
    PROVE  Inv'
  <1>1. TypeOK /\ c # None
    BY DEF Inv
  <1>2. TypeOK'
    <2>1. pc' \in [Handlers -> HandlerPcs]
      BY <1>1 DEF TypeOK, Begin, HandlerPcs
    <2>2. \A g \in Handlers : pc'[g] = "idle" <=> call'[g] = None
      BY <1>1 DEF TypeOK, Begin
    <2> QED
      BY <1>1, <2>1, <2>2 DEF TypeOK, Begin, rows, jobs, notes
  <1>3. Local(h)
    BY <1>1 DEF Local, Begin, TypeOK
  <1>4. ~InTx(h) /\ ~InTx(h)'
    BY <1>1 DEF Begin, InTx, InTxPcs, TypeOK
  <1>5. LockDiscipline'
    <2> SUFFICES ASSUME NEW r \in Requests, NEW g \in Handlers
                 PROVE  lock'[r] = g <=> InTx(g)' /\ Req(g)' = r
      BY DEF LockDiscipline
    <2>1. lock'[r] = g <=> InTx(g) /\ Req(g) = r
      BY DEF Inv, LockDiscipline, Begin
    <2>2. g # h => pc'[g] = pc[g] /\ call'[g] = call[g]
      BY <1>3 DEF Local
    <2> QED
      BY <1>4, <2>1, <2>2 DEF InTx, Req
  <1>6. OwnSteps(h)' /\ Held(h)'
    BY <1>1 DEF Begin, TypeOK, OwnSteps, Held, Is, InTx, InTxPcs, Calls, Kinds
  <1> QED
    BY <1>2, <1>3, <1>5, <1>6, LocalInv

LEMMA LockStepInv ==
    ASSUME Inv, NEW h \in Handlers, Lock(h)
    PROVE  Inv'
  <1>1. /\ TypeOK
        /\ OwnSteps(h)
        /\ Held(h)
        /\ pc[h] = "lock"
    BY DEF Inv, HeldReads, Lock, SubmitLock, ConfirmLock, DesignateLock, LockRequest
  <1>2. /\ Req(h) \in Requests
        /\ call[h].pair = <<Req(h), call[h].pair[2]>>
        /\ call[h].pair[1] = Req(h)
        /\ call[h].pair[2] \in Movers
    BY <1>1, CallShape DEF Req
  <1>3. ASSUME Finish(h), UNCHANGED <<rows, now, jobs, notes>> PROVE Inv'
    BY <1>1, <1>3, FinishInv DEF notes, TypeOK
  <1>4. ASSUME SubmitLock(h), ~Finish(h) PROVE Inv'
    <2>1. OwnSteps(h)' /\ Held(h)'
      BY <1>1, <1>2, <1>4
      DEF SubmitLock, LockRequest, TypeOK, OwnSteps, Held, Is, InTx, InTxPcs,
          locals, rows, Req, assertSubmittedEstimateRequest
    <2> QED
      BY <1>4, <2>1, LockInv DEF SubmitLock, LockRequest, InTxPcs
  <1>5. ASSUME ConfirmLock(h), ~Finish(h) PROVE Inv'
    <2>1. OwnSteps(h)' /\ Held(h)'
      BY <1>1, <1>2, <1>5
      DEF ConfirmLock, LockRequest, TypeOK, OwnSteps, Held, Is, InTx, InTxPcs,
          locals, rows, Req, assertSubmittedEstimateRequest
    <2> QED
      BY <1>5, <2>1, LockInv DEF ConfirmLock, LockRequest, InTxPcs
  <1>6. ASSUME DesignateLock(h), ~Finish(h) PROVE Inv'
    <2>1. OwnSteps(h)' /\ Held(h)'
      BY <1>1, <1>2, <1>6
      DEF DesignateLock, LockRequest, TypeOK, OwnSteps, Held, Is, InTx, InTxPcs,
          locals, rows, Req
    <2> QED
      BY <1>6, <2>1, LockInv DEF DesignateLock, LockRequest, InTxPcs
  <1> QED
    BY <1>3, <1>4, <1>5, <1>6
    DEF Lock, SubmitLock, ConfirmLock, DesignateLock, LockRequest

LEMMA ReadStepInv ==
    ASSUME Inv, NEW h \in Handlers, Read(h)
    PROVE  Inv'
  <1>1. TypeOK /\ OwnSteps(h) /\ Held(h)
    BY DEF Inv, HeldReads
  <1>2. ASSUME Finish(h), UNCHANGED <<rows, now, jobs, notes>> PROVE Inv'
    BY <1>1, <1>2, FinishInv DEF notes, TypeOK
  <1>3. ASSUME NEW next \in HandlerPcs \ {"idle"}, pc[h] # "idle",
               Proceed(h, next), next \in InTxPcs <=> InTx(h),
               UNCHANGED <<target, seen>>, UNCHANGED <<rows, now, jobs, notes>>,
               OwnSteps(h)', Held(h)'
        PROVE  Inv'
    BY <1>1, <1>3, ProceedInv DEF TypeOK
  <1>4. CASE isDesignatedMover(h)
    <2>1. OwnSteps(h)' /\ Held(h)'
      BY <1>1, <1>4
      DEF isDesignatedMover, Proceed, TypeOK, OwnSteps, Held, Is, InTx, InTxPcs, rows
    <2>2. /\ target' \in [Handlers -> BOOLEAN]
          /\ \A g \in Handlers \ {h} : target'[g] = target[g]
      BY <1>1, <1>4 DEF isDesignatedMover, TypeOK
    <2> QED
      BY <1>1, <1>4, <2>1, <2>2, ProceedInv
      DEF isDesignatedMover, TypeOK, HandlerPcs, InTxPcs, InTx
  <1>5. ASSUME findExistingQuote(h), ~Finish(h) PROVE Inv'
    <2>1. OwnSteps(h)' /\ Held(h)'
      BY <1>1, <1>5
      DEF findExistingQuote, HasQuote, Check, Proceed, TypeOK, OwnSteps, Held,
          Is, InTx, InTxPcs, rows
    <2>2. CASE Is(h, "PROPOSAL")
      BY <1>3, <1>5, <2>1, <2>2
      DEF findExistingQuote, Check, HandlerPcs, InTxPcs, InTx
    <2>3. CASE ~Is(h, "PROPOSAL")
      BY <1>3, <1>5, <2>1, <2>3
      DEF findExistingQuote, Check, HandlerPcs, InTxPcs, InTx
    <2> QED
      BY <2>2, <2>3
  <1>6. ASSUME CountProposals(h), ~Finish(h) PROVE Inv'
    <2>1. /\ pc[h] = "count" /\ Proceed(h, "write")
          /\ UNCHANGED <<target, seen>> /\ UNCHANGED rows
          /\ Cardinality(ActiveProposals(Req(h), target[h]))
               < getMaxProposalCount(target[h])
      BY <1>6 DEF CountProposals, Check
    <2>2. /\ ActiveProposals(Req(h), target[h])' = ActiveProposals(Req(h), target[h])
          /\ getMaxProposalCount(target[h])' = getMaxProposalCount(target[h])
          /\ Req(h)' = Req(h)
      BY <2>1 DEF Proceed, rows, ActiveProposals, getMaxProposalCount, Req
    <2>3. Cardinality(ActiveProposals(Req(h), target[h]))'
            < getMaxProposalCount(target[h])'
      BY <2>1, <2>2
    <2>4. OwnSteps(h)' /\ Held(h)'
      BY <1>1, <2>1, <2>3
      DEF Proceed, TypeOK, OwnSteps, Held, Is, InTx, InTxPcs, rows, Req
    <2> QED
      BY <1>3, <1>6, <2>1, <2>4 DEF CountProposals, HandlerPcs, InTxPcs, InTx
  <1>7. ASSUME findCustomerQuoteForConfirm(h), ~Finish(h) PROVE Inv'
    <2>1. OwnSteps(h)' /\ Held(h)'
      BY <1>1, <1>7
      DEF findCustomerQuoteForConfirm, Proceed, TypeOK, OwnSteps, Held, Is,
          InTx, InTxPcs, rows
    <2>2. /\ seen' \in [Handlers -> RequestStatus \cup QuoteStatus \cup {None}]
          /\ \A g \in Handlers \ {h} : seen'[g] = seen[g]
      BY <1>1, <1>7
      DEF findCustomerQuoteForConfirm, TypeOK, SentQuoteStatuses, QuoteStatus
    <2> QED
      BY <1>1, <1>7, <2>1, <2>2, ProceedInv
      DEF findCustomerQuoteForConfirm, TypeOK, HandlerPcs, InTxPcs, InTx
  <1>8. CASE DesignateRead(h)
    <2>1. OwnSteps(h)' /\ Held(h)'
      BY <1>1, <1>8
      DEF DesignateRead, Proceed, TypeOK, OwnSteps, Held, Is, InTx, InTxPcs, rows
    <2>2. /\ seen' \in [Handlers -> RequestStatus \cup QuoteStatus \cup {None}]
          /\ \A g \in Handlers \ {h} : seen'[g] = seen[g]
      BY <1>1, <1>8, CallShape DEF DesignateRead, TypeOK
    <2> QED
      BY <1>1, <1>8, <2>1, <2>2, ProceedInv
      DEF DesignateRead, TypeOK, HandlerPcs, InTxPcs, InTx
  <1>9. ASSUME DesignateExisting(h), ~Finish(h) PROVE Inv'
    <2>1. OwnSteps(h)' /\ Held(h)'
      BY <1>1, <1>9
      DEF DesignateExisting, Check, Proceed, TypeOK, OwnSteps, Held, Is, InTx,
          InTxPcs, rows
    <2> QED
      BY <1>3, <1>9, <2>1 DEF DesignateExisting, Check, HandlerPcs, InTxPcs, InTx
  <1>10. ASSUME DesignatePrecheck(h), ~Finish(h) PROVE Inv'
    <2>1. OwnSteps(h)' /\ Held(h)'
      BY <1>1, <1>10
      DEF DesignatePrecheck, Check, Proceed, TypeOK, OwnSteps, Held, Is, InTx,
          InTxPcs, rows
    <2> QED
      BY <1>3, <1>10, <2>1 DEF DesignatePrecheck, Check, HandlerPcs, InTxPcs, InTx
  <1>11. ASSUME DesignateRecheck(h), ~Finish(h) PROVE Inv'
    <2>1. OwnSteps(h)' /\ Held(h)'
      BY <1>1, <1>11
      DEF DesignateRecheck, Check, Proceed, TypeOK, OwnSteps, Held, Is, InTx,
          InTxPcs, rows
    <2> QED
      BY <1>3, <1>11, <2>1 DEF DesignateRecheck, Check, HandlerPcs, InTxPcs, InTx
  <1>12. ASSUME DesignateRequote(h), ~Finish(h) PROVE Inv'
    <2>1. call[h].pair \in Pairs
      BY <1>1, <1>12, CallShape DEF DesignateRequote
    <2>2. Is(h, "DESIGNATE") => quote[call[h].pair] = "NONE"
      BY <1>1, <1>12, <2>1
      DEF Inv, DesignationAgrees, DesignateRequote, findExistingQuoteByStatuses,
          Check, Held, TypeOK, QuoteStatus, SentQuoteStatuses
    <2>3. OwnSteps(h)' /\ Held(h)'
      BY <1>1, <1>12, <2>2
      DEF DesignateRequote, Check, Proceed, TypeOK, OwnSteps, Held, Is, InTx,
          InTxPcs, rows
    <2> QED
      BY <1>3, <1>12, <2>3 DEF DesignateRequote, Check, HandlerPcs, InTxPcs, InTx
  <1>13. ASSUME findQuoteNotificationContext(h), ~Finish(h) PROVE Inv'
    <2>1. Proceed(h, "deliver") /\ UNCHANGED <<target, seen>>
      BY <1>13 DEF findQuoteNotificationContext, Check
    <2>2. OwnSteps(h)' /\ Held(h)'
      BY <1>1, <1>13, <2>1
      DEF findQuoteNotificationContext, Proceed, TypeOK, OwnSteps, Held, Is,
          InTx, InTxPcs, rows
    <2> QED
      BY <1>3, <1>13, <2>1, <2>2
      DEF findQuoteNotificationContext, HandlerPcs, InTxPcs, InTx
  <1> QED
    BY <1>2, <1>4, <1>5, <1>6, <1>7, <1>8, <1>9, <1>10, <1>11, <1>12, <1>13
    DEF Read, findExistingQuote, CountProposals, findCustomerQuoteForConfirm,
        DesignateExisting, DesignatePrecheck, DesignateRecheck,
        DesignateRequote, findQuoteNotificationContext

-----------------------------------------------------------------------------
(* Steps that write the tables.                                             *)

\* Two transactions are never past the lock of one request.
LEMMA OthersApart ==
    ASSUME Inv, NEW h \in Handlers, NEW g \in Handlers \ {h}, InTx(h), InTx(g)
    PROVE  Req(g) # Req(h) /\ call[g].pair # call[h].pair
  <1>1. TypeOK /\ pc[h] # "idle"
    BY DEF Inv, InTx, InTxPcs
  <1>2. Req(h) \in Requests
    BY <1>1, CallShape
  <1> QED
    BY <1>2 DEF Inv, LockDiscipline, Req

\* A commit gives the lock back and leaves nothing claimed.
LEMMA CommitLock ==
    ASSUME Inv, NEW h \in Handlers, NEW next \in {"context", "deliver"},
           InTx(h), Commit(h, next)
    PROVE  /\ lock' \in [Requests -> Handlers \cup {None}]
           /\ pc' \in [Handlers -> HandlerPcs]
           /\ \A g \in Handlers : pc'[g] = "idle" <=> call'[g] = None
           /\ LockDiscipline'
           /\ pc'[h] = next
           /\ \A g \in Handlers \ {h} : pc'[g] = pc[g]
           /\ UNCHANGED <<call, target, seen>>
  <1>1. TypeOK /\ LockDiscipline
    BY DEF Inv
  <1>2. next \in HandlerPcs /\ next # "idle" /\ next \notin InTxPcs
    BY DEF HandlerPcs, InTxPcs
  <1>3. UNCHANGED <<call, target, seen>>
    BY DEF Commit, locals
  <1>4. lock' \in [Requests -> Handlers \cup {None}]
    BY <1>1 DEF TypeOK, Commit, Release
  <1>5. /\ pc' \in [Handlers -> HandlerPcs]
        /\ pc'[h] = next
        /\ \A g \in Handlers \ {h} : pc'[g] = pc[g]
    BY <1>1, <1>2 DEF TypeOK, Commit
  <1>6. pc[h] # "idle"
    BY DEF InTx, InTxPcs
  <1>7. LockDiscipline'
    BY <1>1, <1>2, <1>3, <1>5
    DEF LockDiscipline, Commit, Release, InTx, Req, TypeOK
  <1> QED
    BY <1>1, <1>2, <1>3, <1>4, <1>5, <1>6, <1>7 DEF TypeOK

\* The claims of the others survive a commit that writes only h's own pair
\* and h's own request.
LEMMA OthersHeld ==
    ASSUME Inv, NEW h \in Handlers, NEW g \in Handlers \ {h}, InTx(h),
           pc'[g] = pc[g], UNCHANGED <<call, target>>,
           \A r \in Requests : r # Req(h) => status'[r] = status[r],
           \A p \in Pairs : p # call[h].pair =>
              /\ quote'[p] = quote[p]
              /\ p \in flagged' <=> p \in flagged
              /\ p \in designated' <=> p \in designated,
           quote[call[h].pair] # quote'[call[h].pair]
              => quote[call[h].pair] = "NONE"
                 \/ quote'[call[h].pair] \in SentQuoteStatuses
    PROVE  OwnSteps(g)' /\ Held(g)'
  <1>1. TypeOK /\ OwnSteps(g) /\ Held(g)
    BY DEF Inv, HeldReads
  <1>2. OwnSteps(g)'
    BY <1>1 DEF OwnSteps, Is
  <1>3. CASE call[g] = None
    BY <1>1, <1>2, <1>3 DEF Held, Is, InTx, InTxPcs, TypeOK
  <1>4. CASE call[g] # None /\ ~InTx(g)
    <2>1. pc[g] # "idle"
      BY <1>1, <1>4 DEF TypeOK
    <2>2. call[g].pair \in Pairs
      BY <1>1, <2>1, CallShape
    <2>3. Is(g, "CONFIRM") /\ pc[g] = "lock"
            => quote'[call[g].pair] \in SentQuoteStatuses
      BY <1>1, <2>2 DEF Held, SentQuoteStatuses
    <2> QED
      BY <1>2, <1>4, <2>3 DEF Held, Is, InTx, InTxPcs
  <1>5. CASE InTx(g)
    <2>1. pc[g] # "idle" /\ pc[h] # "idle"
      BY <1>5 DEF InTx, InTxPcs
    <2>2. /\ Req(g) # Req(h) /\ call[g].pair # call[h].pair
          /\ Req(g) \in Requests /\ Req(h) \in Requests
          /\ call[g].pair \in Pairs /\ call[h].pair = <<Req(h), call[h].pair[2]>>
      BY <1>1, <1>5, <2>1, OthersApart, CallShape
    <2>3. ActiveProposals(Req(g), target[g])' = ActiveProposals(Req(g), target[g])
      <3>1. \A m \in Movers : /\ <<Req(g), m>> \in Pairs
                              /\ <<Req(g), m>> # call[h].pair
        BY <2>2 DEF Pairs
      <3>2. Req(g)' = Req(g)
        BY DEF Req
      <3> QED
        BY <3>1, <3>2 DEF ActiveProposals
    <2>4. getMaxProposalCount(target[g])' = getMaxProposalCount(target[g])
      BY DEF getMaxProposalCount
    <2> QED
      BY <1>1, <1>2, <2>2, <2>3, <2>4 DEF Held, Is, InTx, Req
  <1> QED
    BY <1>3, <1>4, <1>5

\* Writing a pair leaves the counted quotes of other requests alone.
LEMMA CountsApart ==
    ASSUME NEW p \in Pairs, NEW r \in Requests, NEW d \in BOOLEAN, r # p[1],
           \A q \in Pairs : q # p => /\ quote'[q] = quote[q]
                                     /\ q \in flagged' <=> q \in flagged
    PROVE  ActiveProposals(r, d)' = ActiveProposals(r, d)
  <1>1. \A m \in Movers : <<r, m>> \in Pairs /\ <<r, m>> # p
    BY DEF Pairs
  <1> QED
    BY <1>1 DEF ActiveProposals

\* createProposal and createRejection.
LEMMA CreateQuoteInv ==
    ASSUME Inv, NEW h \in Handlers, NEW kind \in {"PROPOSAL", "REJECTION"},
           NEW initial \in {"PENDING", "REJECTED"},
           initial = IF kind = "PROPOSAL" THEN "PENDING" ELSE "REJECTED",
           CreateQuote(h, kind, initial)
    PROVE  Inv'
  <1> DEFINE p == call[h].pair
  <1>1. TypeOK /\ OwnSteps(h) /\ Held(h) /\ InTx(h) /\ pc[h] = "write"
    BY DEF Inv, HeldReads, CreateQuote, InTx, InTxPcs
  <1>2. /\ p \in Pairs /\ Req(h) \in Requests /\ p[2] \in Movers
        /\ p = <<Req(h), p[2]>> /\ p[1] = Req(h)
    BY <1>1, CallShape DEF Req
  <1>3. /\ status[Req(h)] = "SUBMITTED"
        /\ quote[p] = "NONE" /\ p \notin flagged
        /\ target[h] <=> p \in designated
        /\ kind = "REJECTION" => target[h]
        /\ kind = "PROPOSAL" => Cardinality(ActiveProposals(Req(h), target[h]))
                                  < getMaxProposalCount(target[h])
    BY <1>1, <1>2 DEF CreateQuote, Held, Inv, DesignationAgrees
  <1>4. /\ quote' = [quote EXCEPT ![p] = initial]
        /\ flagged' = IF target[h] THEN flagged \cup {p} ELSE flagged
        /\ quote'[p] = initial
        /\ \A q \in Pairs : q # p => /\ quote'[q] = quote[q]
                                     /\ q \in flagged' <=> q \in flagged
        /\ quote' \in [Pairs -> QuoteStatus] /\ flagged' \subseteq Pairs
    BY <1>1, <1>2 DEF CreateQuote, TypeOK, QuoteStatus
  <1>5. UNCHANGED <<status, moveDate, confirmed, designated, now, jobs, notes>>
    BY DEF CreateQuote
  <1>6. Commit(h, "context") /\ Is(h, kind)
    BY DEF CreateQuote
  <1>7. /\ LockDiscipline'
        /\ pc'[h] = "context"
        /\ \A g \in Handlers \ {h} : pc'[g] = pc[g]
        /\ UNCHANGED <<call, target, seen>>
    BY <1>1, <1>6, CommitLock
  <1>8. TypeOK'
    BY <1>1, <1>4, <1>5, <1>6, CommitLock DEF TypeOK, jobs, notes
  <1>9. ConfirmedConsistent'
    <2>1. \A r \in Requests, m \in Movers :
             quote'[<<r, m>>] = "CONFIRMED" <=> quote[<<r, m>>] = "CONFIRMED"
      BY <1>3, <1>4 DEF Pairs
    <2> QED
      BY <1>5, <2>1 DEF Inv, ConfirmedConsistent
  <1>10. DesignationAgrees'
    BY <1>3, <1>4, <1>5 DEF Inv, DesignationAgrees
  <1>11. ProposalCaps'
    <2> SUFFICES ASSUME NEW r \in Requests, NEW d \in BOOLEAN
                 PROVE  Cardinality(ActiveProposals(r, d)')
                          <= getMaxProposalCount(d)
      BY DEF ProposalCaps, getMaxProposalCount
    <2>1. Cardinality(ActiveProposals(r, d)) <= getMaxProposalCount(d)
      BY DEF Inv, ProposalCaps
    <2>2. CASE r # Req(h)
      BY <1>2, <1>4, <2>1, <2>2, CountsApart
    <2>3. CASE r = Req(h)
      <3>1. \A m \in Movers : <<r, m>> \in Pairs
                             /\ (<<r, m>> = p <=> m = p[2])
        BY <1>2, <2>3 DEF Pairs
      <3>2. p[2] \notin ActiveProposals(r, d)
        BY <1>2, <1>3, <2>3 DEF ActiveProposals, SentQuoteStatuses
      <3>3. CASE kind = "PROPOSAL" /\ d = target[h]
        <4>1. ActiveProposals(r, d)' = ActiveProposals(r, d) \cup {p[2]}
          <5>1. quote'[p] \in SentQuoteStatuses
            BY <1>4, <3>3 DEF SentQuoteStatuses
          <5>2. (p \in flagged') = d
            BY <1>1, <1>2, <1>3, <1>4, <3>3 DEF TypeOK
          <5>3. \A m \in Movers \ {p[2]} :
                   /\ quote'[<<r, m>>] = quote[<<r, m>>]
                   /\ (<<r, m>> \in flagged') = (<<r, m>> \in flagged)
            BY <1>4, <3>1
          <5> QED
            BY <1>2, <2>3, <5>1, <5>2, <5>3 DEF ActiveProposals
        <4>2. IsFiniteSet(ActiveProposals(r, d))
          BY MoversFinite, FS_Subset DEF ActiveProposals
        <4>3. /\ Cardinality(ActiveProposals(r, d)) \in Nat
              /\ Cardinality(ActiveProposals(r, d)')
                   = Cardinality(ActiveProposals(r, d)) + 1
          BY <3>2, <4>1, <4>2, FS_AddElement, FS_CardinalityType
        <4>4. Cardinality(ActiveProposals(r, d)) < getMaxProposalCount(d)
          BY <1>3, <2>3, <3>3
        <4> QED
          BY <4>3, <4>4, CapsAreNumbers DEF getMaxProposalCount
      <3>4. CASE ~(kind = "PROPOSAL" /\ d = target[h])
        <4>1. ActiveProposals(r, d)' = ActiveProposals(r, d)
          BY <1>1, <1>2, <1>3, <1>4, <2>3, <3>1, <3>4
          DEF ActiveProposals, SentQuoteStatuses, TypeOK
        <4> QED
          BY <2>1, <4>1
      <3> QED
        BY <3>3, <3>4
    <2> QED
      BY <2>2, <2>3
  <1>12. HeldReads'
    <2>1. OwnSteps(h)' /\ Held(h)'
      BY <1>1, <1>6, <1>7 DEF OwnSteps, Held, Is, InTx, InTxPcs
    <2>2. ASSUME NEW g \in Handlers \ {h} PROVE OwnSteps(g)' /\ Held(g)'
      BY <1>1, <1>3, <1>4, <1>5, <1>7, OthersHeld
    <2> QED
      BY <2>1, <2>2 DEF HeldReads
  <1>13. TodayIsPast'
    BY <1>5 DEF Inv, TodayIsPast, jobs
  <1> QED
    BY <1>7, <1>8, <1>9, <1>10, <1>11, <1>12, <1>13 DEF Inv

\* confirmQuoteWithEstimateRequest.
LEMMA ConfirmInv ==
    ASSUME Inv, NEW h \in Handlers, ConfirmQuoteWithEstimateRequest(h)
    PROVE  Inv'
  <1> DEFINE p == call[h].pair
  <1>1. /\ TypeOK /\ OwnSteps(h) /\ Held(h) /\ InTx(h) /\ pc[h] = "write"
        /\ ConfirmedConsistent
    BY DEF Inv, HeldReads, ConfirmQuoteWithEstimateRequest, InTx, InTxPcs
  <1>2. /\ p \in Pairs /\ Req(h) \in Requests /\ p[2] \in Movers
        /\ p = <<Req(h), p[2]>> /\ p[1] = Req(h)
    BY <1>1, CallShape DEF Req
  <1>3. status[Req(h)] = "SUBMITTED" /\ quote[p] = "PENDING"
    BY <1>1, <1>2 DEF ConfirmQuoteWithEstimateRequest, Held
  <1>4. /\ quote'[p] = "CONFIRMED"
        /\ \A q \in Pairs : q # p => quote'[q] = quote[q]
        /\ status'[Req(h)] = "CONFIRMED" /\ confirmed'[Req(h)] = p[2]
        /\ \A r \in Requests : r # Req(h) => /\ status'[r] = status[r]
                                             /\ confirmed'[r] = confirmed[r]
        /\ quote' \in [Pairs -> QuoteStatus]
        /\ status' \in [Requests -> RequestStatus]
        /\ confirmed' \in [Requests -> Movers \cup {None}]
    BY <1>1, <1>2
    DEF ConfirmQuoteWithEstimateRequest, TypeOK, QuoteStatus, RequestStatus
  <1>5. /\ UNCHANGED <<moveDate, flagged, designated, now, jobs, notes>>
        /\ Commit(h, "context") /\ Is(h, "CONFIRM")
    BY DEF ConfirmQuoteWithEstimateRequest
  <1>6. /\ LockDiscipline'
        /\ pc'[h] = "context"
        /\ \A g \in Handlers \ {h} : pc'[g] = pc[g]
        /\ UNCHANGED <<call, target, seen>>
    BY <1>1, <1>5, CommitLock
  <1>7. TypeOK'
    BY <1>1, <1>4, <1>5, CommitLock DEF TypeOK, jobs, notes
  <1>8. ConfirmedConsistent'
    <2>1. confirmed[Req(h)] = None
      BY <1>1, <1>2, <1>3 DEF ConfirmedConsistent
    <2>2. ASSUME NEW r \in Requests
          PROVE  status'[r] \in {"CONFIRMED", "COMPLETED"} <=> confirmed'[r] # None
      BY <1>1, <1>2, <1>4 DEF ConfirmedConsistent
    <2>3. ASSUME NEW r \in Requests, NEW m \in Movers
          PROVE  quote'[<<r, m>>] = "CONFIRMED" <=> confirmed'[r] = m
      <3>1. /\ <<r, m>> \in Pairs
            /\ <<r, m>> = p <=> r = Req(h) /\ m = p[2]
        BY <1>2 DEF Pairs
      <3>2. CASE r = Req(h)
        <4>1. quote[<<r, m>>] # "CONFIRMED"
          BY <1>1, <2>1, <3>2 DEF ConfirmedConsistent
        <4> QED
          BY <1>2, <1>4, <3>1, <3>2, <4>1
      <3>3. CASE r # Req(h)
        BY <1>1, <1>4, <3>1, <3>3 DEF ConfirmedConsistent
      <3> QED
        BY <3>2, <3>3
    <2> QED
      BY <2>2, <2>3 DEF ConfirmedConsistent
  <1>9. DesignationAgrees'
    BY <1>2, <1>3, <1>4, <1>5 DEF Inv, DesignationAgrees
  <1>10. ProposalCaps'
    <2> SUFFICES ASSUME NEW r \in Requests, NEW d \in BOOLEAN
                 PROVE  Cardinality(ActiveProposals(r, d)')
                          <= getMaxProposalCount(d)
      BY DEF ProposalCaps, getMaxProposalCount
    <2>1. \A m \in Movers : <<r, m>> \in Pairs
      BY DEF Pairs
    <2>2. ActiveProposals(r, d)' = ActiveProposals(r, d)
      BY <1>3, <1>4, <1>5, <2>1 DEF ActiveProposals, SentQuoteStatuses
    <2> QED
      BY <2>2 DEF Inv, ProposalCaps
  <1>11. HeldReads'
    <2>1. OwnSteps(h)' /\ Held(h)'
      BY <1>1, <1>5, <1>6 DEF OwnSteps, Held, Is, InTx, InTxPcs
    <2>2. ASSUME NEW g \in Handlers \ {h} PROVE OwnSteps(g)' /\ Held(g)'
      BY <1>1, <1>4, <1>5, <1>6, OthersHeld DEF SentQuoteStatuses
    <2> QED
      BY <2>1, <2>2 DEF HeldReads
  <1>12. TodayIsPast'
    BY <1>5 DEF Inv, TodayIsPast, jobs
  <1> QED
    BY <1>6, <1>7, <1>8, <1>9, <1>10, <1>11, <1>12 DEF Inv

\* The insert of a designation.
LEMMA CreateDesignatedInv ==
    ASSUME Inv, NEW h \in Handlers, CreateDesignated(h)
    PROVE  Inv'
  <1> DEFINE p == call[h].pair
  <1>1. TypeOK /\ OwnSteps(h) /\ Held(h) /\ InTx(h) /\ pc[h] = "write"
    BY DEF Inv, HeldReads, CreateDesignated, InTx, InTxPcs
  <1>2. p \in Pairs
    BY <1>1, CallShape
  <1>3. quote[p] = "NONE"
    BY <1>1 DEF CreateDesignated, Held
  <1>4. /\ designated' = designated \cup {p}
        /\ UNCHANGED <<status, moveDate, confirmed, quote, flagged, now, jobs, notes>>
        /\ Commit(h, "deliver") /\ Is(h, "DESIGNATE")
    BY DEF CreateDesignated
  <1>5. /\ LockDiscipline'
        /\ pc'[h] = "deliver"
        /\ \A g \in Handlers \ {h} : pc'[g] = pc[g]
        /\ UNCHANGED <<call, target, seen>>
    BY <1>1, <1>4, CommitLock
  <1>6. TypeOK'
    BY <1>1, <1>2, <1>4, CommitLock DEF TypeOK, jobs, notes
  <1>7. ConfirmedConsistent' /\ TodayIsPast'
    BY <1>4 DEF Inv, ConfirmedConsistent, TodayIsPast, jobs
  <1>8. DesignationAgrees'
    BY <1>3, <1>4 DEF Inv, DesignationAgrees
  <1>9. ProposalCaps'
    BY <1>4 DEF Inv, ProposalCaps, ActiveProposals
  <1>10. HeldReads'
    <2>1. OwnSteps(h)' /\ Held(h)'
      BY <1>1, <1>4, <1>5 DEF OwnSteps, Held, Is, InTx, InTxPcs
    <2>2. ASSUME NEW g \in Handlers \ {h} PROVE OwnSteps(g)' /\ Held(g)'
      BY <1>1, <1>4, <1>5, OthersHeld
    <2> QED
      BY <2>1, <2>2 DEF HeldReads
  <1> QED
    BY <1>5, <1>6, <1>7, <1>8, <1>9, <1>10 DEF Inv

-----------------------------------------------------------------------------
(* Steps of the job, of the wizard and of the clock.                        *)

\* A step that leaves handlers, quotes and designations alone, and moves the
\* status only of requests nobody holds, along the two legal edges.
LEMMA StatusInv ==
    ASSUME Inv, TypeOK', TodayIsPast',
           UNCHANGED <<moveDate, confirmed, quote, flagged, designated, handlers>>,
           \A r \in Requests :
              \/ status'[r] = status[r]
              \/ /\ lock[r] = None
                 /\ \/ status[r] \in {"DRAFT", "SUBMITTED"}
                       /\ status'[r] \in {"SUBMITTED", "EXPIRED"}
                    \/ status[r] = "CONFIRMED" /\ status'[r] = "COMPLETED"
    PROVE  Inv'
  <1>1. TypeOK
    BY DEF Inv
  <1>2. ConfirmedConsistent'
    BY DEF Inv, ConfirmedConsistent
  <1>3. DesignationAgrees' /\ ProposalCaps'
    BY DEF Inv, DesignationAgrees, ProposalCaps, ActiveProposals
  <1>4. LockDiscipline'
    BY DEF Inv, LockDiscipline, handlers, InTx, Req
  <1>5. HeldReads'
    <2> SUFFICES ASSUME NEW h \in Handlers PROVE OwnSteps(h)' /\ Held(h)'
      BY DEF HeldReads
    <2>1. OwnSteps(h) /\ Held(h)
      BY DEF Inv, HeldReads
    <2>2. InTx(h) => status'[Req(h)] = status[Req(h)]
      <3> SUFFICES ASSUME InTx(h) PROVE status'[Req(h)] = status[Req(h)]
        OBVIOUS
      <3>1. pc[h] # "idle"
        BY DEF InTx, InTxPcs
      <3>2. Req(h) \in Requests
        BY <1>1, <3>1, CallShape
      <3>3. lock[Req(h)] = h
        BY <3>2 DEF Inv, LockDiscipline
      <3> QED
        BY <3>2, <3>3
    <2> QED
      BY <2>1, <2>2
      DEF OwnSteps, Held, handlers, Is, InTx, Req, ActiveProposals
  <1> QED
    BY <1>2, <1>3, <1>4, <1>5 DEF Inv

LEMMA SubmitInv ==
    ASSUME Inv, NEW r \in Requests, SubmitEstimateRequest(r)
    PROVE  Inv'
  <1>1. TypeOK' /\ TodayIsPast'
    BY DEF Inv, TypeOK, TodayIsPast, SubmitEstimateRequest, RequestStatus,
           handlers, jobs, notes
  <1> QED
    BY <1>1, StatusInv DEF SubmitEstimateRequest, Inv, TypeOK

\* The two bulk updates.
LEMMA ApplyInv ==
    ASSUME Inv, NEW j \in Jobs, ExpireApply(j) \/ CompleteApply(j)
    PROVE  Inv'
  <1>1. TypeOK
    BY DEF Inv
  <1>2. TypeOK' /\ TodayIsPast'
    <2>1. /\ status' \in [Requests -> RequestStatus]
          /\ jobPc' \in [Jobs -> JobPcs]
          /\ cand' \in [Jobs -> SUBSET Requests]
      BY <1>1 DEF ExpireApply, CompleteApply, Apply, TypeOK, RequestStatus, JobPcs
    <2>2. UNCHANGED <<moveDate, confirmed, quote, flagged, designated, handlers,
                      now, today, due, notes>>
      BY DEF ExpireApply, CompleteApply, Apply
    <2> QED
      BY <1>1, <2>1, <2>2 DEF Inv, TypeOK, TodayIsPast, handlers, notes
  <1>3. CASE ExpireApply(j)
    BY <1>1, <1>2, <1>3, StatusInv
    DEF ExpireApply, Apply, PastMoveDate, TypeOK
  <1>4. CASE CompleteApply(j)
    BY <1>1, <1>2, <1>4, StatusInv
    DEF CompleteApply, Apply, PastMoveDate, TypeOK
  <1> QED
    BY <1>3, <1>4

\* The other steps of the job touch its own state and the review requests.
LEMMA JobInv ==
    ASSUME Inv, NEW j \in Jobs,
           \/ StartRun(j) \/ ExpireScan(j) \/ CompleteScan(j) \/ StepFails(j)
           \/ ReviewList(j) \/ (\E r \in Requests : ReviewCheck(j, r))
           \/ ReviewCreate(j) \/ FinishRun(j) \/ KillRun(j)
    PROVE  Inv'
  <1>1. TypeOK
    BY DEF Inv
  <1>2. UNCHANGED rows /\ UNCHANGED handlers /\ UNCHANGED now /\ UNCHANGED sent
    BY DEF StartRun, ExpireScan, CompleteScan, Scan, StepFails, ReviewList,
           ReviewCheck, ReviewCreate, FinishRun, KillRun, StopRun, notes
  <1>3. /\ startOfDayKst(now) \in Int
        /\ \A from : PastMoveDate(j, from) \subseteq Requests
        /\ 0 <= startOfDayKst(now)
    BY <1>1 DEF startOfDayKst, TypeOK, PastMoveDate
  <1>4. /\ jobPc' \in [Jobs -> JobPcs]
        /\ today' \in [Jobs -> Int]
        /\ cand' \in [Jobs -> SUBSET Requests]
        /\ due' \in [Jobs -> Requests \cup {None}]
        /\ reviewed' \in [Requests -> Nat]
        /\ \A k \in Jobs : today'[k] <= startOfDayKst(now)
    <2>1. CASE StartRun(j)
      BY <1>1, <1>3, <2>1 DEF StartRun, TypeOK, JobPcs, notes, Inv, TodayIsPast
    <2>2. CASE ExpireScan(j) \/ CompleteScan(j)
      BY <1>1, <1>3, <2>2
      DEF ExpireScan, CompleteScan, Scan, TypeOK, JobPcs, notes, Inv, TodayIsPast
    <2>3. CASE StepFails(j)
      BY <1>1, <2>3 DEF StepFails, TypeOK, JobPcs, notes, Inv, TodayIsPast
    <2>4. CASE ReviewList(j)
      BY <1>1, <2>4 DEF ReviewList, TypeOK, JobPcs, notes, Inv, TodayIsPast
    <2>5. CASE \E r \in Requests : ReviewCheck(j, r)
      BY <1>1, <2>5 DEF ReviewCheck, TypeOK, JobPcs, notes, Inv, TodayIsPast
    <2>6. CASE ReviewCreate(j)
      <3>1. reviewed' \in [Requests -> Nat]
        <4>1. PICK n \in {0, 1} : reviewed' = [reviewed EXCEPT ![due[j]] = @ + n]
          BY <2>6 DEF ReviewCreate
        <4>2. CASE due[j] \in Requests
          BY <1>1, <4>1, <4>2 DEF TypeOK
        <4>3. CASE due[j] \notin Requests
          BY <1>1, <4>1, <4>3 DEF TypeOK
        <4> QED
          BY <4>2, <4>3
      <3> QED
        BY <1>1, <2>6, <3>1 DEF ReviewCreate, TypeOK, JobPcs, Inv, TodayIsPast
    <2>7. CASE FinishRun(j) \/ KillRun(j)
      <3>1. StopRun(j)
        BY <2>7 DEF FinishRun, KillRun
      <3>2. \A k \in Jobs : today'[k] \in {0, today[k]}
        BY <1>1, <3>1 DEF StopRun, TypeOK
      <3>3. today' \in [Jobs -> Int]
        BY <1>1, <3>1 DEF StopRun, TypeOK
      <3>4. \A k \in Jobs : today'[k] <= startOfDayKst(now)
        BY <1>3, <3>2 DEF Inv, TodayIsPast
      <3> QED
        BY <1>1, <3>1, <3>3, <3>4 DEF StopRun, TypeOK, JobPcs, notes
    <2> QED
      BY <2>1, <2>2, <2>3, <2>4, <2>5, <2>6, <2>7
  <1>5. TypeOK' /\ TodayIsPast'
    BY <1>1, <1>2, <1>4 DEF TypeOK, TodayIsPast, rows, handlers, startOfDayKst
  <1> QED
    BY <1>2, <1>5, StatusInv DEF rows

LEMMA TickInv ==
    ASSUME Inv, Tick
    PROVE  Inv'
  <1>1. TypeOK'
    BY TimeIsWhole DEF Inv, TypeOK, Tick, rows, handlers, jobs, notes
  <1>2. TodayIsPast'
    <2>1. startOfDayKst(now) <= startOfDayKst(now + 1)
      BY DEF Inv, TypeOK, startOfDayKst
    <2>2. startOfDayKst(now) \in Int /\ startOfDayKst(now + 1) \in Int
      BY DEF Inv, TypeOK, startOfDayKst
    <2> QED
      BY <2>1, <2>2 DEF Inv, TypeOK, TodayIsPast, Tick, jobs
  <1> QED
    BY <1>1, <1>2, StatusInv DEF Tick, rows

-----------------------------------------------------------------------------
LEMMA NextInv == Inv /\ [Next]_vars => Inv'
  <1> SUFFICES ASSUME Inv, [Next]_vars PROVE Inv'
    OBVIOUS
  <1>1. CASE UNCHANGED vars
    <2>1. TypeOK' /\ TodayIsPast'
      BY <1>1 DEF Inv, TypeOK, TodayIsPast, vars, rows, handlers, jobs, notes
    <2> QED
      BY <1>1, <2>1, StatusInv DEF vars, rows
  <1>2. ASSUME NEW h \in Handlers, NEW c \in Calls, Begin(h, c) PROVE Inv'
    BY <1>2, BeginInv
  <1>3. ASSUME NEW h \in Handlers, Lock(h) PROVE Inv'
    BY <1>3, LockStepInv
  <1>4. ASSUME NEW h \in Handlers, Read(h) PROVE Inv'
    BY <1>4, ReadStepInv
  <1>5. ASSUME NEW h \in Handlers, Write(h) PROVE Inv'
    BY <1>5, CreateQuoteInv, ConfirmInv, CreateDesignatedInv
    DEF Write, CreateProposal, CreateRejection
  <1>6. ASSUME NEW h \in Handlers, createNotification(h) PROVE Inv'
    <2>1. sent' \in [Notices \X Pairs -> Nat]
      <3>1. sent \in [Notices \X Pairs -> Nat]
        BY DEF Inv, TypeOK
      <3>2. PICK e : sent' = [sent EXCEPT ![e] = @ + 1]
        BY <1>6 DEF createNotification
      <3>3. CASE e \in Notices \X Pairs
        BY <3>1, <3>2, <3>3
      <3>4. CASE e \notin Notices \X Pairs
        BY <3>1, <3>2, <3>4
      <3> QED
        BY <3>3, <3>4
    <2> QED
      BY <1>6, <2>1, FinishInv DEF createNotification
  <1>7. ASSUME NEW h \in Handlers, Abort(h) PROVE Inv'
    <2>1. sent' \in [Notices \X Pairs -> Nat]
      BY <1>7 DEF Inv, TypeOK, Abort, notes
    <2> QED
      BY <1>7, <2>1, FinishInv DEF Abort, notes
  <1>8. ASSUME NEW j \in Jobs,
               StartRun(j) \/ JobStep(j) \/ StepFails(j) \/ KillRun(j)
        PROVE  Inv'
    BY <1>8, ApplyInv, JobInv DEF JobStep
  <1>9. ASSUME NEW r \in Requests, SubmitEstimateRequest(r) PROVE Inv'
    BY <1>9, SubmitInv
  <1>10. ASSUME Tick PROVE Inv'
    BY <1>10, TickInv
  <1> QED
    BY <1>1, <1>2, <1>3, <1>4, <1>5, <1>6, <1>7, <1>8, <1>9, <1>10 DEF Next

\* The inductive invariant holds: among others, every variable keeps its type
\* and the row lock is held exactly by the transactions past FOR UPDATE.
THEOREM InvHolds == Spec => []Inv
  BY InitInv, NextInv, PTL DEF Spec

\* A request is confirmed exactly when it names a mover, whose quote is its
\* only confirmed one (confirmQuote).
THEOREM ConfirmationIsConsistent == Spec => []ConfirmedConsistent
  <1>1. Inv => ConfirmedConsistent
    BY DEF Inv
  <1> QED
    BY <1>1, InvHolds, PTL

\* The isDesignated flag of a quote never disagrees with the designations
\* (submitQuote against createDesignatedEstimateRequest).
THEOREM DesignationsAgree == Spec => []DesignationAgrees
  <1>1. Inv => DesignationAgrees
    BY DEF Inv
  <1> QED
    BY <1>1, InvHolds, PTL

\* The limits on designated and general proposals are never exceeded
\* (createProposal).
THEOREM ProposalsAreCapped == Spec => []ProposalCaps
  <1>1. Inv => ProposalCaps
    BY DEF Inv
  <1> QED
    BY <1>1, InvHolds, PTL

-----------------------------------------------------------------------------
(* QuoteMatching implements MatchingContract.                               *)

LEMMA ContractInit == Init => Contract!Init
  BY DEF Init, Contract!Init, Pairs, Contract!Pairs, startOfDayKst

\* The stored flag counts the same quotes as the designations do.
LEMMA LiveIsActive ==
    ASSUME Inv, NEW r \in Requests, NEW d \in BOOLEAN
    PROVE  Contract!Live(r, d) = ActiveProposals(r, d)
  <1>1. \A m \in Movers : <<r, m>> \in Pairs
    BY DEF Pairs
  <1>2. \A m \in Movers : quote[<<r, m>>] \in SentQuoteStatuses
           => (<<r, m>> \in flagged <=> <<r, m>> \in designated)
    BY <1>1 DEF Inv, DesignationAgrees, SentQuoteStatuses
  <1> QED
    BY <1>2 DEF Contract!Live, ActiveProposals, SentQuoteStatuses

LEMMA WriteIsContract ==
    ASSUME Inv, NEW h \in Handlers, Write(h)
    PROVE  Contract!Next
  <1> DEFINE r == Req(h)
             m == call[h].pair[2]
  <1>1. TypeOK /\ Held(h) /\ InTx(h) /\ pc[h] = "write"
    BY DEF Inv, HeldReads, Write, CreateProposal, CreateRejection, CreateQuote,
           ConfirmQuoteWithEstimateRequest, CreateDesignated, InTx, InTxPcs
  <1>2. /\ r \in Requests /\ m \in Movers /\ call[h].pair = <<r, m>>
        /\ call[h].pair[1] = r
    BY <1>1, CallShape DEF Req
  <1>3. status[r] = "SUBMITTED"
    BY <1>1, <1>2 DEF Held
  <1>4. CASE CreateProposal(h)
    <2>1. /\ target[h] <=> <<r, m>> \in designated
          /\ target[h] \in BOOLEAN
          /\ Cardinality(ActiveProposals(r, target[h]))
               < getMaxProposalCount(target[h])
      BY <1>1, <1>2, <1>4 DEF CreateProposal, CreateQuote, Held, TypeOK
    <2>2. Cardinality(Contract!Live(r, <<r, m>> \in designated))
            < Contract!Cap(<<r, m>> \in designated)
      <3>1. (<<r, m>> \in designated) = target[h]
        BY <2>1
      <3>2. Contract!Live(r, target[h]) = ActiveProposals(r, target[h])
        BY <1>2, <2>1, LiveIsActive
      <3>3. Contract!Cap(target[h]) = getMaxProposalCount(target[h])
        BY DEF Contract!Cap, getMaxProposalCount
      <3> QED
        BY <2>1, <3>1, <3>2, <3>3
    <2>3. \A S : Contract!Cardinality(S) = Cardinality(S)
      BY DEF Contract!Cardinality, Cardinality
    <2>4. Contract!Offer(r, m)
      BY <1>2, <1>3, <1>4, <2>2, <2>3
      DEF Contract!Offer, CreateProposal, CreateQuote, startOfDayKst
    <2> QED
      BY <1>2, <2>4 DEF Contract!Next
  <1>5. CASE CreateRejection(h)
    <2>1. <<r, m>> \in designated
      BY <1>1, <1>2, <1>5 DEF CreateRejection, CreateQuote, Held
    <2>2. Contract!Decline(r, m)
      BY <1>2, <1>3, <1>5, <2>1
      DEF Contract!Decline, CreateRejection, CreateQuote, startOfDayKst
    <2> QED
      BY <1>2, <2>2 DEF Contract!Next
  <1>6. CASE ConfirmQuoteWithEstimateRequest(h)
    <2>1. Contract!Confirm(r, m)
      BY <1>2, <1>3, <1>6
      DEF Contract!Confirm, ConfirmQuoteWithEstimateRequest, startOfDayKst
    <2> QED
      BY <1>2, <2>1 DEF Contract!Next
  <1>7. CASE CreateDesignated(h)
    <2>1. quote[<<r, m>>] = "NONE"
      BY <1>1, <1>2, <1>7 DEF CreateDesignated, Held
    <2>2. Contract!Designate(r, m)
      BY <1>2, <1>3, <1>7, <2>1
      DEF Contract!Designate, CreateDesignated, startOfDayKst
    <2> QED
      BY <1>2, <2>2 DEF Contract!Next
  <1> QED
    BY <1>4, <1>5, <1>6, <1>7 DEF Write

LEMMA ApplyIsContract ==
    ASSUME Inv, NEW j \in Jobs, ExpireApply(j) \/ CompleteApply(j)
    PROVE  Contract!Next
  <1>0. TypeOK /\ today[j] <= startOfDayKst(now)
    BY DEF Inv, TodayIsPast
  <1>a. today[j] \in Int /\ startOfDayKst(now) \in Int
    BY <1>0 DEF TypeOK, startOfDayKst
  <1>b. \A r \in Requests : moveDate[r] \in Int
    BY <1>0, TimeIsWhole DEF TypeOK
  <1>1. /\ TypeOK
        /\ today[j] \in Int /\ today[j] <= startOfDayKst(now)
        /\ startOfDayKst(now) \in Int
        /\ \A r \in Requests : moveDate[r] \in Int
    BY <1>0, <1>a, <1>b
  <1>2. ASSUME NEW from, NEW to, NEW at, NEW next, Apply(j, at, from, to, next)
        PROVE  Contract!Close(cand[j] \cap PastMoveDate(j, from), from, to)
    <2>1. \A r \in cand[j] \cap PastMoveDate(j, from) :
             status[r] = from /\ moveDate[r] < startOfDayKst(now)
      BY <1>1 DEF PastMoveDate
    <2> QED
      BY <1>2, <2>1 DEF Apply, Contract!Close
  <1>3. \A from : cand[j] \cap PastMoveDate(j, from) \in SUBSET Requests
    BY DEF PastMoveDate
  <1> QED
    BY <1>2, <1>3 DEF ExpireApply, CompleteApply, Contract!Next

LEMMA TickIsContract ==
    ASSUME Inv, Tick
    PROVE  Contract!Next \/ UNCHANGED Contract!cvars
  <1>1. now \in Int /\ now' = now + 1 /\ UNCHANGED rows
    BY DEF Inv, TypeOK, Tick
  <1>2. \/ startOfDayKst(now)' = startOfDayKst(now)
        \/ startOfDayKst(now)' = startOfDayKst(now) + 1
    BY <1>1 DEF startOfDayKst
  <1> QED
    BY <1>1, <1>2 DEF Contract!Next, Contract!NewDay, Contract!cvars, rows

LEMMA NextIsContract ==
    Inv /\ [Next]_vars => [Contract!Next]_(Contract!cvars)
  <1> SUFFICES ASSUME Inv, [Next]_vars
               PROVE  Contract!Next \/ UNCHANGED Contract!cvars
    BY DEF Contract!cvars
  <1>1. ASSUME UNCHANGED rows, UNCHANGED now PROVE UNCHANGED Contract!cvars
    BY <1>1 DEF rows, Contract!cvars, startOfDayKst
  <1>2. CASE UNCHANGED vars
    BY <1>1, <1>2 DEF vars
  <1>3. ASSUME NEW h \in Handlers, NEW c \in Calls, Begin(h, c)
        PROVE  UNCHANGED Contract!cvars
    BY <1>1, <1>3 DEF Begin
  <1>4. ASSUME NEW h \in Handlers, Lock(h) PROVE UNCHANGED Contract!cvars
    BY <1>1, <1>4 DEF Lock, SubmitLock, ConfirmLock, DesignateLock, LockRequest
  <1>5. ASSUME NEW h \in Handlers, Read(h) PROVE UNCHANGED Contract!cvars
    BY <1>1, <1>5
    DEF Read, isDesignatedMover, findExistingQuote, CountProposals,
        findCustomerQuoteForConfirm, DesignateRead, DesignateExisting,
        DesignatePrecheck, DesignateRecheck, DesignateRequote,
        findQuoteNotificationContext
  <1>6. ASSUME NEW h \in Handlers, createNotification(h) \/ Abort(h)
        PROVE  UNCHANGED Contract!cvars
    BY <1>1, <1>6 DEF createNotification, Abort
  <1>7. ASSUME NEW j \in Jobs,
               \/ StartRun(j) \/ ExpireScan(j) \/ CompleteScan(j)
               \/ StepFails(j) \/ ReviewList(j) \/ ReviewCreate(j)
               \/ (\E r \in Requests : ReviewCheck(j, r))
               \/ FinishRun(j) \/ KillRun(j)
        PROVE  UNCHANGED Contract!cvars
    BY <1>1, <1>7
    DEF StartRun, ExpireScan, CompleteScan, Scan, StepFails, ReviewList,
        ReviewCheck, ReviewCreate, FinishRun, KillRun, StopRun
  <1>8. ASSUME NEW r \in Requests, SubmitEstimateRequest(r) PROVE Contract!Next
    <2>1. Contract!Submit(r)
      BY <1>8 DEF SubmitEstimateRequest, Contract!Submit, startOfDayKst
    <2> QED
      BY <2>1 DEF Contract!Next
  <1> QED
    BY <1>2, <1>3, <1>4, <1>5, <1>6, <1>7, <1>8, WriteIsContract,
       ApplyIsContract, TickIsContract
    DEF Next, JobStep

\* Every commit of the handlers and of the job is one operation of the
\* contract, every other step leaves what it speaks of alone.
THEOREM ImplementsContract == Spec => ContractSpec
  BY ContractInit, NextIsContract, InvHolds, PTL
  DEF Spec, ContractSpec, Contract!Spec

-----------------------------------------------------------------------------
(* What is settled stays settled.  The contract's operations are few, so    *)
(* what no step may undo is shown of them.                                  *)

\* No operation takes back what was announced or decided.
LEMMA ContractSettles ==
    ASSUME Inv, Contract!Next
    PROVE  /\ Settled
           /\ \A n \in Notices, p \in Pairs : Fact(n, p) => Fact(n, p)'
  <1>0. /\ status \in [Requests -> RequestStatus]
        /\ quote \in [Pairs -> QuoteStatus]
    BY DEF Inv, TypeOK
  <1>1. ASSUME UNCHANGED <<quote, designated>>,
               \A r \in Requests : RequestSettled(r)
        PROVE  /\ Settled
               /\ \A n \in Notices, p \in Pairs : Fact(n, p) => Fact(n, p)'
    BY <1>1 DEF Settled, QuoteSettled, Fact
  <1>2. CASE \E r \in Requests : Contract!Submit(r)
    <2>1. PICK r \in Requests : Contract!Submit(r)
      BY <1>2
    <2>2. \A q \in Requests : RequestSettled(q)
      BY <1>0, <2>1 DEF Contract!Submit, RequestSettled
    <2> QED
      BY <1>1, <2>1, <2>2 DEF Contract!Submit
  <1>3. ASSUME NEW r \in Requests, NEW m \in Movers,
               Contract!Offer(r, m) \/ Contract!Decline(r, m)
        PROVE  /\ Settled
               /\ \A n \in Notices, p \in Pairs : Fact(n, p) => Fact(n, p)'
    <2>1. /\ <<r, m>> \in Pairs /\ quote[<<r, m>>] = "NONE"
          /\ status[r] = "SUBMITTED"
          /\ \A p \in Pairs : p # <<r, m>> => quote'[p] = quote[p]
          /\ UNCHANGED <<status, designated>>
      BY <1>0, <1>3 DEF Contract!Offer, Contract!Decline, Pairs
    <2>2. \A p \in Pairs : QuoteSettled(p)
      BY <2>1 DEF QuoteSettled
    <2>3. \A n \in Notices, p \in Pairs : Fact(n, p) => Fact(n, p)'
      BY <2>1 DEF Fact, Notices, SentQuoteStatuses
    <2> QED
      BY <2>1, <2>2, <2>3 DEF Settled, RequestSettled
  <1>4. ASSUME NEW r \in Requests, NEW m \in Movers, Contract!Designate(r, m)
        PROVE  /\ Settled
               /\ \A n \in Notices, p \in Pairs : Fact(n, p) => Fact(n, p)'
    <2>1. \A p \in Pairs : QuoteSettled(p)
      BY <1>4 DEF Contract!Designate, QuoteSettled
    <2>2. \A n \in Notices, p \in Pairs : Fact(n, p) => Fact(n, p)'
      BY <1>4 DEF Contract!Designate, Fact, Notices
    <2> QED
      BY <1>4, <2>1, <2>2 DEF Contract!Designate, Settled, RequestSettled
  <1>5. ASSUME NEW r \in Requests, NEW m \in Movers, Contract!Confirm(r, m)
        PROVE  /\ Settled
               /\ \A n \in Notices, p \in Pairs : Fact(n, p) => Fact(n, p)'
    <2>1. /\ <<r, m>> \in Pairs /\ quote[<<r, m>>] = "PENDING"
          /\ quote'[<<r, m>>] = "CONFIRMED"
          /\ status[r] = "SUBMITTED"
          /\ \A p \in Pairs : p # <<r, m>> => quote'[p] = quote[p]
          /\ \A q \in Requests : q # r => status'[q] = status[q]
          /\ UNCHANGED designated
      BY <1>0, <1>5 DEF Contract!Confirm, Pairs
    <2>2. \A p \in Pairs : QuoteSettled(p)
      BY <2>1 DEF QuoteSettled
    <2>3. \A n \in Notices, p \in Pairs : Fact(n, p) => Fact(n, p)'
      BY <2>1 DEF Fact, Notices, SentQuoteStatuses
    <2>4. \A q \in Requests : RequestSettled(q)
      BY <2>1 DEF RequestSettled
    <2> QED
      BY <2>2, <2>3, <2>4 DEF Settled
  <1>6. ASSUME NEW S \in SUBSET Requests,
               \/ Contract!Close(S, "SUBMITTED", "EXPIRED")
               \/ Contract!Close(S, "CONFIRMED", "COMPLETED")
        PROVE  /\ Settled
               /\ \A n \in Notices, p \in Pairs : Fact(n, p) => Fact(n, p)'
    <2>1. \A q \in Requests : RequestSettled(q)
      BY <1>0, <1>6 DEF Contract!Close, RequestSettled
    <2> QED
      BY <1>1, <1>6, <2>1 DEF Contract!Close
  <1>7. CASE Contract!NewDay
    BY <1>1, <1>7 DEF Contract!NewDay, RequestSettled
  <1> QED
    BY <1>2, <1>3, <1>4, <1>5, <1>6, <1>7 DEF Contract!Next

\* So no step of the handlers or the job does.
LEMMA NextSettles ==
    ASSUME Inv, [Next]_vars
    PROVE  /\ Settled
           /\ \A n \in Notices, p \in Pairs : Fact(n, p) => Fact(n, p)'
  <1>1. CASE Contract!Next
    BY <1>1, ContractSettles
  <1>2. CASE UNCHANGED Contract!cvars
    BY <1>2
    DEF Contract!cvars, Settled, QuoteSettled, RequestSettled, Fact, Notices
  <1> QED
    BY <1>1, <1>2, NextIsContract

\* Quotes and designations change only while the request is SUBMITTED; what
\* was confirmed, rejected, expired or completed is so for good.
THEOREM SettlesForGood == Spec => SettledForGood
  <1>1. Inv /\ [Next]_vars => [Settled]_vars
    BY NextSettles
  <1> QED
    BY <1>1, InvHolds, PTL DEF Spec, SettledForGood

-----------------------------------------------------------------------------
(* Every event is announced at most once, and only after it happened.       *)

\* A counter of notices is a number.
LEMMA SentCount ==
    ASSUME TypeOK, NEW n \in Notices, NEW p \in Pairs
    PROVE  <<n, p>> \in Notices \X Pairs /\ sent[<<n, p>>] \in Nat
  <1>1. <<n, p>> \in Notices \X Pairs
    OBVIOUS
  <1>2. sent \in [Notices \X Pairs -> Nat]
    BY DEF TypeOK
  <1>3. sent[<<n, p>>] \in Nat
    BY <1>1, <1>2, Zenon
  <1> QED
    BY <1>1, <1>3

LEMMA NoticesInit == Init => NoticesOnce /\ NoticesOwed
  <1> SUFFICES ASSUME Init PROVE NoticesOnce /\ NoticesOwed
    OBVIOUS
  <1>1. NoticesOnce
    <2> SUFFICES ASSUME NEW n \in Notices, NEW p \in Pairs
                 PROVE  sent[<<n, p>>] <= 1 /\ (sent[<<n, p>>] > 0 => Fact(n, p))
      BY DEF NoticesOnce
    <2>1. <<n, p>> \in Notices \X Pairs
      OBVIOUS
    <2>2. sent = [np \in Notices \X Pairs |-> 0]
      BY DEF Init
    <2>3. sent[<<n, p>>] = 0
      BY <2>1, <2>2, Zenon
    <2> QED
      BY <2>3
  <1>2. NoticesOwed
    BY DEF Init, NoticesOwed, Owes
  <1> QED
    BY <1>1, <1>2

\* A step that sends nothing and after which nobody new has to.
LEMMA QuietNotices ==
    ASSUME Inv, [Next]_vars, NoticesOnce, NoticesOwed, UNCHANGED sent,
           \A n \in Notices, p \in Pairs, h \in Handlers :
              Owes(h, n, p)' => Owes(h, n, p)
    PROVE  NoticesOnce' /\ NoticesOwed'
  <1>1. \A n \in Notices, p \in Pairs : Fact(n, p) => Fact(n, p)'
    BY NextSettles
  <1>2. NoticesOnce'
    BY <1>1 DEF NoticesOnce
  <1>3. NoticesOwed'
    BY <1>1 DEF NoticesOwed
  <1> QED
    BY <1>2, <1>3

\* What a call announces, and about which pair.
LEMMA NoticeShape ==
    ASSUME TypeOK, NEW h \in Handlers, pc[h] # "idle"
    PROVE  NoticeOf(h) \in Notices /\ call[h].pair \in Pairs
  BY CallShape DEF NoticeOf, Notices, Calls, Kinds

\* A commit makes true what is announced after it, and it was not true before.
LEMMA WriteIsNews ==
    ASSUME Inv, NEW h \in Handlers, Write(h)
    PROVE  /\ ~Fact(NoticeOf(h), call[h].pair)
           /\ Fact(NoticeOf(h), call[h].pair)'
           /\ NoticeOf(h)' = NoticeOf(h) /\ UNCHANGED <<call, sent>>
           /\ \A g \in Handlers \ {h} : pc'[g] = pc[g]
  <1>1. TypeOK /\ Held(h) /\ pc[h] = "write"
    BY DEF Inv, HeldReads, Write, CreateProposal, CreateRejection, CreateQuote,
           ConfirmQuoteWithEstimateRequest, CreateDesignated
  <1>2. call[h] # None /\ call[h].pair \in Pairs
    BY <1>1, CallShape
  <1>3. UNCHANGED <<call, sent>> /\ \A g \in Handlers \ {h} : pc'[g] = pc[g]
    BY <1>1
    DEF Write, CreateProposal, CreateRejection, CreateQuote, TypeOK, Commit, locals,
        ConfirmQuoteWithEstimateRequest, CreateDesignated, notes
  <1>4. NoticeOf(h)' = NoticeOf(h)
    BY <1>3 DEF NoticeOf
  <1>5. CASE CreateProposal(h)
    <2>1. NoticeOf(h) = "OFFER"
      BY <1>5 DEF CreateProposal, CreateQuote, Is, NoticeOf
    <2>2. quote[call[h].pair] = "NONE" /\ quote'[call[h].pair] = "PENDING"
      BY <1>1, <1>2, <1>5 DEF CreateProposal, CreateQuote, TypeOK
    <2> QED
      BY <1>3, <1>4, <2>1, <2>2 DEF Fact, SentQuoteStatuses
  <1>6. CASE CreateRejection(h)
    <2>1. NoticeOf(h) = "REJECTED"
      BY <1>6 DEF CreateRejection, CreateQuote, Is, NoticeOf
    <2>2. quote[call[h].pair] = "NONE" /\ quote'[call[h].pair] = "REJECTED"
      BY <1>1, <1>2, <1>6 DEF CreateRejection, CreateQuote, TypeOK
    <2> QED
      BY <1>3, <1>4, <2>1, <2>2 DEF Fact
  <1>7. CASE ConfirmQuoteWithEstimateRequest(h)
    <2>1. NoticeOf(h) = "CONFIRMED"
      BY <1>7 DEF ConfirmQuoteWithEstimateRequest, Is, NoticeOf
    <2>2. quote[call[h].pair] = "PENDING" /\ quote'[call[h].pair] = "CONFIRMED"
      BY <1>1, <1>2, <1>7 DEF ConfirmQuoteWithEstimateRequest, TypeOK
    <2> QED
      BY <1>3, <1>4, <2>1, <2>2 DEF Fact
  <1>8. CASE CreateDesignated(h)
    <2>1. NoticeOf(h) = "DESIGNATED"
      BY <1>8 DEF CreateDesignated, Is, NoticeOf
    <2>2. call[h].pair \notin designated /\ call[h].pair \in designated'
      BY <1>8 DEF CreateDesignated
    <2> QED
      BY <1>3, <1>4, <2>1, <2>2 DEF Fact
  <1> QED
    BY <1>5, <1>6, <1>7, <1>8 DEF Write

LEMMA WriteNotices ==
    ASSUME Inv, [Next]_vars, NoticesOnce, NoticesOwed, NEW h \in Handlers, Write(h)
    PROVE  NoticesOnce' /\ NoticesOwed'
  <1>1. \A n \in Notices, p \in Pairs : Fact(n, p) => Fact(n, p)'
    BY NextSettles
  <1>2. NoticesOnce'
    BY <1>1, WriteIsNews DEF NoticesOnce
  <1>3. \A g \in Handlers \ {h} : NoticeOf(g)' = NoticeOf(g)
    BY WriteIsNews DEF NoticeOf
  <1>4. ASSUME NEW n \in Notices, NEW p \in Pairs, NEW g \in Handlers \ {h},
               Owes(g, n, p)'
        PROVE  Owes(g, n, p) /\ ~Owes(h, n, p)'
    <2>1. Owes(g, n, p)
      BY <1>3, <1>4, WriteIsNews DEF Owes
    <2>2. Fact(n, p)
      BY <2>1 DEF NoticesOwed
    <2> QED
      BY <2>1, <2>2, WriteIsNews DEF Owes
  <1>5. ASSUME NEW n \in Notices, NEW p \in Pairs, Owes(h, n, p)'
        PROVE  Fact(n, p)' /\ sent'[<<n, p>>] = 0
    <2>1. n = NoticeOf(h) /\ p = call[h].pair
      BY <1>5, WriteIsNews DEF Owes
    <2>2. ~Fact(n, p) /\ Fact(n, p)' /\ UNCHANGED sent
      BY <2>1, WriteIsNews
    <2>a. sent[<<n, p>>] \in Nat
      BY SentCount DEF Inv
    <2>3. sent[<<n, p>>] = 0
      BY <2>2, <2>a DEF NoticesOnce
    <2> QED
      BY <2>2, <2>3
  <1>6. UNCHANGED sent
    BY WriteIsNews
  <1>7. NoticesOwed'
    BY <1>1, <1>4, <1>5, <1>6 DEF NoticesOwed
  <1> QED
    BY <1>2, <1>7

LEMMA SendNotices ==
    ASSUME Inv, [Next]_vars, NoticesOnce, NoticesOwed, NEW h \in Handlers,
           createNotification(h)
    PROVE  NoticesOnce' /\ NoticesOwed'
  <1> DEFINE n0 == NoticeOf(h)
             p0 == call[h].pair
  <1>1. /\ TypeOK /\ pc[h] = "deliver"
        /\ n0 \in Notices /\ p0 \in Pairs
    BY NoticeShape DEF Inv, createNotification
  <1>2. \A n \in Notices, p \in Pairs : Fact(n, p) => Fact(n, p)'
    BY NextSettles
  <1>3. Owes(h, n0, p0)
    BY <1>1 DEF Owes
  <1>4. Fact(n0, p0) /\ sent[<<n0, p0>>] = 0
    BY <1>1, <1>3 DEF NoticesOwed
  <1>5. \A n \in Notices, p \in Pairs :
           sent'[<<n, p>>] = IF n = n0 /\ p = p0 THEN 1 ELSE sent[<<n, p>>]
    <2> DEFINE e == <<n0, p0>>
    <2>1. /\ sent \in [Notices \X Pairs -> Nat]
          /\ e \in Notices \X Pairs /\ sent[e] = 0
          /\ sent' = [sent EXCEPT ![e] = @ + 1]
      BY <1>1, <1>4 DEF createNotification, TypeOK
    <2>2. \A x \in Notices \X Pairs : sent'[x] = IF x = e THEN 1 ELSE sent[x]
      <3> HIDE DEF e
      <3> QED
        BY <2>1
    <2>3. \A n \in Notices, p \in Pairs : <<n, p>> \in Notices \X Pairs
      OBVIOUS
    <2>4. \A n \in Notices, p \in Pairs : <<n, p>> = e <=> n = n0 /\ p = p0
      OBVIOUS
    <2> QED
      BY <2>2, <2>3, <2>4, Zenon
  <1>6. NoticesOnce'
    <2> SUFFICES ASSUME NEW n \in Notices, NEW p \in Pairs
                 PROVE  sent'[<<n, p>>] <= 1 /\ (sent'[<<n, p>>] > 0 => Fact(n, p)')
      BY DEF NoticesOnce
    <2>1. CASE n = n0 /\ p = p0
      BY <1>2, <1>4, <1>5, <2>1
    <2>2. CASE ~(n = n0 /\ p = p0)
      <3>1. sent'[<<n, p>>] = sent[<<n, p>>]
        BY <1>5, <2>2
      <3> QED
        BY <1>2, <3>1 DEF NoticesOnce
    <2> QED
      BY <2>1, <2>2
  <1>7. /\ pc'[h] = "idle"
        /\ \A g \in Handlers \ {h} : pc'[g] = pc[g] /\ call'[g] = call[g]
    BY <1>1 DEF createNotification, Finish, TypeOK
  <1>8. ASSUME NEW n \in Notices, NEW p \in Pairs, NEW g \in Handlers,
               Owes(g, n, p)'
        PROVE  Owes(g, n, p) /\ ~(n = n0 /\ p = p0)
    <2>1. g # h
      BY <1>7, <1>8 DEF Owes
    <2>2. Owes(g, n, p)
      BY <1>7, <1>8, <2>1 DEF Owes, NoticeOf
    <2> QED
      BY <1>3, <2>1, <2>2 DEF NoticesOwed
  <1>9. NoticesOwed'
    BY <1>2, <1>5, <1>8 DEF NoticesOwed
  <1> QED
    BY <1>6, <1>9

\* The other steps of a handler bring nobody nearer to announcing anything.
LEMMA OtherNotices ==
    ASSUME Inv, [Next]_vars, NoticesOnce, NoticesOwed, NEW h \in Handlers,
           (\E c \in Calls : Begin(h, c)) \/ Lock(h) \/ Read(h) \/ Abort(h)
    PROVE  NoticesOnce' /\ NoticesOwed'
  <1>1. TypeOK
    BY DEF Inv
  <1>2. /\ UNCHANGED sent
        /\ \A g \in Handlers \ {h} : pc'[g] = pc[g] /\ call'[g] = call[g]
        /\ pc'[h] \in {"context", "deliver"} => pc[h] = "context" /\ call'[h] = call[h]
    <2>1. ASSUME Finish(h), UNCHANGED sent
          PROVE  /\ UNCHANGED sent
                 /\ \A g \in Handlers \ {h} : pc'[g] = pc[g] /\ call'[g] = call[g]
                 /\ pc'[h] = "idle"
      BY <1>1, <2>1 DEF Finish, TypeOK
    <2>2. ASSUME NEW next, Proceed(h, next), UNCHANGED sent
          PROVE  /\ UNCHANGED sent
                 /\ \A g \in Handlers \ {h} : pc'[g] = pc[g] /\ call'[g] = call[g]
                 /\ pc'[h] = next /\ call'[h] = call[h]
      BY <1>1, <2>2 DEF Proceed, TypeOK
    <2>3. CASE \E c \in Calls : Begin(h, c)
      BY <1>1, <2>3 DEF Begin, TypeOK, notes
    <2>4. CASE Lock(h)
      BY <1>1, <2>1, <2>4
      DEF Lock, SubmitLock, ConfirmLock, DesignateLock, LockRequest, TypeOK, notes, locals
    <2>5. CASE Abort(h)
      BY <2>1, <2>5 DEF Abort, notes
    <2>6. CASE findQuoteNotificationContext(h)
      BY <2>1, <2>2, <2>6 DEF findQuoteNotificationContext, Check, notes
    <2>7. CASE isDesignatedMover(h) \/ DesignateRead(h) \/ findCustomerQuoteForConfirm(h)
      BY <2>1, <2>2, <2>7
      DEF isDesignatedMover, DesignateRead, findCustomerQuoteForConfirm, notes
    <2>8. CASE findExistingQuote(h)
      BY <2>1, <2>2, <2>8 DEF findExistingQuote, Check, notes
    <2>9. CASE CountProposals(h) \/ DesignateExisting(h) \/ DesignatePrecheck(h)
      BY <2>1, <2>2, <2>9
      DEF CountProposals, DesignateExisting, DesignatePrecheck, Check, notes
    <2>10. CASE DesignateRecheck(h) \/ DesignateRequote(h)
      BY <2>1, <2>2, <2>10 DEF DesignateRecheck, DesignateRequote, Check, notes
    <2> QED
      BY <2>3, <2>4, <2>5, <2>6, <2>7, <2>8, <2>9, <2>10 DEF Read
  <1>3. \A n \in Notices, p \in Pairs, g \in Handlers :
           Owes(g, n, p)' => Owes(g, n, p)
    BY <1>2 DEF Owes, NoticeOf
  <1> QED
    BY <1>2, <1>3, QuietNotices

LEMMA NoticesStep ==
    ASSUME Inv, [Next]_vars, NoticesOnce, NoticesOwed
    PROVE  NoticesOnce' /\ NoticesOwed'
  <1>1. ASSUME UNCHANGED <<pc, call, sent>> PROVE NoticesOnce' /\ NoticesOwed'
    BY <1>1, QuietNotices DEF Owes, NoticeOf
  <1>2. CASE UNCHANGED vars
    BY <1>1, <1>2 DEF vars, handlers, notes
  <1>3. ASSUME NEW j \in Jobs,
               StartRun(j) \/ JobStep(j) \/ StepFails(j) \/ KillRun(j)
        PROVE  UNCHANGED <<pc, call, sent>>
    BY <1>3
    DEF StartRun, JobStep, ExpireScan, CompleteScan, Scan, StepFails, ReviewList,
        ReviewCheck, ReviewCreate, FinishRun, KillRun, StopRun, ExpireApply,
        CompleteApply, Apply, notes, handlers
  <1>4. ASSUME NEW r \in Requests, SubmitEstimateRequest(r)
        PROVE  UNCHANGED <<pc, call, sent>>
    BY <1>4 DEF SubmitEstimateRequest, notes, handlers
  <1>5. ASSUME Tick PROVE UNCHANGED <<pc, call, sent>>
    BY <1>5 DEF Tick, notes, handlers
  <1> QED
    BY <1>1, <1>2, <1>3, <1>4, <1>5, WriteNotices, SendNotices, OtherNotices DEF Next

\* No event is announced twice, and none that did not happen, whatever calls
\* are repeated, raced, aborted or lost (createNotification after the commit).
THEOREM NoticesAreSentOnce == Spec => []NoticesOnce
  <1>1. (NoticesOnce /\ NoticesOwed) /\ Inv /\ [Next]_vars
           => (NoticesOnce /\ NoticesOwed)'
    BY NoticesStep
  <1> QED
    BY <1>1, NoticesInit, InvHolds, PTL DEF Spec

-----------------------------------------------------------------------------
(* A completed move is asked about no more often than runs overlap.         *)

Reviews == ReviewsWithinRuns /\ ReviewsOwed

\* How many runs are about to ask is a number no larger than that of the runs.
LEMMA AskingCount ==
    ASSUME NEW A, A \subseteq Jobs
    PROVE  IsFiniteSet(A) /\ Cardinality(A) \in Nat /\ Cardinality(A) <= Cardinality(Jobs)
  BY JobsFinite, FS_Subset, FS_CardinalityType

LEMMA ReviewsInit == Init => Reviews
  <1> SUFFICES ASSUME Init PROVE Reviews
    OBVIOUS
  <1>1. \A r \in Requests : reviewed[r] = 0
    BY DEF Init
  <1>2. Cardinality(Jobs) \in Nat
    BY AskingCount
  <1>3. ReviewsWithinRuns
    BY <1>1, <1>2 DEF ReviewsWithinRuns
  <1>4. \A j \in Jobs : CatchUp(j)
    BY DEF Init, CatchUp
  <1>5. ASSUME NEW r \in Requests
        PROVE  reviewed[r] + Cardinality(Asking(r)) <= Cardinality(Jobs)
    <2>1. Asking(r) \subseteq Jobs
      BY DEF Asking
    <2> QED
      BY <1>1, <2>1, AskingCount
  <1> QED
    BY <1>3, <1>4, <1>5 DEF Reviews, ReviewsOwed

\* A completed move stays completed.
LEMMA CompletedStays ==
    ASSUME Inv, [Next]_vars
    PROVE  \A r \in Requests : status[r] = "COMPLETED" => status'[r] = "COMPLETED"
  BY NextSettles DEF Settled, RequestSettled

\* What the other runs hold stays right when one run moves.
LEMMA OthersCatchUp ==
    ASSUME Inv, [Next]_vars, Reviews,
           NEW i \in Jobs, UNCHANGED <<jobPc[i], cand[i], due[i]>>
    PROVE  CatchUp(i)'
  <1>1. CatchUp(i) /\ cand[i] \subseteq Requests
    BY DEF Reviews, ReviewsOwed, Inv, TypeOK
  <1> QED
    BY <1>1, CompletedStays DEF CatchUp

\* A step that stores no question: nobody joins those who are about to ask for
\* r, or nothing was stored for r before.
LEMMA QuietReviews ==
    ASSUME Inv, [Next]_vars, Reviews, UNCHANGED reviewed,
           \A j \in Jobs : \/ UNCHANGED <<jobPc[j], cand[j], due[j]>>
                           \/ CatchUp(j)',
           \A r \in Requests : Asking(r)' \subseteq Asking(r) \/ reviewed[r] = 0
    PROVE  Reviews'
  <1>1. ReviewsWithinRuns'
    BY CompletedStays DEF Reviews, ReviewsWithinRuns
  <1>2. \A j \in Jobs : CatchUp(j)'
    BY OthersCatchUp
  <1>3. ASSUME NEW r \in Requests
        PROVE  reviewed'[r] + Cardinality(Asking(r)') <= Cardinality(Jobs)
    <2>1. /\ Asking(r) \subseteq Jobs /\ Asking(r)' \subseteq Jobs
          /\ reviewed[r] \in Nat /\ Cardinality(Jobs) \in Nat
      BY AskingCount DEF Asking, Inv, TypeOK
    <2>2. reviewed[r] + Cardinality(Asking(r)) <= Cardinality(Jobs)
      BY DEF Reviews, ReviewsOwed
    <2>3. CASE reviewed[r] = 0
      BY <2>1, <2>3, AskingCount
    <2>4. CASE Asking(r)' \subseteq Asking(r)
      <3>1. Cardinality(Asking(r)') <= Cardinality(Asking(r))
        BY <2>1, <2>4, AskingCount, FS_Subset
      <3>2. Cardinality(Asking(r)') \in Nat /\ Cardinality(Asking(r)) \in Nat
        BY <2>1, AskingCount
      <3> QED
        BY <2>1, <2>2, <3>1, <3>2
    <2> QED
      BY <2>3, <2>4
  <1> QED
    BY <1>1, <1>2, <1>3 DEF Reviews, ReviewsOwed

\* The steps of the run that store no question.
LEMMA RunReviews ==
    ASSUME Inv, [Next]_vars, Reviews, NEW j \in Jobs,
           StartRun(j) \/ (JobStep(j) /\ ~ReviewCreate(j)) \/ StepFails(j) \/ KillRun(j)
    PROVE  Reviews'
  <1>1. TypeOK /\ CatchUp(j)
    BY DEF Inv, Reviews, ReviewsOwed
  <1>2. cand[j] \subseteq Requests
    BY <1>1 DEF TypeOK
  <1>3. /\ UNCHANGED reviewed
        /\ \A i \in Jobs \ {j} : UNCHANGED <<jobPc[i], cand[i], due[i]>>
        /\ jobPc'[j] \notin {"review", "review.create"} \/ CatchUp(j)'
        /\ jobPc'[j] = "review.create" => due'[j] \in Requests /\ reviewed[due'[j]] = 0
    <2>1. CASE StartRun(j) \/ ExpireScan(j) \/ CompleteScan(j)
      BY <1>1, <2>1
      DEF StartRun, ExpireScan, CompleteScan, Scan, TypeOK, notes
    <2>2. CASE ExpireApply(j) \/ CompleteApply(j)
      BY <1>1, <2>2 DEF ExpireApply, CompleteApply, Apply, TypeOK, notes
    <2>3. CASE StepFails(j)
      BY <1>1, <2>3 DEF StepFails, TypeOK, notes
    <2>4. CASE ReviewList(j)
      BY <1>1, <2>4 DEF ReviewList, TypeOK, notes, rows, CatchUp
    <2>5. CASE \E r \in Requests : ReviewCheck(j, r)
      <3>1. PICK r \in Requests : ReviewCheck(j, r)
        BY <2>5
      <3>2. /\ UNCHANGED <<status, reviewed>>
            /\ status[r] = "COMPLETED"
            /\ cand'[j] = cand[j] \ {r}
            /\ \A i \in Jobs \ {j} : UNCHANGED <<jobPc[i], cand[i], due[i]>>
        BY <1>1, <3>1 DEF ReviewCheck, CatchUp, TypeOK, notes, rows
      <3>3. \/ jobPc'[j] = "review"
            \/ jobPc'[j] = "review.create" /\ due'[j] = r /\ reviewed[r] = 0
        BY <1>1, <3>1 DEF ReviewCheck, TypeOK
      <3>4. \A q \in cand[j] : status[q] = "COMPLETED"
        BY <1>1, <3>1 DEF ReviewCheck, CatchUp
      <3> QED
        BY <3>2, <3>3, <3>4 DEF CatchUp
    <2>6. CASE FinishRun(j) \/ KillRun(j)
      BY <1>1, <2>6 DEF FinishRun, KillRun, StopRun, TypeOK, notes
    <2> QED
      BY <2>1, <2>2, <2>3, <2>4, <2>5, <2>6 DEF JobStep
  <1>4. CatchUp(j)'
    BY <1>3 DEF CatchUp
  <1>5. ASSUME NEW r \in Requests
        PROVE  Asking(r)' \subseteq Asking(r) \/ reviewed[r] = 0
    BY <1>3 DEF Asking
  <1> QED
    BY <1>3, <1>4, <1>5, QuietReviews

\* The insert: the run leaves those who are about to ask and stores at most one
\* question, of a completed move.
LEMMA AskReviews ==
    ASSUME Inv, [Next]_vars, Reviews, NEW j \in Jobs, ReviewCreate(j)
    PROVE  Reviews'
  <1>1. TypeOK /\ CatchUp(j) /\ jobPc[j] = "review.create"
    BY DEF Inv, Reviews, ReviewsOwed, ReviewCreate
  <1>2. PICK d \in Requests :
              /\ d = due[j] /\ status[d] = "COMPLETED"
              /\ \A r \in cand[j] : status[r] = "COMPLETED"
    BY <1>1 DEF CatchUp
  <1>3. PICK n \in {0, 1} : reviewed' = [reviewed EXCEPT ![d] = @ + n]
    BY <1>2 DEF ReviewCreate
  <1>4. /\ reviewed'[d] = reviewed[d] + n /\ reviewed[d] \in Nat
        /\ \A r \in Requests : r # d => reviewed'[r] = reviewed[r]
    BY <1>1, <1>2, <1>3 DEF TypeOK
  <1>5. /\ UNCHANGED status
        /\ jobPc'[j] = "review" /\ cand' = cand
        /\ \A i \in Jobs \ {j} : UNCHANGED <<jobPc[i], cand[i], due[i]>>
    BY <1>1 DEF ReviewCreate, rows, TypeOK
  <1>6. CatchUp(j)'
    BY <1>2, <1>5 DEF CatchUp
  <1>7. \A i \in Jobs : CatchUp(i)'
    BY <1>5, <1>6, OthersCatchUp
  <1>8. /\ Asking(d)' = Asking(d) \ {j} /\ j \in Asking(d)
        /\ \A r \in Requests : r # d => Asking(r)' = Asking(r)
    BY <1>1, <1>2, <1>5 DEF Asking
  <1>9. Asking(d) \subseteq Jobs /\ Cardinality(Asking(d)) \in Nat
        /\ Cardinality(Asking(d)') = Cardinality(Asking(d)) - 1
        /\ Cardinality(Jobs) \in Nat
    BY <1>8, AskingCount, FS_RemoveElement DEF Asking
  <1>10. ASSUME NEW r \in Requests
         PROVE  reviewed'[r] + Cardinality(Asking(r)') <= Cardinality(Jobs)
    <2>1. reviewed[r] + Cardinality(Asking(r)) <= Cardinality(Jobs)
      BY DEF Reviews, ReviewsOwed
    <2>2. CASE r = d
      BY <1>4, <1>9, <2>1, <2>2
    <2>3. CASE r # d
      <3>1. Cardinality(Asking(r)') = Cardinality(Asking(r))
        BY <1>8, <2>3
      <3> QED
        BY <1>4, <2>1, <2>3, <3>1
    <2> QED
      BY <2>2, <2>3
  <1>11. ASSUME NEW r \in Requests
         PROVE  /\ reviewed'[r] <= Cardinality(Jobs)
                /\ reviewed'[r] > 0 => status'[r] = "COMPLETED"
    <2>1. /\ Cardinality(Asking(r)') \in Nat /\ reviewed'[r] \in Nat
          /\ reviewed[r] > 0 => status[r] = "COMPLETED"
      BY <1>1, <1>3, <1>4, AskingCount
      DEF Asking, Reviews, ReviewsWithinRuns, TypeOK
    <2> QED
      BY <1>2, <1>4, <1>5, <1>9, <1>10, <2>1
  <1> QED
    BY <1>7, <1>10, <1>11 DEF Reviews, ReviewsOwed, ReviewsWithinRuns

LEMMA ReviewsStep ==
    ASSUME Inv, [Next]_vars, Reviews
    PROVE  Reviews'
  <1>1. ASSUME UNCHANGED <<jobPc, cand, due, reviewed>> PROVE Reviews'
    BY <1>1, QuietReviews DEF Asking
  <1>2. CASE UNCHANGED vars
    BY <1>1, <1>2 DEF vars, jobs, notes
  <1>3. ASSUME NEW h \in Handlers, NEW c \in Calls, Begin(h, c) PROVE Reviews'
    BY <1>1, <1>3 DEF Begin, jobs, notes
  <1>4. ASSUME NEW h \in Handlers, Lock(h) PROVE Reviews'
    BY <1>1, <1>4
    DEF Lock, SubmitLock, ConfirmLock, DesignateLock, LockRequest, jobs, notes
  <1>5. ASSUME NEW h \in Handlers, Read(h) PROVE Reviews'
    BY <1>1, <1>5
    DEF Read, isDesignatedMover, findExistingQuote, CountProposals,
        findCustomerQuoteForConfirm, DesignateRead, DesignateExisting,
        DesignatePrecheck, DesignateRecheck, DesignateRequote,
        findQuoteNotificationContext, jobs, notes
  <1>6. ASSUME NEW h \in Handlers, Write(h) PROVE Reviews'
    BY <1>1, <1>6
    DEF Write, CreateProposal, CreateRejection, CreateQuote,
        ConfirmQuoteWithEstimateRequest, CreateDesignated, jobs, notes
  <1>7. ASSUME NEW h \in Handlers, createNotification(h) \/ Abort(h)
        PROVE  Reviews'
    BY <1>1, <1>7 DEF createNotification, Abort, jobs, notes
  <1>8. ASSUME NEW j \in Jobs,
               StartRun(j) \/ JobStep(j) \/ StepFails(j) \/ KillRun(j)
        PROVE  Reviews'
    BY <1>8, RunReviews, AskReviews
  <1>9. ASSUME NEW r \in Requests, SubmitEstimateRequest(r) PROVE Reviews'
    BY <1>1, <1>9 DEF SubmitEstimateRequest, jobs, notes
  <1>10. CASE Tick
    BY <1>1, <1>10 DEF Tick, jobs, notes
  <1> QED
    BY <1>2, <1>3, <1>4, <1>5, <1>6, <1>7, <1>8, <1>9, <1>10 DEF Next

\* Nobody is asked about a move that is not completed, and about one that is no
\* more often than runs were alive at one time, however often a run fails, dies
\* and starts again, and whatever two runs do beside each other
\* (notifyReviewRequested).
THEOREM ReviewsStayWithinRuns == Spec => []ReviewsWithinRuns
  <1>1. Reviews /\ Inv /\ [Next]_vars => Reviews'
    BY ReviewsStep
  <1>2. Reviews => ReviewsWithinRuns
    BY DEF Reviews
  <1> QED
    BY <1>1, <1>2, ReviewsInit, InvHolds, PTL DEF Spec
=============================================================================
