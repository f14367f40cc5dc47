------------------------------ MODULE Moderation ------------------------------
(***************************************************************************)
(* Reports and suspensions (report.service.ts, admin-report.service.ts,    *)
(* admin-member.service.ts, user-status.service.ts): members report each   *)
(* other's contents, an administrator resolves or rejects a report, suspends *)
(* or activates a member, and the nightly job lifts suspensions that are   *)
(* over.  Each of them is a transaction at READ COMMITTED: what it writes  *)
(* is kept in req and published by its commit, the rows it wrote or locked *)
(* FOR UPDATE are held until then, and it may be rolled back at any point. *)
(* No code of the repository sets users.deleted_at.                        *)
(***************************************************************************)
EXTENDS Integers, Sequences, FiniteSets

CONSTANTS
    Procs,          \* requests and jobs in flight
    Members,
    Targets,        \* what can be reported
    Kind,           \* of each target
    Author,         \* of each target; of a USER target, the user
    Parent,         \* of a reply, the comment it answers; otherwise None
    SuspendFor,     \* the seven days of a suspension
    MaxTime,        \* bound: the clock
    MaxWait,        \* bound: how long a request may wait for its first lock
    MaxHistory,     \* bound: history entries
    None

Kinds == {"USER", "REVIEW", "MESSAGE", "ARTICLE", "COMMENT"}
Actions == {"SUSPEND_TARGET_USER", "DELETE_REPORTED_CONTENT"}
Reports == Members \X Targets
Times == 0 .. MaxTime

ASSUME BoundsAssumption ==
    SuspendFor \in Nat \ {0} /\ MaxTime \in Nat /\ MaxWait \in Nat /\ MaxHistory \in Nat
ASSUME TargetsAssumption ==
    /\ Kind \in [Targets -> Kinds]
    /\ Author \in [Targets -> Members]
    /\ Parent \in [Targets -> Targets \cup {None}]
ASSUME NoneIsNobody == None \notin Procs \cup Members \cup Targets \cup Reports

\* A row of user_statuses, or none.
NoRow == [s |-> "NONE", until |-> 0]
Active == [s |-> "ACTIVE", until |-> 0]
Suspended(t) == [s |-> "SUSPENDED", until |-> t]
Rows == {NoRow, Active} \cup {Suspended(t) : t \in 0 .. (MaxTime + SuspendFor)}

Entries == [by : {"report", "admin", "job"}, report : Reports \cup {None},
            before : Rows, after : Rows]

VARIABLES
    now,
    row,        \* committed user_statuses row of each member
    hist,       \* the histories rows about it, in the order of their commits
    gone,       \* contents whose deleted_at is set
    report,     \* user_reports.status, "NONE" before the row exists
    taken,      \* the actions a report was resolved with
    lock,       \* who holds a row
    pc, req

vars == <<now, row, hist, gone, report, taken, lock, pc, req>>

Held ==
    ({"report"} \X Reports) \cup ({"user", "status"} \X Members)
    \cup ({"content"} \X Targets)

\* What a request keeps between its statements.
Blank == [user |-> None, report |-> None, acts |-> {}, at |-> 0,
          seen |-> NoRow, write |-> NoRow, wipe |-> {}, users |-> {}]

Goto(p, next, r) ==
    /\ pc' = [pc EXCEPT ![p] = next]
    /\ req' = [req EXCEPT ![p] = r]

\* The end of a transaction frees the rows it held.
Finish(p, next, r) ==
    /\ Goto(p, next, r)
    /\ lock' = [k \in Held |-> IF lock[k] = p THEN None ELSE lock[k]]

Free(p, k) == lock[k] \in {None, p}
Hold(p, S) == lock' = [k \in Held |-> IF k \in S THEN p ELSE lock[k]]

\* When a request that reaches its first lock now took its new Date().
Arrived == {t \in Times : t <= now /\ now - t <= MaxWait}

\* The bound: no request begins that could not record what it does.
Room ==
    Cardinality({e \in Members \X (1 .. MaxHistory) : e[2] \in DOMAIN hist[e[1]]})
        + Cardinality({q \in Procs : pc[q] # "idle"}) < MaxHistory

-----------------------------------------------------------------------------
(* Members.                                                                 *)

requireAuth(p) ==
    \E u \in Members :
        /\ pc[p] = "idle"
        /\ row[u].s # "SUSPENDED"
        /\ Goto(p, "authed", [Blank EXCEPT !.user = u])
        /\ UNCHANGED <<now, row, hist, gone, report, taken, lock>>

\* A missing target, one's own and a second report of the same are refused.
findReportTargetOwner(p) ==
    \E t \in Targets :
        LET r == <<req[p].user, t>> IN
        /\ pc[p] = "authed"
        /\ t \notin gone
        /\ Author[t] # req[p].user
        /\ report[r] = "NONE"
        /\ Goto(p, "report", [req[p] EXCEPT !.report = r])
        /\ UNCHANGED <<now, row, hist, gone, report, taken, lock>>

createUserReport(p) ==
    LET r == req[p].report IN
    /\ pc[p] = "report"
    /\ report' = [report EXCEPT ![r] = IF @ = "NONE" THEN "PENDING" ELSE @]
    /\ Finish(p, "idle", Blank)
    /\ UNCHANGED <<now, row, hist, gone, taken>>

Deletable(k) == k \in {"REVIEW", "ARTICLE", "COMMENT"}

\* The rows one deletion marks: a comment goes with its direct replies.
Thread(t) ==
    {t} \cup {c \in Targets : Kind[t] = "COMMENT" /\ Kind[c] = "COMMENT" /\ Parent[c] = t}

\* Members delete what they wrote, in transactions of their own.
softDeleteOwn(p) ==
    \E t \in Targets :
        /\ pc[p] = "authed"
        /\ Deletable(Kind[t]) /\ Author[t] = req[p].user /\ t \notin gone
        /\ \A c \in Thread(t) : Free(p, <<"content", c>>)
        /\ gone' = gone \cup Thread(t)
        /\ Finish(p, "idle", Blank)
        /\ UNCHANGED <<now, row, hist, report, taken>>

-----------------------------------------------------------------------------
(* Resolving and rejecting a report.                                        *)

ALLOWED_ACTIONS_BY_TARGET(k) ==
    IF k \in {"USER", "MESSAGE"} THEN {"SUSPEND_TARGET_USER"} ELSE Actions

assertActionsAllowedForTarget(k, acts) ==
    acts # {} /\ acts \subseteq ALLOWED_ACTIONS_BY_TARGET(k)

NextAction(acts) ==
    IF "SUSPEND_TARGET_USER" \in acts THEN "suspend"
    ELSE IF "DELETE_REPORTED_CONTENT" \in acts THEN "delete" ELSE "decide"

\* A report that is not PENDING, or actions its target does not allow, are refused.
lockAdminReportForStatusChange(p) ==
    \E r \in Reports, acts \in SUBSET Actions, t \in Arrived :
        /\ pc[p] = "idle" /\ Room
        /\ Free(p, <<"report", r>>)
        /\ report[r] = "PENDING"
        /\ assertActionsAllowedForTarget(Kind[r[2]], acts)
        /\ Hold(p, {<<"report", r>>})
        /\ Goto(p, NextAction(acts),
                [Blank EXCEPT !.report = r, !.acts = acts, !.at = t,
                              !.user = Author[r[2]]])
        /\ UNCHANGED <<now, row, hist, gone, report, taken>>

\* lockAdminMemberForStatusChange and findAdminMemberStatus: the members row is
\* held, the status row only read.
LockMember(p, m) ==
    Free(p, <<"user", m>>) /\ Hold(p, {<<"user", m>>})

\* Mutant: the members row is not held.
ReadMember(p, m) ==
    UNCHANGED lock

lockAdminMemberForStatusChange(p, m) == LockMember(p, m)

\* The author is suspended whether or not the content is deleted.
findReportSanctionTargetUser(p) ==
    LET m == req[p].user IN
    /\ pc[p] = "suspend"
    /\ lockAdminMemberForStatusChange(p, m)
    /\ Goto(p, "upsert", [req[p] EXCEPT !.seen = row[m]])
    /\ UNCHANGED <<now, row, hist, gone, report, taken>>

\* Mutant: a suspension that ends later is overwritten.
OverwrittenRow(old, at) == Suspended(at + SuspendFor)

\* The ON CONFLICT clause keeps the later end.
SuspendedRow(old, at) ==
    IF old.s = "SUSPENDED" /\ old.until > at + SuspendFor
    THEN old
    ELSE Suspended(at + SuspendFor)

\* Mutant: the global client instead of the transaction's.
upsertOutsideTransaction(p) ==
    LET m == req[p].user
        new == SuspendedRow(row[m], req[p].at) IN
    /\ pc[p] = "upsert"
    /\ Free(p, <<"status", m>>)
    /\ row' = [row EXCEPT ![m] = new]
    /\ hist' = [hist EXCEPT ![m] = Append(@, [by |-> "report", report |-> req[p].report,
                                              before |-> req[p].seen, after |-> new])]
    /\ Goto(p, NextAction(req[p].acts \ {"SUSPEND_TARGET_USER"}),
            [req[p] EXCEPT !.acts = @ \ {"SUSPEND_TARGET_USER"}])
    /\ UNCHANGED <<now, gone, report, taken, lock>>

upsertSuspendedUserStatus(p) ==
    LET m == req[p].user IN
    /\ pc[p] = "upsert"
    /\ Free(p, <<"status", m>>)
    /\ Hold(p, {<<"status", m>>})
    /\ Goto(p, NextAction(req[p].acts \ {"SUSPEND_TARGET_USER"}),
            [req[p] EXCEPT !.write = SuspendedRow(row[m], req[p].at)])
    /\ UNCHANGED <<now, row, hist, gone, report, taken>>

\* The rows a decision deletes; a content already deleted counts as done.
Wiped(t) == IF t \in gone THEN {} ELSE Thread(t) \ gone

softDeleteReportReportedContent(p) ==
    LET wipe == Wiped(req[p].report[2]) IN
    /\ pc[p] = "delete"
    /\ \A c \in wipe : Free(p, <<"content", c>>)
    /\ Hold(p, {"content"} \X wipe)
    /\ Goto(p, "decide", [req[p] EXCEPT !.wipe = wipe])
    /\ UNCHANGED <<now, row, hist, gone, report, taken>>

\* createHistory for the status row, in the transaction that wrote it.
Record(p, m, by) ==
    Append(hist[m], [by |-> by, report |-> req[p].report,
                     before |-> req[p].seen, after |-> req[p].write])

\* The decision and the commit, which publishes the sanctions with it.
updateAdminReportDecisionStatus(p) ==
    LET r == req[p].report
        m == req[p].user IN
    /\ pc[p] = "decide"
    /\ report[r] = "PENDING"
    /\ report' = [report EXCEPT ![r] = "RESOLVED"]
    /\ taken' = [taken EXCEPT ![r] = req[p].acts]
    /\ gone' = gone \cup req[p].wipe
    /\ IF "SUSPEND_TARGET_USER" \in req[p].acts
       THEN /\ row' = [row EXCEPT ![m] = req[p].write]
            /\ hist' = [hist EXCEPT ![m] = Record(p, m, "report")]
       ELSE UNCHANGED <<row, hist>>
    /\ Finish(p, "idle", Blank)
    /\ UNCHANGED now

\* Lock, check, update, history and commit touch one row.
rejectAdminReport(p) ==
    \E r \in Reports :
        /\ pc[p] = "idle"
        /\ Free(p, <<"report", r>>)
        /\ report[r] = "PENDING"
        /\ report' = [report EXCEPT ![r] = "REJECTED"]
        /\ UNCHANGED <<now, row, hist, gone, taken, lock, pc, req>>

-----------------------------------------------------------------------------
(* Suspending and activating a member by hand.                              *)

changeAdminMemberStatus(p) ==
    \E m \in Members, t \in Arrived, new \in {"SUSPENDED", "ACTIVE"} :
        /\ pc[p] = "idle" /\ Room
        /\ lockAdminMemberForStatusChange(p, m)
        /\ Goto(p, "change",
                [Blank EXCEPT !.user = m, !.at = t, !.seen = row[m],
                              !.write = IF new = "ACTIVE" THEN Active
                                        ELSE Suspended(t + SuspendFor)])
        /\ UNCHANGED <<now, row, hist, gone, report, taken>>

\* The row is overwritten, a later end included.
upsertAdminMemberStatus(p) ==
    LET m == req[p].user IN
    /\ pc[p] = "change"
    /\ Free(p, <<"status", m>>)
    /\ Hold(p, {<<"status", m>>})
    /\ Goto(p, "commit", req[p])
    /\ UNCHANGED <<now, row, hist, gone, report, taken>>

CommitMember(p) ==
    LET m == req[p].user IN
    /\ pc[p] = "commit"
    /\ row' = [row EXCEPT ![m] = req[p].write]
    /\ hist' = [hist EXCEPT ![m] = Record(p, m, "admin")]
    /\ Finish(p, "idle", Blank)
    /\ UNCHANGED <<now, gone, report, taken>>

-----------------------------------------------------------------------------
(* The job of 00:05, and the clock.                                         *)

Expired(m, t) == row[m].s = "SUSPENDED" /\ row[m].until <= t

findExpiredSuspendedStatuses(p) ==
    LET users == {m \in Members : Expired(m, now)} IN
    /\ pc[p] = "idle" /\ Room
    /\ users # {}
    /\ Goto(p, "release", [Blank EXCEPT !.users = users, !.at = now])
    /\ UNCHANGED <<now, row, hist, gone, report, taken, lock>>

\* Mutant: the members found before are released whatever became of them.
ReleasedUnchecked(p) == {m \in req[p].users : row[m].s = "SUSPENDED"}

\* The WHERE clause of the update, evaluated on the rows as they are then.
ReleasedNow(p) == {m \in req[p].users : Expired(m, req[p].at)}

activateUserStatusesByUserIds(p) ==
    /\ pc[p] = "release"
    /\ \A m \in req[p].users : Free(p, <<"status", m>>)
    /\ Hold(p, {"status"} \X ReleasedNow(p))
    /\ Goto(p, "released", [req[p] EXCEPT !.users = ReleasedNow(p)])
    /\ UNCHANGED <<now, row, hist, gone, report, taken>>

\* The trigger writes the histories rows, without an actor.
CommitRelease(p) ==
    LET users == req[p].users IN
    /\ pc[p] = "released"
    /\ row' = [m \in Members |-> IF m \in users THEN Active ELSE row[m]]
    /\ hist' = [m \in Members |->
                  IF m \in users
                  THEN Append(hist[m], [by |-> "job", report |-> None,
                                        before |-> row[m], after |-> Active])
                  ELSE hist[m]]
    /\ Finish(p, "idle", Blank)
    /\ UNCHANGED <<now, gone, report, taken>>

\* An error, the timeout of the transaction or a crash: nothing is published.
Rollback(p) ==
    /\ pc[p] # "idle"
    /\ Finish(p, "idle", Blank)
    /\ UNCHANGED <<now, row, hist, gone, report, taken>>

Tick ==
    /\ now < MaxTime
    /\ now' = now + 1
    /\ UNCHANGED <<row, hist, gone, report, taken, lock, pc, req>>

-----------------------------------------------------------------------------
Init ==
    /\ now = 0
    /\ row = [m \in Members |-> NoRow]
    /\ hist = [m \in Members |-> <<>>]
    /\ gone = {}
    /\ report = [r \in Reports |-> "NONE"]
    /\ taken = [r \in Reports |-> {}]
    /\ lock = [k \in Held |-> None]
    /\ pc = [p \in Procs |-> "idle"]
    /\ req = [p \in Procs |-> Blank]

Step(p) ==
    \/ requireAuth(p) \/ findReportTargetOwner(p) \/ createUserReport(p)
    \/ softDeleteOwn(p)
    \/ lockAdminReportForStatusChange(p) \/ findReportSanctionTargetUser(p)
    \/ upsertSuspendedUserStatus(p) \/ softDeleteReportReportedContent(p)
    \/ updateAdminReportDecisionStatus(p) \/ rejectAdminReport(p)
    \/ changeAdminMemberStatus(p) \/ upsertAdminMemberStatus(p)
    \/ CommitMember(p)
    \/ findExpiredSuspendedStatuses(p) \/ activateUserStatusesByUserIds(p)
    \/ CommitRelease(p) \/ Rollback(p)

Next == Tick \/ \E p \in Procs : Step(p)

Spec == Init /\ [][Next]_vars

-----------------------------------------------------------------------------
(* The type invariant.                                                      *)
TypeOK ==
    /\ now \in Times
    /\ row \in [Members -> Rows]
    /\ hist \in [Members -> Seq(Entries)]
    /\ gone \subseteq Targets
    /\ report \in [Reports -> {"NONE", "PENDING", "RESOLVED", "REJECTED"}]
    /\ taken \in [Reports -> SUBSET Actions]
    /\ lock \in [Held -> Procs \cup {None}]
    /\ pc \in [Procs -> {"idle", "authed", "report", "suspend", "upsert", "delete",
                         "decide", "change", "commit", "release", "released"}]
    /\ req \in [Procs -> [user : Members \cup {None}, report : Reports \cup {None},
                          acts : SUBSET Actions, at : Times, seen : Rows, write : Rows,
                          wipe : SUBSET Targets, users : SUBSET Members]]

\* A member's histories are a record of the status: the last entry ends in the
\* committed row, every entry of the job begins in the row the entry before it
\* left, and so does every entry of an administrator (by hand or through a
\* report) that does not follow one of the job.
LastRow(s) == IF s = <<>> THEN NoRow ELSE s[Len(s)].after

StatusHistoryChains ==
    \A m \in Members :
        /\ row[m] = LastRow(hist[m])
        /\ \A i \in DOMAIN hist[m] :
             \/ hist[m][i].before = IF i = 1 THEN NoRow ELSE hist[m][i - 1].after
             \/ i > 1 /\ hist[m][i].by # "job" /\ hist[m][i - 1].by = "job"

\* A report's sanctions stand or fall with its decision, whatever fails on the
\* way: the suspension a report led to is recorded once if the report is
\* RESOLVED with that action and never otherwise, and the content it asked to
\* delete is deleted.
SanctionIsDecided ==
    /\ \A m \in Members : \A i \in DOMAIN hist[m] :
         hist[m][i].by = "report" =>
             LET r == hist[m][i].report IN
             /\ Author[r[2]] = m
             /\ report[r] = "RESOLVED"
             /\ "SUSPEND_TARGET_USER" \in taken[r]
             /\ \A j \in DOMAIN hist[m] : hist[m][j].report = r => j = i
    /\ \A r \in Reports :
         report[r] = "RESOLVED" =>
             /\ "SUSPEND_TARGET_USER" \in taken[r] =>
                    \E i \in DOMAIN hist[Author[r[2]]] :
                        hist[Author[r[2]]][i].report = r
             /\ "DELETE_REPORTED_CONTENT" \in taken[r] => r[2] \in gone

\* Mutant: the deletion is offered for a content that is already deleted.
OfferedAlways(r) ==
    IF report[r] # "PENDING" THEN {}
    ELSE {"SUSPEND_TARGET_USER"} \cup
         {a \in {"DELETE_REPORTED_CONTENT"} : Deletable(Kind[r[2]])}

\* getAdminReportDetail: what the detail of a report offers the administrator.
toAvailableActions(r) ==
    IF report[r] # "PENDING" THEN {}
    ELSE {"SUSPEND_TARGET_USER"} \cup
         {a \in {"DELETE_REPORTED_CONTENT"} : Deletable(Kind[r[2]]) /\ r[2] \notin gone}

\* What resolving the report with that action alone would bring about.
Effective(r, a) ==
    /\ report[r] = "PENDING"
    /\ assertActionsAllowedForTarget(Kind[r[2]], {a})
    /\ a = "DELETE_REPORTED_CONTENT" => Wiped(r[2]) # {}

\* The detail and the decision, written apart, agree: an action is offered exactly
\* when resolving the report with it now would be accepted and would take effect.
OfferedIsEffective ==
    \A r \in Reports, a \in Actions : a \in toAvailableActions(r) <=> Effective(r, a)

\* What a transaction read still holds when it uses it: the report it locked is
\* PENDING; the status row recorded as the old one is the committed one, unless
\* the job has released the member since; the row it wrote is its own.
Deciding == {"suspend", "upsert", "delete", "decide"}
Suspending(p) == pc[p] \in Deciding /\ "SUSPEND_TARGET_USER" \in req[p].acts

ReportsHeld ==
    \A p \in Procs :
        /\ pc[p] \in {"suspend", "upsert"} => Suspending(p)
        /\ pc[p] = "authed" => req[p].user \in Members
        /\ pc[p] = "report" => req[p].report \in Reports
        /\ pc[p] \in Deciding =>
             LET r == req[p].report IN
             /\ r \in Reports
             /\ req[p].user = Author[r[2]]
             /\ lock[<<"report", r>>] = p
             /\ report[r] = "PENDING"
             /\ (pc[p] = "decide" /\ "DELETE_REPORTED_CONTENT" \in req[p].acts) =>
                   r[2] \in gone \cup req[p].wipe

MembersHeld ==
    \A p \in Procs :
        LET m == req[p].user
            written == pc[p] = "commit" \/ (Suspending(p) /\ pc[p] \in {"delete", "decide"}) IN
        /\ (written \/ pc[p] \in {"upsert", "change"}) =>
              /\ m \in Members
              /\ lock[<<"user", m>>] = p
              /\ req[p].seen = row[m] \/ (hist[m] # <<>> /\ hist[m][Len(hist[m])].by = "job")
        /\ written => lock[<<"status", m>>] = p
        /\ written /\ pc[p] # "commit" => req[p].write = SuspendedRow(row[m], req[p].at)
        /\ pc[p] = "released" =>
              \A n \in req[p].users : lock[<<"status", n>>] = p /\ Expired(n, req[p].at)
        /\ pc[p] \in {"change", "commit"} => req[p].report = None
        /\ req[p].at <= now

\* An entry of a report's decision names the report, no other does.
EntriesNamed ==
    \A m \in Members : \A i \in DOMAIN hist[m] :
        hist[m][i].by = "report" <=> hist[m][i].report # None

\* The inductive invariant.
Inv ==
    /\ TypeOK
    /\ StatusHistoryChains
    /\ SanctionIsDecided
    /\ ReportsHeld
    /\ MembersHeld
    /\ EntriesNamed

\* A suspension is kept for its term: neither a later report's decision nor the
\* job ends it early, although both decided on a row they read before another
\* transaction changed it.  Only an administrator, by hand, shortens one.
TermKept(m) ==
    (row[m].s = "SUSPENDED" /\ row'[m] # row[m]) =>
        \/ hist'[m][Len(hist'[m])].by = "admin"
        \/ row'[m].s = "SUSPENDED" /\ row'[m].until >= row[m].until
        \/ row[m].until <= now

TermsKept == [][\A m \in Members : TermKept(m)]_vars
=============================================================================
