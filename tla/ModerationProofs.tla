-------------------------- MODULE ModerationProofs --------------------------
(***************************************************************************)
(* Proofs about Moderation, for any members, contents, requests and terms. *)
(* The argument: a decision holds its report PENDING from the first        *)
(* statement to the commit (ReportsHeld) and the members row of whom it    *)
(* suspends, so that only the job can have changed the status row it read, *)
(* and not even the job the one it wrote (MembersHeld).                    *)
(***************************************************************************)
EXTENDS Moderation, SequenceTheorems, TLAPS

USE BoundsAssumption, TargetsAssumption, NoneIsNobody

\* Where a request may stand, and what it may hold.
States == {"idle", "authed", "report", "suspend", "upsert", "delete",
           "decide", "change", "commit", "release", "released"}

\* What a request may hold.
Requests == [user : Members \cup {None}, report : Reports \cup {None},
             acts : SUBSET Actions, at : Times, seen : Rows, write : Rows,
             wipe : SUBSET Targets, users : SUBSET Members]

\* The type of what is stored.
DataType ==
    /\ now \in Times
    /\ row \in [Members -> Rows]
    /\ hist \in [Members -> Seq(Entries)]
    /\ gone \subseteq Targets
    /\ report \in [Reports -> {"NONE", "PENDING", "RESOLVED", "REJECTED"}]
    /\ taken \in [Reports -> SUBSET Actions]

\* The type of what is in flight.
ControlType ==
    /\ lock \in [Held -> Procs \cup {None}]
    /\ pc \in [Procs -> States]
    /\ req \in [Procs -> Requests]

\* The type invariant is these two.
LEMMA TypeParts == TypeOK <=> DataType /\ ControlType
  BY DEF TypeOK, DataType, ControlType, States, Requests

\* The rows a status may be in.
LEMMA RowsType ==
    /\ NoRow \in Rows /\ Active \in Rows
    /\ \A old \in Rows, t \in Times : SuspendedRow(old, t) \in Rows
    /\ \A t \in Times : Suspended(t + SuspendFor) \in Rows
    /\ \A r \in Rows : r.until \in Nat
    /\ \A r \in Rows : r.s = "SUSPENDED" => r = Suspended(r.until)
  <1>1. NoRow \in Rows /\ Active \in Rows
    BY DEF Rows
  <1>2. ASSUME NEW t \in Times PROVE Suspended(t + SuspendFor) \in Rows
    <2>1. t + SuspendFor \in 0 .. (MaxTime + SuspendFor)
      BY DEF Times
    <2> QED
      BY <2>1 DEF Rows
  <1>3. \A old \in Rows, t \in Times : SuspendedRow(old, t) \in Rows
    BY <1>2 DEF SuspendedRow
  <1>4. \A r \in Rows : r.until \in Nat
    BY DEF Rows, NoRow, Active, Suspended
  <1>5. \A r \in Rows : r.s = "SUSPENDED" => r = Suspended(r.until)
    BY DEF Rows, NoRow, Active, Suspended
  <1> QED
    BY <1>1, <1>2, <1>3, <1>4, <1>5

\* A later end is kept.
LEMMA LaterEndKept ==
    ASSUME NEW old \in Rows, NEW t \in Times, old.s = "SUSPENDED"
    PROVE  /\ SuspendedRow(old, t).s = "SUSPENDED"
           /\ SuspendedRow(old, t).until >= old.until
  <1>1. old.until \in Nat /\ t \in Nat
    BY RowsType DEF Times
  <1> QED
    BY <1>1 DEF SuspendedRow, Suspended

\* What a request holds when it starts has its type.
LEMMA BlankType == Blank \in Requests
  <1>1. 0 \in Times
    BY DEF Times
  <1> QED
    BY <1>1, RowsType DEF Blank, Requests

\* The invariant holds where nothing was reported.
LEMMA InitInv == Init => Inv
  <1> SUFFICES ASSUME Init PROVE Inv
    OBVIOUS
  <1>1. DataType
    BY RowsType DEF Init, DataType, Times
  <1>2. ControlType
    BY BlankType DEF Init, ControlType, States
  <1>3. StatusHistoryChains /\ SanctionIsDecided /\ EntriesNamed
    BY DEF Init, StatusHistoryChains, SanctionIsDecided, EntriesNamed, LastRow
  <1>4. ReportsHeld /\ MembersHeld
    BY DEF Init, ReportsHeld, MembersHeld, Deciding, Suspending, Blank
  <1> QED
    BY <1>1, <1>2, <1>3, <1>4, TypeParts DEF Inv

\* A request that goes on keeps the types, if what it holds next has its type.
LEMMA GotoType ==
    ASSUME ControlType, NEW p \in Procs, NEW s \in States, NEW r \in Requests,
           Goto(p, s, r), lock' \in [Held -> Procs \cup {None}]
    PROVE  ControlType'
  BY DEF ControlType, Goto

\* Taking rows, and the end of a transaction, keep the types.
LEMMA LockType ==
    ASSUME ControlType, NEW p \in Procs
    PROVE  /\ \A S : Hold(p, S) => lock' \in [Held -> Procs \cup {None}]
           /\ Finish(p, "idle", Blank) => ControlType'
  <1>1. \A S : Hold(p, S) => lock' \in [Held -> Procs \cup {None}]
    BY DEF ControlType, Hold
  <1>2. ASSUME Finish(p, "idle", Blank) PROVE ControlType'
    <2>1. lock' \in [Held -> Procs \cup {None}] /\ "idle" \in States
      BY <1>2 DEF ControlType, Finish, States
    <2> QED
      BY <1>2, <2>1, BlankType, GotoType DEF Finish
  <1> QED
    BY <1>1, <1>2

\* Where a decision goes next.
LEMMA NextActions ==
    ASSUME NEW acts \in SUBSET Actions
    PROVE  /\ NextAction(acts) \in {"suspend", "delete", "decide"}
           /\ NextAction(acts) = "suspend" => "SUSPEND_TARGET_USER" \in acts
           /\ "SUSPEND_TARGET_USER" \in acts => NextAction(acts) = "suspend"
           /\ NextAction(acts) = "delete" => "DELETE_REPORTED_CONTENT" \in acts
           /\ NextAction(acts) = "decide" => acts = {}
  <1>1. CASE "SUSPEND_TARGET_USER" \in acts
    BY <1>1 DEF NextAction
  <1>2. CASE "SUSPEND_TARGET_USER" \notin acts /\ "DELETE_REPORTED_CONTENT" \in acts
    BY <1>2 DEF NextAction
  <1>3. CASE "SUSPEND_TARGET_USER" \notin acts /\ "DELETE_REPORTED_CONTENT" \notin acts
    <2>1. acts = {}
      BY <1>3 DEF Actions
    <2> QED
      BY <1>3, <2>1 DEF NextAction
  <1> QED
    BY <1>1, <1>2, <1>3

\* Every step keeps the types of what is in flight.
LEMMA ControlInv ==
    ASSUME Inv, NEW p \in Procs, Step(p)
    PROVE  ControlType'
  <1>0. /\ ControlType /\ DataType /\ req[p] \in Requests /\ req[p].acts \in SUBSET Actions
        /\ lock \in [Held -> Procs \cup {None}]
        /\ ReportsHeld /\ MembersHeld
    BY TypeParts DEF Inv, ControlType, Requests
  <1>s. \A s \in {"idle", "authed", "report", "suspend", "upsert", "delete",
                  "decide", "change", "commit", "release", "released"} : s \in States
    BY DEF States
  <1>1. CASE requireAuth(p)
    <2>1. PICK u \in Members : Goto(p, "authed", [Blank EXCEPT !.user = u])
      BY <1>1 DEF requireAuth
    <2>2. [Blank EXCEPT !.user = u] \in Requests /\ lock' = lock
      BY <1>1, BlankType DEF Requests, requireAuth
    <2> QED
      BY <1>0, <1>s, <2>1, <2>2, GotoType
  <1>2. CASE findReportTargetOwner(p)
    <2>1. PICK t \in Targets : Goto(p, "report", [req[p] EXCEPT !.report = <<req[p].user, t>>])
      BY <1>2 DEF findReportTargetOwner
    <2>2. <<req[p].user, t>> \in Reports
      BY <1>0, <1>2 DEF findReportTargetOwner, ReportsHeld, Reports
    <2>3. [req[p] EXCEPT !.report = <<req[p].user, t>>] \in Requests /\ lock' = lock
      BY <1>0, <1>2, <2>2 DEF Requests, findReportTargetOwner
    <2> QED
      BY <1>0, <1>s, <2>1, <2>3, GotoType
  <1>3. CASE Finish(p, "idle", Blank)
    BY <1>0, <1>3, LockType
  <1>4. CASE lockAdminReportForStatusChange(p)
    <2>1. PICK r \in Reports, acts \in SUBSET Actions, t \in Arrived :
             /\ Hold(p, {<<"report", r>>})
             /\ Goto(p, NextAction(acts), [Blank EXCEPT !.report = r, !.acts = acts, !.at = t,
                                                        !.user = Author[r[2]]])
      BY <1>4 DEF lockAdminReportForStatusChange
    <2>2. Author[r[2]] \in Members /\ t \in Times
      BY DEF Reports, Arrived
    <2>3. [Blank EXCEPT !.report = r, !.acts = acts, !.at = t, !.user = Author[r[2]]] \in Requests
      BY <2>2, BlankType DEF Requests
    <2>4. NextAction(acts) \in States /\ lock' \in [Held -> Procs \cup {None}]
      <3>1. NextAction(acts) \in States
        BY <1>s, NextActions
      <3> QED
        BY <1>0, <2>1, <3>1, LockType
    <2> QED
      BY <1>0, <2>1, <2>3, <2>4, GotoType
  <1>5. CASE findReportSanctionTargetUser(p)
    <2>0. pc[p] \in Deciding
      BY <1>5 DEF findReportSanctionTargetUser, Deciding
    <2>1. req[p].user \in Members
      <3>1. req[p].report \in Reports /\ req[p].user = Author[req[p].report[2]]
        BY <1>0, <2>0 DEF ReportsHeld
      <3> QED
        BY <3>1 DEF Reports
    <2>2. [req[p] EXCEPT !.seen = row[req[p].user]] \in Requests
      BY <1>0, <2>1 DEF Requests, DataType
    <2>3. lock' \in [Held -> Procs \cup {None}]
      BY <1>0, <1>5, LockType DEF findReportSanctionTargetUser, lockAdminMemberForStatusChange,
         LockMember
    <2> QED
      BY <1>0, <1>s, <1>5, <2>2, <2>3, GotoType DEF findReportSanctionTargetUser
  <1>6. CASE upsertSuspendedUserStatus(p)
    <2>1. req[p].user \in Members /\ req[p].at \in Times
      BY <1>0, <1>6 DEF upsertSuspendedUserStatus, MembersHeld, Requests
    <2>2. [req[p] EXCEPT !.write = SuspendedRow(row[req[p].user], req[p].at)] \in Requests
      BY <1>0, <2>1, RowsType DEF Requests, DataType
    <2>3. NextAction(req[p].acts \ {"SUSPEND_TARGET_USER"}) \in States
      BY <1>0, <1>s, NextActions
    <2> QED
      BY <1>0, <1>6, <2>2, <2>3, GotoType, LockType DEF upsertSuspendedUserStatus
  <1>7. CASE softDeleteReportReportedContent(p)
    <2>1. Wiped(req[p].report[2]) \subseteq Targets
      <3>1. req[p].report[2] \in Targets
        BY <1>0, <1>7 DEF softDeleteReportReportedContent, ReportsHeld, Deciding, Reports
      <3> QED
        BY <3>1 DEF Wiped, Thread
    <2>2. [req[p] EXCEPT !.wipe = Wiped(req[p].report[2])] \in Requests
      BY <1>0, <2>1 DEF Requests
    <2> QED
      BY <1>0, <1>s, <1>7, <2>2, GotoType, LockType DEF softDeleteReportReportedContent
  <1>8. CASE rejectAdminReport(p)
    BY <1>0, <1>8 DEF ControlType, rejectAdminReport
  <1>9. CASE changeAdminMemberStatus(p)
    <2>0. PICK m \in Members, t \in Arrived, new \in {"SUSPENDED", "ACTIVE"} :
             /\ lockAdminMemberForStatusChange(p, m)
             /\ Goto(p, "change", [Blank EXCEPT !.user = m, !.at = t, !.seen = row[m],
                       !.write = IF new = "ACTIVE" THEN Active ELSE Suspended(t + SuspendFor)])
      BY <1>9 DEF changeAdminMemberStatus
    <2> DEFINE w == IF new = "ACTIVE" THEN Active ELSE Suspended(t + SuspendFor)
    <2>1. /\ lockAdminMemberForStatusChange(p, m)
          /\ Goto(p, "change", [Blank EXCEPT !.user = m, !.at = t, !.seen = row[m], !.write = w])
      BY <2>0
    <2>2. t \in Times /\ w \in Rows /\ row[m] \in Rows
      BY <1>0, RowsType DEF Arrived, DataType
    <2> HIDE DEF w
    <2>3. [Blank EXCEPT !.user = m, !.at = t, !.seen = row[m], !.write = w] \in Requests
      BY <2>2, BlankType DEF Requests
    <2>4. lock' \in [Held -> Procs \cup {None}]
      BY <1>0, <2>1, LockType DEF lockAdminMemberForStatusChange, LockMember
    <2> QED
      BY <1>0, <1>s, <2>1, <2>3, <2>4, GotoType
  <1>10. CASE upsertAdminMemberStatus(p)
    BY <1>0, <1>s, <1>10, GotoType, LockType DEF upsertAdminMemberStatus
  <1>11. CASE findExpiredSuspendedStatuses(p)
    <2>1. PICK users \in SUBSET Members :
             Goto(p, "release", [Blank EXCEPT !.users = users, !.at = now])
      BY <1>11 DEF findExpiredSuspendedStatuses
    <2>2. [Blank EXCEPT !.users = users, !.at = now] \in Requests
      BY <1>0, BlankType DEF Requests, DataType
    <2> QED
      BY <1>0, <1>s, <1>11, <2>1, <2>2, GotoType DEF findExpiredSuspendedStatuses
  <1>12. CASE activateUserStatusesByUserIds(p)
    <2>1. [req[p] EXCEPT !.users = ReleasedNow(p)] \in Requests
      BY <1>0 DEF Requests, ReleasedNow
    <2> QED
      BY <1>0, <1>s, <1>12, <2>1, GotoType, LockType DEF activateUserStatusesByUserIds
  <1> QED
    BY <1>1, <1>2, <1>3, <1>4, <1>5, <1>6, <1>7, <1>8, <1>9, <1>10, <1>11, <1>12
       DEF Step, createUserReport, softDeleteOwn, updateAdminReportDecisionStatus,
       CommitMember, CommitRelease, Rollback

\* A request in another's step stays where it is and keeps its rows.
LEMMA OthersKeep ==
    ASSUME Inv, NEW p \in Procs, Step(p)
    PROVE  /\ \A q \in Procs \ {p} : pc'[q] = pc[q] /\ req'[q] = req[q]
           /\ \A k \in Held : lock[k] \notin {None, p} => lock'[k] = lock[k]
  <1>0. ControlType
    BY TypeParts DEF Inv
  <1>1. ASSUME NEW q \in Procs \ {p} PROVE pc'[q] = pc[q] /\ req'[q] = req[q]
    BY <1>0 DEF ControlType, Step, requireAuth, findReportTargetOwner, createUserReport,
       softDeleteOwn, lockAdminReportForStatusChange, findReportSanctionTargetUser,
       upsertSuspendedUserStatus, softDeleteReportReportedContent,
       updateAdminReportDecisionStatus, rejectAdminReport, changeAdminMemberStatus,
       upsertAdminMemberStatus, CommitMember, findExpiredSuspendedStatuses,
       activateUserStatusesByUserIds, CommitRelease, Rollback, Finish, Goto
  <1>2. ASSUME NEW k \in Held, lock[k] \notin {None, p}
        PROVE  lock'[k] = lock[k]
    <2>1. CASE lock' = lock \/ \E s, r : Finish(p, s, r)
      BY <1>2, <2>1 DEF Finish
    <2>2. ASSUME NEW S, \A h \in S : Free(p, h), Hold(p, S)
          PROVE  lock'[k] = lock[k]
      BY <1>2, <2>2 DEF Free, Hold
    <2>3. CASE lockAdminReportForStatusChange(p)
      <3>1. PICK r \in Reports : Free(p, <<"report", r>>) /\ Hold(p, {<<"report", r>>})
        BY <2>3 DEF lockAdminReportForStatusChange
      <3> QED
        BY <2>2, <3>1
    <2>4. CASE findReportSanctionTargetUser(p) \/ changeAdminMemberStatus(p)
      <3>1. PICK m : Free(p, <<"user", m>>) /\ Hold(p, {<<"user", m>>})
        BY <2>4 DEF findReportSanctionTargetUser, changeAdminMemberStatus,
           lockAdminMemberForStatusChange, LockMember
      <3> QED
        BY <2>2, <3>1
    <2>5. CASE upsertSuspendedUserStatus(p) \/ upsertAdminMemberStatus(p)
      <3>1. PICK m : Free(p, <<"status", m>>) /\ Hold(p, {<<"status", m>>})
        BY <2>5 DEF upsertSuspendedUserStatus, upsertAdminMemberStatus
      <3> QED
        BY <2>2, <3>1
    <2>6. CASE softDeleteReportReportedContent(p)
      <3>1. PICK W : (\A c \in W : Free(p, <<"content", c>>)) /\ Hold(p, {"content"} \X W)
        BY <2>6 DEF softDeleteReportReportedContent
      <3> QED
        BY <2>2, <3>1
    <2>7. CASE activateUserStatusesByUserIds(p)
      <3>1. PICK U : (\A m \in U : Free(p, <<"status", m>>)) /\ Hold(p, {"status"} \X U)
        BY <2>7 DEF activateUserStatusesByUserIds, ReleasedNow
      <3> QED
        BY <2>2, <3>1
    <2> QED
      BY <2>1, <2>3, <2>4, <2>5, <2>6, <2>7 DEF Step, requireAuth, findReportTargetOwner,
         createUserReport, softDeleteOwn, updateAdminReportDecisionStatus, rejectAdminReport,
         CommitMember, findExpiredSuspendedStatuses, CommitRelease, Rollback
  <1> QED
    BY <1>1, <1>2
\* What a transaction may record of a member, and when.
Changes(p, m, e) ==
    \/ /\ updateAdminReportDecisionStatus(p) /\ Suspending(p) /\ m = req[p].user
       /\ e = [by |-> "report", report |-> req[p].report,
               before |-> req[p].seen, after |-> req[p].write]
    \/ /\ CommitMember(p) /\ m = req[p].user
       /\ e = [by |-> "admin", report |-> req[p].report,
               before |-> req[p].seen, after |-> req[p].write]
    \/ /\ CommitRelease(p) /\ m \in req[p].users
       /\ e = [by |-> "job", report |-> None, before |-> row[m], after |-> Active]

\* A member's status changes with its histories, by one entry or not at all.
LEMMA HistoryMoves ==
    ASSUME Inv, NEW p \in Procs, Step(p), NEW m \in Members
    PROVE  \/ row'[m] = row[m] /\ hist'[m] = hist[m]
           \/ \E e \in Entries : /\ Changes(p, m, e)
                                 /\ hist'[m] = Append(hist[m], e) /\ row'[m] = e.after
  <1>0. DataType /\ req[p] \in Requests /\ ReportsHeld
    BY TypeParts DEF Inv, ControlType
  <1>1. CASE updateAdminReportDecisionStatus(p)
    <2>1. CASE "SUSPEND_TARGET_USER" \in req[p].acts
      <3>1. Suspending(p) /\ req[p].report \in Reports
        BY <1>0, <1>1, <2>1 DEF updateAdminReportDecisionStatus, Suspending, Deciding, ReportsHeld
      <3> DEFINE e == [by |-> "report", report |-> req[p].report,
                       before |-> req[p].seen, after |-> req[p].write]
      <3>2. e \in Entries
        BY <1>0, <3>1 DEF Entries, Requests
      <3>3. /\ row' = [row EXCEPT ![req[p].user] = req[p].write]
            /\ hist' = [hist EXCEPT ![req[p].user] = Append(hist[req[p].user], e)]
        BY <1>1, <2>1 DEF updateAdminReportDecisionStatus, Record
      <3>4. e.after = req[p].write
        OBVIOUS
      <3>5. CASE m = req[p].user
        <4>1. Changes(p, m, e)
          BY <1>1, <3>1, <3>5 DEF Changes
        <4>2. hist'[m] = Append(hist[m], e) /\ row'[m] = e.after
          BY <1>0, <3>3, <3>4, <3>5 DEF DataType
        <4> QED
          BY <3>2, <4>1, <4>2
      <3>6. CASE m # req[p].user
        BY <1>0, <3>3, <3>6 DEF DataType
      <3> QED
        BY <3>5, <3>6
    <2> QED
      BY <1>1, <2>1 DEF updateAdminReportDecisionStatus
  <1>2. CASE CommitMember(p)
    <2> DEFINE e == [by |-> "admin", report |-> req[p].report,
                     before |-> req[p].seen, after |-> req[p].write]
    <2>1. e \in Entries
      BY <1>0 DEF Entries, Requests
    <2>2. /\ row' = [row EXCEPT ![req[p].user] = req[p].write]
          /\ hist' = [hist EXCEPT ![req[p].user] = Append(hist[req[p].user], e)]
      BY <1>2 DEF CommitMember, Record
    <2>3. e.after = req[p].write
      OBVIOUS
    <2>4. CASE m = req[p].user
      <3>1. Changes(p, m, e)
        BY <1>2, <2>4 DEF Changes
      <3>2. hist'[m] = Append(hist[m], e) /\ row'[m] = e.after
        BY <1>0, <2>2, <2>3, <2>4 DEF DataType
      <3> QED
        BY <2>1, <3>1, <3>2
    <2>5. CASE m # req[p].user
      BY <1>0, <2>2, <2>5 DEF DataType
    <2> QED
      BY <2>4, <2>5
  <1>3. CASE CommitRelease(p)
    <2> DEFINE e == [by |-> "job", report |-> None, before |-> row[m], after |-> Active]
    <2>1. e \in Entries
      BY <1>0, RowsType DEF Entries, DataType
    <2>2. e.after = Active
      OBVIOUS
    <2>3. CASE m \in req[p].users
      <3>1. Changes(p, m, e)
        BY <1>3, <2>3 DEF Changes
      <3>2. hist'[m] = Append(hist[m], e) /\ row'[m] = e.after
        BY <1>3, <2>2, <2>3 DEF CommitRelease
      <3> QED
        BY <2>1, <3>1, <3>2
    <2>4. CASE m \notin req[p].users
      BY <1>3, <2>4 DEF CommitRelease
    <2> QED
      BY <2>3, <2>4
  <1>4. CASE row' = row /\ hist' = hist
    BY <1>4
  <1> QED
    BY <1>1, <1>2, <1>3, <1>4 DEF Step, requireAuth, findReportTargetOwner, createUserReport,
       softDeleteOwn, lockAdminReportForStatusChange, findReportSanctionTargetUser,
       upsertSuspendedUserStatus, softDeleteReportReportedContent, rejectAdminReport,
       changeAdminMemberStatus, upsertAdminMemberStatus, findExpiredSuspendedStatuses,
       activateUserStatusesByUserIds, Rollback

\* The whole of a member's histories after an entry.
LEMMA Appended ==
    ASSUME DataType, NEW m \in Members, NEW e \in Entries, hist'[m] = Append(hist[m], e)
    PROVE  /\ Len(hist[m]) \in Nat
           /\ hist'[m] \in Seq(Entries) /\ hist'[m] # <<>>
           /\ DOMAIN hist[m] = 1 .. Len(hist[m])
           /\ DOMAIN hist'[m] = 1 .. (Len(hist[m]) + 1)
           /\ Len(hist'[m]) = Len(hist[m]) + 1
           /\ \A i \in 1 .. Len(hist[m]) : hist'[m][i] = hist[m][i]
           /\ hist'[m][Len(hist[m]) + 1] = e
  <1>1. hist[m] \in Seq(Entries)
    BY DEF DataType
  <1>2. /\ Append(hist[m], e) \in Seq(Entries) /\ Append(hist[m], e) # <<>>
        /\ Len(Append(hist[m], e)) = Len(hist[m]) + 1
        /\ \A i \in 1 .. Len(hist[m]) : Append(hist[m], e)[i] = hist[m][i]
        /\ Append(hist[m], e)[Len(hist[m]) + 1] = e
    BY <1>1, AppendProperties
  <1>3. \A s \in Seq(Entries) : Len(s) \in Nat /\ DOMAIN s = 1 .. Len(s)
    OBVIOUS
  <1> QED
    BY <1>1, <1>2, <1>3

\* A report is made, rejected while nobody holds it, or decided by its holder.
LEMMA ReportsMove ==
    ASSUME Inv, NEW p \in Procs, Step(p), NEW r \in Reports
    PROVE  /\ gone \subseteq gone' /\ now' = now
           /\ \/ report'[r] = report[r] /\ taken'[r] = taken[r]
              \/ report[r] = "NONE" /\ report'[r] = "PENDING" /\ taken'[r] = taken[r]
              \/ /\ report[r] = "PENDING" /\ report'[r] = "REJECTED" /\ taken'[r] = taken[r]
                 /\ lock[<<"report", r>>] \in {None, p}
              \/ /\ updateAdminReportDecisionStatus(p) /\ r = req[p].report
                 /\ report[r] = "PENDING" /\ report'[r] = "RESOLVED"
                 /\ taken'[r] = req[p].acts
  <1>0. DataType
    BY TypeParts DEF Inv
  <1>1. CASE createUserReport(p)
    BY <1>0, <1>1 DEF createUserReport, DataType
  <1>2. CASE rejectAdminReport(p)
    BY <1>0, <1>2 DEF rejectAdminReport, DataType, Free
  <1>3. CASE updateAdminReportDecisionStatus(p)
    BY <1>0, <1>3 DEF updateAdminReportDecisionStatus, DataType
  <1>4. CASE now' = now /\ gone \subseteq gone' /\ report' = report /\ taken' = taken
    BY <1>4
  <1> QED
    BY <1>1, <1>2, <1>3, <1>4 DEF Step, requireAuth, findReportTargetOwner,
       softDeleteOwn, lockAdminReportForStatusChange, findReportSanctionTargetUser,
       upsertSuspendedUserStatus, softDeleteReportReportedContent,
       changeAdminMemberStatus, upsertAdminMemberStatus, findExpiredSuspendedStatuses,
       activateUserStatusesByUserIds, Rollback, CommitMember, CommitRelease

\* Every step keeps the types of what is stored.
LEMMA DataInv ==
    ASSUME Inv, NEW p \in Procs, Step(p)
    PROVE  DataType'
  <1>0. DataType /\ req[p] \in Requests /\ ReportsHeld
    BY TypeParts DEF Inv, ControlType
  <1>2. row' \in [Members -> Rows] /\ hist' \in [Members -> Seq(Entries)]
    <2>1. ASSUME NEW m \in Members PROVE row'[m] \in Rows /\ hist'[m] \in Seq(Entries)
      <3>1. CASE row'[m] = row[m] /\ hist'[m] = hist[m]
        BY <1>0, <3>1 DEF DataType
      <3>2. ASSUME NEW e \in Entries, hist'[m] = Append(hist[m], e), row'[m] = e.after
            PROVE  row'[m] \in Rows /\ hist'[m] \in Seq(Entries)
        BY <1>0, <3>2, Appended DEF Entries
      <3> QED
        BY <3>1, <3>2, HistoryMoves
    <2>2. row' = [m \in Members |-> row'[m]] /\ hist' = [m \in Members |-> hist'[m]]
      BY <1>0 DEF DataType, Step, requireAuth, findReportTargetOwner, createUserReport,
         softDeleteOwn, lockAdminReportForStatusChange, findReportSanctionTargetUser,
         upsertSuspendedUserStatus, softDeleteReportReportedContent, rejectAdminReport,
         changeAdminMemberStatus, upsertAdminMemberStatus, findExpiredSuspendedStatuses,
         activateUserStatusesByUserIds, Rollback, CommitMember, CommitRelease,
         updateAdminReportDecisionStatus
    <2> QED
      BY <2>1, <2>2
  <1>3. CASE updateAdminReportDecisionStatus(p) \/ rejectAdminReport(p) \/ createUserReport(p)
    <2>1. /\ report' \in [Reports -> {"NONE", "PENDING", "RESOLVED", "REJECTED"}]
          /\ taken' \in [Reports -> SUBSET Actions] /\ gone' \subseteq Targets /\ now' = now
      BY <1>0, <1>3 DEF DataType, Requests, updateAdminReportDecisionStatus,
         rejectAdminReport, createUserReport
    <2> QED
      BY <1>0, <1>2, <2>1 DEF DataType
  <1>4. CASE softDeleteOwn(p)
    <2>1. gone' \subseteq Targets
      BY <1>0, <1>4 DEF DataType, softDeleteOwn, Thread
    <2> QED
      BY <1>0, <1>2, <1>4, <2>1 DEF DataType, softDeleteOwn
  <1>5. CASE UNCHANGED <<now, gone, report, taken>>
    BY <1>0, <1>2, <1>5 DEF DataType
  <1> QED
    BY <1>3, <1>4, <1>5 DEF Step, requireAuth, findReportTargetOwner,
       lockAdminReportForStatusChange, findReportSanctionTargetUser,
       upsertSuspendedUserStatus, softDeleteReportReportedContent,
       changeAdminMemberStatus, upsertAdminMemberStatus, findExpiredSuspendedStatuses,
       activateUserStatusesByUserIds, Rollback, CommitMember, CommitRelease
\* What a decision holds of its report, one request at a time.
ReportHolds(q) ==
    /\ pc[q] \in {"suspend", "upsert"} => Suspending(q)
    /\ pc[q] = "authed" => req[q].user \in Members
    /\ pc[q] = "report" => req[q].report \in Reports
    /\ pc[q] \in Deciding =>
         /\ req[q].report \in Reports
         /\ req[q].user = Author[req[q].report[2]]
         /\ lock[<<"report", req[q].report>>] = q
         /\ report[req[q].report] = "PENDING"
         /\ (pc[q] = "decide" /\ "DELETE_REPORTED_CONTENT" \in req[q].acts) =>
               req[q].report[2] \in gone \cup req[q].wipe

\* It has written the status row and not committed.
Written(q) == pc[q] = "commit" \/ (Suspending(q) /\ pc[q] \in {"delete", "decide"})

\* What a transaction holds of its member, one request at a time.
MemberHolds(q) ==
    /\ (Written(q) \/ pc[q] \in {"upsert", "change"}) =>
         /\ req[q].user \in Members
         /\ lock[<<"user", req[q].user>>] = q
         /\ \/ req[q].seen = row[req[q].user]
            \/ /\ hist[req[q].user] # <<>>
               /\ hist[req[q].user][Len(hist[req[q].user])].by = "job"
    /\ Written(q) => lock[<<"status", req[q].user>>] = q
    /\ Written(q) /\ pc[q] # "commit" =>
         req[q].write = SuspendedRow(row[req[q].user], req[q].at)
    /\ pc[q] = "released" =>
         \A n \in req[q].users : lock[<<"status", n>>] = q /\ Expired(n, req[q].at)
    /\ pc[q] \in {"change", "commit"} => req[q].report = None
    /\ req[q].at <= now

\* What transactions hold is what each of them holds.
LEMMA HoldsParts ==
    /\ ReportsHeld <=> \A q \in Procs : ReportHolds(q)
    /\ MembersHeld <=> \A q \in Procs : MemberHolds(q)
  <1>1. ReportsHeld <=> \A q \in Procs : ReportHolds(q)
    BY DEF ReportsHeld, ReportHolds
  <1>2. MembersHeld <=> \A q \in Procs : MemberHolds(q)
    BY DEF MembersHeld, MemberHolds, Written
  <1> QED
    BY <1>1, <1>2

\* What an entry that is appended begins in and names.
Entered(m, e) ==
    /\ \/ e.before = row[m]
       \/ e.by # "job" /\ hist[m] # <<>> /\ hist[m][Len(hist[m])].by = "job"
    /\ e.by = "report" <=> e.report # None

\* Who changes a member's status holds the row, and the members row unless it is
\* the job.
LEMMA ChangersHold ==
    ASSUME Inv, NEW p \in Procs, NEW m \in Members, NEW e, Changes(p, m, e)
    PROVE  /\ lock[<<"status", m>>] = p
           /\ lock[<<"user", m>>] = p \/ e.by = "job"
           /\ Entered(m, e)
  <1>0. ReportHolds(p) /\ MemberHolds(p)
    BY HoldsParts DEF Inv
  <1>1. CASE updateAdminReportDecisionStatus(p) /\ Suspending(p) /\ m = req[p].user
             /\ e = [by |-> "report", report |-> req[p].report,
                     before |-> req[p].seen, after |-> req[p].write]
    <2>1. Written(p)
      BY <1>1 DEF Written, updateAdminReportDecisionStatus
    <2>2. req[p].report # None
      BY <1>0, <1>1 DEF ReportHolds, Suspending
    <2> QED
      BY <1>0, <1>1, <2>1, <2>2 DEF MemberHolds, Entered
  <1>2. CASE CommitMember(p) /\ m = req[p].user
             /\ e = [by |-> "admin", report |-> req[p].report,
                     before |-> req[p].seen, after |-> req[p].write]
    <2>1. Written(p) /\ pc[p] = "commit"
      BY <1>2 DEF Written, CommitMember
    <2> QED
      BY <1>0, <1>2, <2>1 DEF MemberHolds, Entered
  <1>3. CASE CommitRelease(p) /\ m \in req[p].users
             /\ e = [by |-> "job", report |-> None, before |-> row[m], after |-> Active]
    BY <1>0, <1>3 DEF MemberHolds, CommitRelease, Entered
  <1> QED
    BY <1>1, <1>2, <1>3 DEF Changes

\* The histories stay a record of the status.
LEMMA ChainsInv ==
    ASSUME Inv, NEW p \in Procs, Step(p)
    PROVE  StatusHistoryChains'
  <1>0. DataType /\ StatusHistoryChains
    BY TypeParts DEF Inv
  <1> SUFFICES ASSUME NEW m \in Members
               PROVE  /\ row'[m] = LastRow(hist'[m])
                      /\ \A i \in DOMAIN hist'[m] :
                           \/ hist'[m][i].before = IF i = 1 THEN NoRow ELSE hist'[m][i - 1].after
                           \/ i > 1 /\ hist'[m][i].by # "job" /\ hist'[m][i - 1].by = "job"
    BY DEF StatusHistoryChains, LastRow
  <1>1. CASE row'[m] = row[m] /\ hist'[m] = hist[m]
    BY <1>0, <1>1 DEF StatusHistoryChains
  <1>2. CASE \E e \in Entries : /\ Changes(p, m, e)
                                /\ hist'[m] = Append(hist[m], e) /\ row'[m] = e.after
    <2>1. PICK e \in Entries : /\ Changes(p, m, e)
                               /\ hist'[m] = Append(hist[m], e) /\ row'[m] = e.after
      BY <1>2
    <2> DEFINE n == Len(hist[m])
    <2>2. /\ n \in Nat /\ hist'[m] # <<>>
          /\ DOMAIN hist[m] = 1 .. n /\ DOMAIN hist'[m] = 1 .. (n + 1) /\ Len(hist'[m]) = n + 1
          /\ \A i \in 1 .. n : hist'[m][i] = hist[m][i]
          /\ hist'[m][n + 1] = e
      BY <1>0, <2>1, Appended
    <2>3. row'[m] = LastRow(hist'[m])
      BY <2>1, <2>2 DEF LastRow
    <2>4. ASSUME NEW i \in 1 .. n
          PROVE  \/ hist'[m][i].before = IF i = 1 THEN NoRow ELSE hist'[m][i - 1].after
                 \/ i > 1 /\ hist'[m][i].by # "job" /\ hist'[m][i - 1].by = "job"
      <3>1. \/ hist[m][i].before = IF i = 1 THEN NoRow ELSE hist[m][i - 1].after
            \/ i > 1 /\ hist[m][i].by # "job" /\ hist[m][i - 1].by = "job"
        BY <1>0, <2>2 DEF StatusHistoryChains
      <3>2. hist'[m][i] = hist[m][i] /\ (i # 1 => hist'[m][i - 1] = hist[m][i - 1])
        BY <2>2
      <3> QED
        BY <3>1, <3>2
    <2>5. \/ hist'[m][n + 1].before = IF n + 1 = 1 THEN NoRow ELSE hist'[m][(n + 1) - 1].after
          \/ n + 1 > 1 /\ hist'[m][n + 1].by # "job" /\ hist'[m][(n + 1) - 1].by = "job"
      <3>0. /\ (n + 1) - 1 = n /\ (hist[m] = <<>> <=> n = 0)
            /\ (n # 0 => n \in 1 .. n)
        <4>1. hist[m] \in Seq(Entries)
          BY <1>0 DEF DataType
        <4>2. hist[m] = <<>> <=> n = 0
          <5>1. \A s \in Seq(Entries) : s = <<>> <=> Len(s) = 0
            BY EmptySeq
          <5> QED
            BY <4>1, <5>1
        <4> QED
          BY <2>2, <4>2
      <3>1. row[m] = IF n = 0 THEN NoRow ELSE hist[m][n].after
        BY <1>0, <3>0 DEF StatusHistoryChains, LastRow
      <3>2. \/ e.before = row[m]
            \/ e.by # "job" /\ hist[m] # <<>> /\ hist[m][n].by = "job"
        <4>1. Entered(m, e)
          BY <2>1, ChangersHold
        <4> QED
          BY <4>1 DEF Entered
      <3>3. n # 0 => hist'[m][n] = hist[m][n]
        BY <2>2, <3>0
      <3> QED
        BY <2>2, <3>0, <3>1, <3>2, <3>3
    <2>6. \A i \in DOMAIN hist'[m] : i \in 1 .. n \/ i = n + 1
      BY <2>2
    <2> QED
      BY <2>3, <2>4, <2>5, <2>6
  <1> QED
    BY <1>1, <1>2, HistoryMoves

\* Entries name the reports that led to them, and no other.
LEMMA NamedInv ==
    ASSUME Inv, NEW p \in Procs, Step(p)
    PROVE  EntriesNamed'
  <1>0. DataType /\ EntriesNamed
    BY TypeParts DEF Inv
  <1> SUFFICES ASSUME NEW m \in Members, NEW i \in DOMAIN hist'[m]
               PROVE  hist'[m][i].by = "report" <=> hist'[m][i].report # None
    BY DEF EntriesNamed
  <1>1. CASE hist'[m] = hist[m]
    BY <1>0, <1>1 DEF EntriesNamed
  <1>2. ASSUME NEW e \in Entries, Changes(p, m, e), hist'[m] = Append(hist[m], e)
        PROVE  hist'[m][i].by = "report" <=> hist'[m][i].report # None
    <2>0. /\ Len(hist[m]) \in Nat
          /\ DOMAIN hist[m] = 1 .. Len(hist[m])
          /\ DOMAIN hist'[m] = 1 .. (Len(hist[m]) + 1)
          /\ \A j \in 1 .. Len(hist[m]) : hist'[m][j] = hist[m][j]
          /\ hist'[m][Len(hist[m]) + 1] = e
      BY <1>0, <1>2, Appended
    <2>1. \/ i \in DOMAIN hist[m] /\ hist'[m][i] = hist[m][i]
          \/ hist'[m][i] = e
      BY <2>0
    <2>2. e.by = "report" <=> e.report # None
      <3>1. Entered(m, e)
        BY <1>2, ChangersHold
      <3> QED
        BY <3>1 DEF Entered
    <2> QED
      BY <1>0, <2>1, <2>2 DEF EntriesNamed
  <1> QED
    BY <1>1, <1>2, HistoryMoves

\* What the histories say of reports, a member and a report at a time.
FollowsDecision(m) ==
    \A i \in DOMAIN hist[m] :
        hist[m][i].by = "report" =>
            /\ Author[hist[m][i].report[2]] = m
            /\ report[hist[m][i].report] = "RESOLVED"
            /\ "SUSPEND_TARGET_USER" \in taken[hist[m][i].report]
            /\ \A j \in DOMAIN hist[m] : hist[m][j].report = hist[m][i].report => j = i

\* What was decided is done.
IsDone(r) ==
    report[r] = "RESOLVED" =>
        /\ "SUSPEND_TARGET_USER" \in taken[r] =>
               \E i \in DOMAIN hist[Author[r[2]]] : hist[Author[r[2]]][i].report = r
        /\ "DELETE_REPORTED_CONTENT" \in taken[r] => r[2] \in gone

\* The agreement of sanctions and decisions is these two.
LEMMA SanctionParts ==
    SanctionIsDecided <=> /\ \A m \in Members : FollowsDecision(m)
                          /\ \A r \in Reports : IsDone(r)
  BY DEF SanctionIsDecided, FollowsDecision, IsDone

\* An entry of a decision names the report that is decided with it, which had no
\* entry yet.
LEMMA DecisionEntry ==
    ASSUME Inv, NEW p \in Procs, NEW m \in Members, NEW e \in Entries, Changes(p, m, e),
           e.by = "report"
    PROVE  /\ updateAdminReportDecisionStatus(p) /\ e.report = req[p].report
           /\ e.report \in Reports /\ Author[e.report[2]] = m
           /\ report[e.report] = "PENDING"
           /\ "SUSPEND_TARGET_USER" \in req[p].acts
           /\ \A j \in DOMAIN hist[m] : hist[m][j].report # e.report
  <1>0. ReportHolds(p) /\ FollowsDecision(m) /\ EntriesNamed /\ DataType
    BY HoldsParts, SanctionParts, TypeParts DEF Inv
  <1>1. /\ updateAdminReportDecisionStatus(p) /\ Suspending(p) /\ m = req[p].user
        /\ e.report = req[p].report
    BY DEF Changes
  <1>2. /\ e.report \in Reports /\ Author[e.report[2]] = m
        /\ report[e.report] = "PENDING" /\ "SUSPEND_TARGET_USER" \in req[p].acts
    BY <1>0, <1>1 DEF ReportHolds, Suspending
  <1>3. ASSUME NEW j \in DOMAIN hist[m] PROVE hist[m][j].report # e.report
    <2>1. CASE hist[m][j].by = "report"
      BY <1>0, <1>2, <2>1 DEF FollowsDecision
    <2>2. CASE hist[m][j].by # "report"
      BY <1>0, <1>2, <2>2 DEF EntriesNamed
    <2> QED
      BY <2>1, <2>2
  <1> QED
    BY <1>1, <1>2, <1>3

\* An entry of a decision stays that of a decision.
LEMMA DecisionStays ==
    ASSUME Inv, NEW p \in Procs, Step(p), NEW m \in Members, NEW i \in DOMAIN hist[m],
           hist[m][i].by = "report"
    PROVE  /\ hist[m][i].report \in Reports
           /\ report[hist[m][i].report] = "RESOLVED"
           /\ report'[hist[m][i].report] = "RESOLVED"
           /\ taken'[hist[m][i].report] = taken[hist[m][i].report]
  <1>0. DataType /\ EntriesNamed /\ FollowsDecision(m)
    BY TypeParts, SanctionParts DEF Inv
  <1>1. hist[m] \in Seq(Entries) /\ i \in 1 .. Len(hist[m])
    BY <1>0, LenProperties DEF DataType
  <1>2. hist[m][i] \in Entries
    BY <1>1, ElementOfSeq
  <1>3. hist[m][i].report \in Reports
    BY <1>0, <1>2 DEF Entries, EntriesNamed
  <1>4. report[hist[m][i].report] = "RESOLVED"
    BY <1>0 DEF FollowsDecision
  <1> QED
    BY <1>3, <1>4, ReportsMove

\* Sanctions follow decisions after a step.
LEMMA FollowsInv ==
    ASSUME Inv, NEW p \in Procs, Step(p), NEW m \in Members
    PROVE  FollowsDecision(m)'
  <1>0. DataType /\ FollowsDecision(m)
    BY TypeParts, SanctionParts DEF Inv
  <1>1. CASE hist'[m] = hist[m]
    <2>1. ASSUME NEW i \in DOMAIN hist[m], hist[m][i].by = "report"
          PROVE  /\ report'[hist[m][i].report] = "RESOLVED"
                 /\ "SUSPEND_TARGET_USER" \in taken'[hist[m][i].report]
      BY <1>0, <2>1, DecisionStays DEF FollowsDecision
    <2> QED
      BY <1>0, <1>1, <2>1 DEF FollowsDecision
  <1>2. ASSUME NEW e \in Entries, Changes(p, m, e), hist'[m] = Append(hist[m], e)
        PROVE  FollowsDecision(m)'
    <2> DEFINE n == Len(hist[m])
    <2>0. /\ n \in Nat
          /\ DOMAIN hist[m] = 1 .. n
          /\ DOMAIN hist'[m] = 1 .. (n + 1)
          /\ \A j \in 1 .. n : hist'[m][j] = hist[m][j]
          /\ hist'[m][n + 1] = e
      BY <1>0, <1>2, Appended
    <2> HIDE DEF n
    <2>1. ASSUME e.by = "report"
          PROVE  /\ Author[e.report[2]] = m
                 /\ report'[e.report] = "RESOLVED"
                 /\ "SUSPEND_TARGET_USER" \in taken'[e.report]
                 /\ \A j \in 1 .. n : hist[m][j].report # e.report
      <3>1. /\ updateAdminReportDecisionStatus(p) /\ e.report = req[p].report
            /\ e.report \in Reports /\ Author[e.report[2]] = m
            /\ "SUSPEND_TARGET_USER" \in req[p].acts
            /\ \A j \in DOMAIN hist[m] : hist[m][j].report # e.report
        BY <1>2, <2>1, DecisionEntry
      <3>2. report'[e.report] = "RESOLVED" /\ taken'[e.report] = req[p].acts
        BY <1>0, <3>1 DEF updateAdminReportDecisionStatus, DataType
      <3> QED
        BY <2>0, <3>1, <3>2
    <2>2. ASSUME NEW i \in 1 .. n, hist[m][i].by = "report"
          PROVE  /\ Author[hist[m][i].report[2]] = m
                 /\ report'[hist[m][i].report] = "RESOLVED"
                 /\ "SUSPEND_TARGET_USER" \in taken'[hist[m][i].report]
                 /\ \A j \in 1 .. n : hist[m][j].report = hist[m][i].report => j = i
                 /\ e.report # hist[m][i].report
      <3>1. i \in DOMAIN hist[m]
        BY <2>0
      <3>2. /\ hist[m][i].report \in Reports
            /\ report[hist[m][i].report] = "RESOLVED"
            /\ report'[hist[m][i].report] = "RESOLVED"
            /\ taken'[hist[m][i].report] = taken[hist[m][i].report]
        BY <2>2, <3>1, DecisionStays
      <3>3. e.report # hist[m][i].report
        <4>1. CASE e.by = "report"
          BY <2>1, <4>1
        <4>2. CASE e.by # "report"
          <5>1. Entered(m, e)
            BY <1>2, ChangersHold
          <5> QED
            BY <3>2, <4>2, <5>1 DEF Entered
        <4> QED
          BY <4>1, <4>2
      <3> QED
        BY <1>0, <2>0, <2>2, <3>1, <3>2, <3>3 DEF FollowsDecision
    <2>3. SUFFICES ASSUME NEW i \in 1 .. (n + 1), hist'[m][i].by = "report"
                   PROVE  /\ Author[hist'[m][i].report[2]] = m
                          /\ report'[hist'[m][i].report] = "RESOLVED"
                          /\ "SUSPEND_TARGET_USER" \in taken'[hist'[m][i].report]
                          /\ \A j \in 1 .. (n + 1) : hist'[m][j].report = hist'[m][i].report => j = i
      BY <2>0 DEF FollowsDecision
    <2>4. \A j \in 1 .. (n + 1) : j = n + 1 \/ j \in 1 .. n
      BY <2>0
    <2>5. CASE i = n + 1
      BY <2>0, <2>1, <2>3, <2>4, <2>5
    <2>6. CASE i \in 1 .. n
      <3>1. hist'[m][i] = hist[m][i]
        BY <2>0, <2>6
      <3> QED
        BY <2>0, <2>2, <2>3, <2>4, <2>6, <3>1
    <2> QED
      BY <2>4, <2>5, <2>6
  <1> QED
    BY <1>1, <1>2, HistoryMoves

\* What is decided in a step is done with it, and nothing is undone.
LEMMA DoneInv ==
    ASSUME Inv, NEW p \in Procs, Step(p), NEW r \in Reports
    PROVE  IsDone(r)'
  <1>0. DataType /\ IsDone(r) /\ ReportHolds(p) /\ Author[r[2]] \in Members
    BY TypeParts, HoldsParts, SanctionParts DEF Inv, Reports
  <1>1. ASSUME NEW m \in Members, \E i \in DOMAIN hist[m] : hist[m][i].report = r
        PROVE  \E i \in DOMAIN hist'[m] : hist'[m][i].report = r
    <2>1. CASE hist'[m] = hist[m]
      BY <1>1, <2>1
    <2>2. ASSUME NEW e \in Entries, hist'[m] = Append(hist[m], e)
          PROVE  \E i \in DOMAIN hist'[m] : hist'[m][i].report = r
      <3>1. PICK i \in DOMAIN hist[m] : hist[m][i].report = r
        BY <1>1
      <3>2. i \in DOMAIN hist'[m] /\ hist'[m][i] = hist[m][i]
        BY <1>0, <2>2, <3>1, Appended
      <3> QED
        BY <3>1, <3>2
    <2> QED
      BY <2>1, <2>2, HistoryMoves
  <1>2. CASE report'[r] = "RESOLVED" /\ report[r] = "RESOLVED"
    BY <1>0, <1>1, <1>2, ReportsMove DEF IsDone
  <1>3. CASE /\ updateAdminReportDecisionStatus(p) /\ r = req[p].report
             /\ taken'[r] = req[p].acts
    <2>0. pc[p] \in Deciding /\ pc[p] = "decide" /\ req[p].user = Author[r[2]]
      BY <1>0, <1>3 DEF updateAdminReportDecisionStatus, Deciding, ReportHolds
    <2>1. "DELETE_REPORTED_CONTENT" \in req[p].acts => r[2] \in gone'
      <3>1. "DELETE_REPORTED_CONTENT" \in req[p].acts => r[2] \in gone \cup req[p].wipe
        BY <1>0, <1>3, <2>0 DEF ReportHolds
      <3>2. gone' = gone \cup req[p].wipe
        BY <1>3 DEF updateAdminReportDecisionStatus
      <3> QED
        BY <3>1, <3>2
    <2>2. ASSUME "SUSPEND_TARGET_USER" \in req[p].acts
          PROVE  \E i \in DOMAIN hist'[Author[r[2]]] : hist'[Author[r[2]]][i].report = r
      <3> DEFINE m == Author[r[2]]
                 e == [by |-> "report", report |-> r,
                       before |-> req[p].seen, after |-> req[p].write]
      <3>1. hist'[m] = Append(hist[m], e)
        <4>1. hist' = [hist EXCEPT ![req[p].user] = Append(hist[req[p].user],
                         [by |-> "report", report |-> req[p].report,
                          before |-> req[p].seen, after |-> req[p].write])]
          BY <1>3, <2>2 DEF updateAdminReportDecisionStatus, Record
        <4>2. req[p].user = m /\ m \in Members /\ req[p].report = r
          BY <1>0, <1>3, <2>0
        <4> QED
          BY <1>0, <4>1, <4>2 DEF DataType
      <3>2. e \in Entries /\ e.report = r
        <4>1. req[p] \in Requests
          BY TypeParts DEF Inv, ControlType
        <4> QED
          BY <4>1 DEF Requests, Entries
      <3> HIDE DEF m, e
      <3>3. m \in Members
        BY <1>0 DEF m
      <3>4. Len(hist[m]) + 1 \in DOMAIN hist'[m] /\ hist'[m][Len(hist[m]) + 1] = e
        BY <1>0, <3>1, <3>2, <3>3, Appended
      <3>5. \E i \in DOMAIN hist'[m] : hist'[m][i].report = r
        BY <3>2, <3>4
      <3> QED
        BY <3>5 DEF m
    <2> QED
      BY <1>3, <2>1, <2>2 DEF IsDone
  <1>4. CASE report'[r] # "RESOLVED"
    BY <1>4 DEF IsDone
  <1> QED
    BY <1>2, <1>3, <1>4, ReportsMove
\* What a decision holds of its report stays true in another's step.
LEMMA OthersReport ==
    ASSUME Inv, NEW p \in Procs, NEW q \in Procs \ {p}, Step(p)
    PROVE  ReportHolds(q)'
  <1>0. ReportHolds(q) /\ ReportHolds(p) /\ ControlType
    BY HoldsParts, TypeParts DEF Inv
  <1>1. pc'[q] = pc[q] /\ req'[q] = req[q]
    BY OthersKeep
  <1>2. CASE pc[q] \notin Deciding
    BY <1>0, <1>1, <1>2 DEF ReportHolds, Deciding
  <1>3. CASE pc[q] \in Deciding
    <2>1. /\ req[q].report \in Reports /\ lock[<<"report", req[q].report>>] = q
          /\ report[req[q].report] = "PENDING"
      BY <1>0, <1>3 DEF ReportHolds
    <2>2. <<"report", req[q].report>> \in Held
      BY <2>1 DEF Held
    <2>3. lock'[<<"report", req[q].report>>] = q
      BY <2>1, <2>2, OthersKeep
    <2>4. ~(updateAdminReportDecisionStatus(p) /\ req[q].report = req[p].report)
      BY <1>0, <2>1 DEF ReportHolds, updateAdminReportDecisionStatus, Deciding
    <2>5. report'[req[q].report] = "PENDING" /\ gone \subseteq gone'
      BY <2>1, <2>4, ReportsMove
    <2> QED
      BY <1>0, <1>1, <1>3, <2>1, <2>3, <2>5 DEF ReportHolds, Suspending, Deciding
  <1> QED
    BY <1>2, <1>3

\* What a transaction holds of its member stays true in another's step.
LEMMA OthersMember ==
    ASSUME Inv, NEW p \in Procs, NEW q \in Procs \ {p}, Step(p)
    PROVE  MemberHolds(q)'
  <1>0. MemberHolds(q) /\ ControlType /\ DataType
    BY HoldsParts, TypeParts DEF Inv
  <1>1. pc'[q] = pc[q] /\ req'[q] = req[q] /\ (Written(q)' <=> Written(q))
    BY OthersKeep DEF Written, Suspending, Deciding
  <1>n. now' = now
    BY DEF Step, requireAuth, findReportTargetOwner, createUserReport,
         softDeleteOwn, lockAdminReportForStatusChange, findReportSanctionTargetUser,
         upsertSuspendedUserStatus, softDeleteReportReportedContent, rejectAdminReport,
         changeAdminMemberStatus, upsertAdminMemberStatus, findExpiredSuspendedStatuses,
         activateUserStatusesByUserIds, Rollback, CommitMember, CommitRelease,
         updateAdminReportDecisionStatus
  <1>2. ASSUME NEW n \in Members
        PROVE  /\ lock[<<"status", n>>] = q => lock'[<<"status", n>>] = q /\ row'[n] = row[n]
               /\ lock[<<"user", n>>] = q =>
                    /\ lock'[<<"user", n>>] = q
                    /\ \/ row'[n] = row[n] /\ hist'[n] = hist[n]
                       \/ hist'[n] # <<>> /\ hist'[n][Len(hist'[n])].by = "job"
    <2>1. <<"status", n>> \in Held /\ <<"user", n>> \in Held
      BY DEF Held
    <2>2. /\ lock[<<"status", n>>] = q => lock'[<<"status", n>>] = q
          /\ lock[<<"user", n>>] = q => lock'[<<"user", n>>] = q
      BY <2>1, OthersKeep
    <2>3. CASE row'[n] = row[n] /\ hist'[n] = hist[n]
      BY <2>2, <2>3
    <2>4. ASSUME NEW e \in Entries, Changes(p, n, e), hist'[n] = Append(hist[n], e)
          PROVE  /\ lock[<<"status", n>>] # q
                 /\ lock[<<"user", n>>] = q =>
                      hist'[n] # <<>> /\ hist'[n][Len(hist'[n])].by = "job"
      <3>1. lock[<<"status", n>>] = p /\ (lock[<<"user", n>>] = p \/ e.by = "job")
        BY <2>4, ChangersHold
      <3>2. hist'[n] # <<>> /\ hist'[n][Len(hist'[n])] = e
        BY <1>0, <2>4, Appended
      <3> QED
        BY <3>1, <3>2
    <2> QED
      BY <2>2, <2>3, <2>4, HistoryMoves
  <1>3. ASSUME Written(q) \/ pc[q] \in {"upsert", "change"}
        PROVE  /\ req[q].user \in Members
               /\ lock'[<<"user", req[q].user>>] = q
               /\ \/ req[q].seen = row'[req[q].user]
                  \/ /\ hist'[req[q].user] # <<>>
                     /\ hist'[req[q].user][Len(hist'[req[q].user])].by = "job"
    BY <1>0, <1>2, <1>3 DEF MemberHolds
  <1>4. ASSUME Written(q)
        PROVE  /\ lock'[<<"status", req[q].user>>] = q
               /\ row'[req[q].user] = row[req[q].user]
    BY <1>0, <1>2, <1>4 DEF MemberHolds
  <1>5. ASSUME pc[q] = "released", NEW n \in req[q].users
        PROVE  lock'[<<"status", n>>] = q /\ Expired(n, req[q].at)'
    <2>1. n \in Members
      BY <1>0, <1>5 DEF ControlType, Requests
    <2> QED
      BY <1>0, <1>1, <1>2, <1>5, <2>1 DEF MemberHolds, Expired
  <1> QED
    BY <1>0, <1>1, <1>n, <1>3, <1>4, <1>5 DEF MemberHolds, Expired

\* Who starts holds nothing.
LEMMA IdleHolds ==
    ASSUME NEW p \in Procs, DataType', pc'[p] = "idle", req'[p] = Blank
    PROVE  ReportHolds(p)' /\ MemberHolds(p)'
  <1>1. Blank.at = 0 /\ now' >= 0
    BY DEF Blank, DataType, Times
  <1> QED
    BY <1>1 DEF ReportHolds, MemberHolds, Written, Deciding, Suspending

\* Where a request that goes on stands, and what it holds.
LEMMA GotoHolds ==
    ASSUME ControlType, NEW p \in Procs, NEW s, NEW r, Goto(p, s, r)
    PROVE  req'[p] = r /\ pc'[p] = s
  BY DEF ControlType, Goto

\* What a decision holds of its report is true after its own step.
LEMMA OwnReport ==
    ASSUME Inv, NEW p \in Procs, Step(p)
    PROVE  ReportHolds(p)'
  <1>0. /\ ReportHolds(p) /\ ControlType /\ DataType /\ DataType'
        /\ req[p] \in Requests /\ req[p].acts \in SUBSET Actions
    BY HoldsParts, TypeParts, DataInv DEF Inv, ControlType, Requests
  <1>1. CASE Finish(p, "idle", Blank)
    BY <1>0, <1>1, GotoHolds, IdleHolds DEF Finish
  <1>2. CASE requireAuth(p)
    <2>1. PICK u \in Members : Goto(p, "authed", [Blank EXCEPT !.user = u])
      BY <1>2 DEF requireAuth
    <2>2. pc'[p] = "authed" /\ req'[p].user = u
      BY <1>0, <2>1, GotoHolds DEF Blank
    <2> QED
      BY <2>2 DEF ReportHolds, Deciding
  <1>3. CASE findReportTargetOwner(p)
    <2>1. PICK t \in Targets : Goto(p, "report", [req[p] EXCEPT !.report = <<req[p].user, t>>])
      BY <1>3 DEF findReportTargetOwner
    <2>2. pc'[p] = "report" /\ req'[p].report = <<req[p].user, t>> /\ req[p].user \in Members
      BY <1>0, <1>3, <2>1, GotoHolds DEF Requests, findReportTargetOwner, ReportHolds
    <2> QED
      BY <2>2 DEF ReportHolds, Deciding, Reports
  <1>4. CASE lockAdminReportForStatusChange(p)
    <2>1. PICK r \in Reports, acts \in SUBSET Actions, t \in Arrived :
             /\ report[r] = "PENDING" /\ acts # {} /\ report' = report
             /\ Hold(p, {<<"report", r>>})
             /\ Goto(p, NextAction(acts), [Blank EXCEPT !.report = r, !.acts = acts, !.at = t,
                                                        !.user = Author[r[2]]])
      BY <1>4 DEF lockAdminReportForStatusChange, assertActionsAllowedForTarget
    <2>2. /\ pc'[p] = NextAction(acts) /\ req'[p].report = r /\ req'[p].acts = acts
          /\ req'[p].user = Author[r[2]]
      <3> DEFINE b == [Blank EXCEPT !.report = r, !.acts = acts, !.at = t, !.user = Author[r[2]]]
      <3>1. b.report = r /\ b.acts = acts /\ b.user = Author[r[2]]
        BY DEF Blank
      <3>2. Goto(p, NextAction(acts), b)
        BY <2>1
      <3> HIDE DEF b
      <3>3. req'[p] = b /\ pc'[p] = NextAction(acts)
        BY <1>0, <3>2, GotoHolds
      <3> QED
        BY <3>1, <3>3
    <2>3. lock'[<<"report", r>>] = p
      BY <1>0, <2>1 DEF Hold, Held, ControlType
    <2>4. /\ NextAction(acts) \in {"suspend", "delete"}
          /\ NextAction(acts) = "suspend" => "SUSPEND_TARGET_USER" \in acts
      BY <2>1, NextActions
    <2> QED
      BY <2>1, <2>2, <2>3, <2>4 DEF ReportHolds, Suspending, Deciding
  <1>5. CASE findReportSanctionTargetUser(p)
    <2>1. /\ pc[p] = "suspend" /\ pc'[p] = "upsert" /\ report' = report
          /\ req'[p].report = req[p].report /\ req'[p].acts = req[p].acts
          /\ req'[p].user = req[p].user
          /\ lock' = [k \in Held |-> IF k \in {<<"user", req[p].user>>} THEN p ELSE lock[k]]
      BY <1>0, <1>5, GotoHolds DEF findReportSanctionTargetUser, Requests,
         lockAdminMemberForStatusChange, LockMember, Hold
    <2>2. <<"report", req[p].report>> \in Held
      BY <1>0, <2>1 DEF ReportHolds, Deciding, Held
    <2>3. lock'[<<"report", req[p].report>>] = lock[<<"report", req[p].report>>]
      BY <2>1, <2>2
    <2> QED
      BY <1>0, <2>1, <2>3 DEF ReportHolds, Suspending, Deciding
  <1>6. CASE upsertSuspendedUserStatus(p)
    <2>1. /\ pc[p] = "upsert" /\ pc'[p] = NextAction(req[p].acts \ {"SUSPEND_TARGET_USER"})
          /\ report' = report
          /\ req'[p].report = req[p].report /\ req'[p].acts = req[p].acts
          /\ req'[p].user = req[p].user
          /\ lock' = [k \in Held |-> IF k \in {<<"status", req[p].user>>} THEN p ELSE lock[k]]
      BY <1>0, <1>6, GotoHolds DEF upsertSuspendedUserStatus, Requests, Hold
    <2>2. <<"report", req[p].report>> \in Held
      BY <1>0, <2>1 DEF ReportHolds, Deciding, Held
    <2>3. lock'[<<"report", req[p].report>>] = lock[<<"report", req[p].report>>]
      BY <2>1, <2>2
    <2>4. /\ pc'[p] \in {"delete", "decide"}
          /\ pc'[p] = "decide" => "DELETE_REPORTED_CONTENT" \notin req[p].acts
      <3>1. req[p].acts \ {"SUSPEND_TARGET_USER"} \in SUBSET Actions
        BY <1>0
      <3> QED
        BY <2>1, <3>1, NextActions
    <2> QED
      BY <1>0, <2>1, <2>3, <2>4 DEF ReportHolds, Suspending, Deciding
  <1>7. CASE softDeleteReportReportedContent(p)
    <2> DEFINE wipe == Wiped(req[p].report[2])
    <2>1. /\ pc[p] = "delete" /\ pc'[p] = "decide" /\ report' = report /\ gone' = gone
          /\ req'[p].report = req[p].report /\ req'[p].acts = req[p].acts
          /\ req'[p].user = req[p].user /\ req'[p].wipe = wipe
          /\ lock' = [k \in Held |-> IF k \in {"content"} \X wipe THEN p ELSE lock[k]]
      BY <1>0, <1>7, GotoHolds DEF softDeleteReportReportedContent, Requests, Hold
    <2>2. <<"report", req[p].report>> \in Held /\ <<"report", req[p].report>> \notin {"content"} \X wipe
      BY <1>0, <2>1 DEF ReportHolds, Deciding, Held
    <2>3. lock'[<<"report", req[p].report>>] = lock[<<"report", req[p].report>>]
      BY <2>1, <2>2
    <2>4. req[p].report[2] \in gone \cup wipe
      BY DEF Wiped, Thread
    <2> QED
      BY <1>0, <2>1, <2>3, <2>4 DEF ReportHolds, Suspending, Deciding
  <1>8. CASE pc'[p] \in {"change", "commit", "release", "released"}
    BY <1>8 DEF ReportHolds, Deciding
  <1>9. CASE \/ changeAdminMemberStatus(p) \/ upsertAdminMemberStatus(p)
             \/ findExpiredSuspendedStatuses(p) \/ activateUserStatusesByUserIds(p)
    <2>1. \E s \in {"change", "commit", "release", "released"} : \E r : Goto(p, s, r)
      BY <1>9 DEF changeAdminMemberStatus, upsertAdminMemberStatus,
         findExpiredSuspendedStatuses, activateUserStatusesByUserIds
    <2> QED
      BY <1>0, <1>8, <2>1, GotoHolds
  <1>10. CASE rejectAdminReport(p)
    BY <1>10 DEF rejectAdminReport, ReportHolds, Deciding
  <1> QED
    BY <1>1, <1>2, <1>3, <1>4, <1>5, <1>6, <1>7, <1>9, <1>10 DEF Step, createUserReport,
       softDeleteOwn, updateAdminReportDecisionStatus, CommitMember, CommitRelease, Rollback

\* What a transaction holds of its member is true after its own step.
LEMMA OwnMember ==
    ASSUME Inv, NEW p \in Procs, Step(p)
    PROVE  MemberHolds(p)'
  <1>0. /\ MemberHolds(p) /\ ReportHolds(p) /\ ControlType /\ DataType /\ DataType'
        /\ req[p] \in Requests /\ req[p].acts \in SUBSET Actions
        /\ \A m \in Members, k \in {"user", "status"} : <<k, m>> \in Held
    BY HoldsParts, TypeParts, DataInv DEF Inv, ControlType, Requests, Held
  <1>1. CASE Finish(p, "idle", Blank)
    BY <1>0, <1>1, GotoHolds, IdleHolds DEF Finish
  <1>2. CASE requireAuth(p) \/ findReportTargetOwner(p)
    <2>1. pc'[p] \in {"authed", "report"} /\ req'[p].at \in {0, req[p].at} /\ now' = now
      <3>1. CASE requireAuth(p)
        <4>1. PICK u \in Members : Goto(p, "authed", [Blank EXCEPT !.user = u])
          BY <3>1 DEF requireAuth
        <4>2. [Blank EXCEPT !.user = u].at = 0
          BY DEF Blank
        <4> QED
          BY <1>0, <3>1, <4>1, <4>2, GotoHolds DEF requireAuth
      <3>2. CASE findReportTargetOwner(p)
        <4>1. PICK t \in Targets : Goto(p, "report", [req[p] EXCEPT !.report = <<req[p].user, t>>])
          BY <3>2 DEF findReportTargetOwner
        <4>2. [req[p] EXCEPT !.report = <<req[p].user, t>>].at = req[p].at
          BY <1>0 DEF Requests
        <4> QED
          BY <1>0, <3>2, <4>1, <4>2, GotoHolds DEF findReportTargetOwner
      <3> QED
        BY <1>2, <3>1, <3>2
    <2>2. req'[p].at <= now'
      BY <1>0, <2>1 DEF MemberHolds, DataType, Times
    <2> QED
      BY <2>1, <2>2 DEF MemberHolds, Written
  <1>3. CASE lockAdminReportForStatusChange(p)
    <2>1. PICK r \in Reports, acts \in SUBSET Actions, t \in Arrived :
             /\ now' = now
             /\ Goto(p, NextAction(acts), [Blank EXCEPT !.report = r, !.acts = acts, !.at = t,
                                                        !.user = Author[r[2]]])
      BY <1>3 DEF lockAdminReportForStatusChange
    <2> DEFINE b == [Blank EXCEPT !.report = r, !.acts = acts, !.at = t, !.user = Author[r[2]]]
    <2>2. b.acts = acts /\ b.at = t /\ Goto(p, NextAction(acts), b)
      BY <2>1 DEF Blank
    <2> HIDE DEF b
    <2>3. pc'[p] = NextAction(acts) /\ req'[p] = b
      BY <1>0, <2>2, GotoHolds
    <2>4. t <= now'
      BY <2>1 DEF Arrived
    <2>5. /\ pc'[p] \in {"suspend", "delete", "decide"}
          /\ "SUSPEND_TARGET_USER" \in acts => pc'[p] = "suspend"
      BY <2>3, NextActions
    <2> QED
      BY <2>2, <2>3, <2>4, <2>5 DEF MemberHolds, Written, Suspending, Deciding
  <1>4. CASE findReportSanctionTargetUser(p)
    <2>1. /\ pc[p] = "suspend" /\ pc'[p] = "upsert" /\ now' = now /\ row' = row
          /\ req'[p].user = req[p].user /\ req'[p].at = req[p].at
          /\ req'[p].seen = row[req[p].user]
          /\ lock' = [k \in Held |-> IF k \in {<<"user", req[p].user>>} THEN p ELSE lock[k]]
      BY <1>0, <1>4, GotoHolds DEF findReportSanctionTargetUser, Requests,
         lockAdminMemberForStatusChange, LockMember, Hold
    <2>2. req[p].user \in Members
      BY <1>0, <2>1 DEF ReportHolds, Deciding, Reports
    <2>3. lock'[<<"user", req[p].user>>] = p
      BY <1>0, <2>1, <2>2
    <2> QED
      BY <1>0, <2>1, <2>2, <2>3 DEF MemberHolds, Written
  <1>5. CASE upsertSuspendedUserStatus(p)
    <2>1. /\ pc[p] = "upsert" /\ pc'[p] = NextAction(req[p].acts \ {"SUSPEND_TARGET_USER"})
          /\ now' = now /\ row' = row /\ hist' = hist
          /\ req'[p].user = req[p].user /\ req'[p].at = req[p].at
          /\ req'[p].seen = req[p].seen
          /\ req'[p].write = SuspendedRow(row[req[p].user], req[p].at)
          /\ lock' = [k \in Held |-> IF k \in {<<"status", req[p].user>>} THEN p ELSE lock[k]]
      BY <1>0, <1>5, GotoHolds DEF upsertSuspendedUserStatus, Requests, Hold
    <2>2. req[p].user \in Members /\ lock[<<"user", req[p].user>>] = p
      BY <1>0, <2>1 DEF MemberHolds
    <2>3. lock'[<<"user", req[p].user>>] = p /\ lock'[<<"status", req[p].user>>] = p
      BY <1>0, <2>1, <2>2
    <2>4. pc'[p] \in {"delete", "decide"}
      <3>1. req[p].acts \ {"SUSPEND_TARGET_USER"} \in SUBSET Actions
        BY <1>0
      <3> QED
        BY <2>1, <3>1, NextActions
    <2> QED
      BY <1>0, <2>1, <2>2, <2>3, <2>4 DEF MemberHolds, Written
  <1>6. CASE softDeleteReportReportedContent(p)
    <2> DEFINE wipe == Wiped(req[p].report[2])
    <2>1. /\ pc[p] = "delete" /\ pc'[p] = "decide" /\ now' = now /\ row' = row /\ hist' = hist
          /\ req'[p].user = req[p].user /\ req'[p].at = req[p].at /\ req'[p].acts = req[p].acts
          /\ req'[p].seen = req[p].seen /\ req'[p].write = req[p].write
          /\ lock' = [k \in Held |-> IF k \in {"content"} \X wipe THEN p ELSE lock[k]]
      BY <1>0, <1>6, GotoHolds DEF softDeleteReportReportedContent, Requests, Hold
    <2> HIDE DEF wipe
    <2>2. \A m \in Members, k \in {"user", "status"} : lock'[<<k, m>>] = lock[<<k, m>>]
      BY <1>0, <2>1
    <2>3. Written(p)' <=> Written(p)
      BY <2>1 DEF Written, Suspending, Deciding
    <2> QED
      BY <1>0, <2>1, <2>2, <2>3 DEF MemberHolds
  <1>7. CASE rejectAdminReport(p)
    <2>1. pc'[p] = "idle" /\ req' = req /\ now' = now
      BY <1>7 DEF rejectAdminReport
    <2> QED
      BY <1>0, <2>1 DEF MemberHolds, Written, Suspending, Deciding
  <1>8. CASE changeAdminMemberStatus(p)
    <2>1. PICK m \in Members, t \in Arrived, new \in {"SUSPENDED", "ACTIVE"} :
             /\ lockAdminMemberForStatusChange(p, m) /\ now' = now /\ row' = row
             /\ Goto(p, "change", [Blank EXCEPT !.user = m, !.at = t, !.seen = row[m],
                       !.write = IF new = "ACTIVE" THEN Active ELSE Suspended(t + SuspendFor)])
      BY <1>8 DEF changeAdminMemberStatus
    <2> DEFINE b == [Blank EXCEPT !.user = m, !.at = t, !.seen = row[m],
                       !.write = IF new = "ACTIVE" THEN Active ELSE Suspended(t + SuspendFor)]
    <2>2. b.user = m /\ b.at = t /\ b.seen = row[m] /\ b.report = None /\ Goto(p, "change", b)
      BY <2>1 DEF Blank
    <2> HIDE DEF b
    <2>3. pc'[p] = "change" /\ req'[p] = b
      BY <1>0, <2>2, GotoHolds
    <2>4. lock'[<<"user", m>>] = p
      BY <1>0, <2>1 DEF lockAdminMemberForStatusChange, LockMember, Hold
    <2>5. t <= now'
      BY <2>1 DEF Arrived
    <2> QED
      BY <2>1, <2>2, <2>3, <2>4, <2>5 DEF MemberHolds, Written
  <1>9. CASE upsertAdminMemberStatus(p)
    <2>1. /\ pc[p] = "change" /\ pc'[p] = "commit" /\ req'[p] = req[p] /\ now' = now
          /\ row' = row /\ hist' = hist
          /\ lock' = [k \in Held |-> IF k \in {<<"status", req[p].user>>} THEN p ELSE lock[k]]
      BY <1>0, <1>9, GotoHolds DEF upsertAdminMemberStatus, Hold
    <2>2. req[p].user \in Members /\ lock[<<"user", req[p].user>>] = p
      BY <1>0, <2>1 DEF MemberHolds
    <2>3. lock'[<<"user", req[p].user>>] = p /\ lock'[<<"status", req[p].user>>] = p
      BY <1>0, <2>1, <2>2
    <2> QED
      BY <1>0, <2>1, <2>2, <2>3 DEF MemberHolds, Written
  <1>10. CASE findExpiredSuspendedStatuses(p)
    <2>1. PICK users : Goto(p, "release", [Blank EXCEPT !.users = users, !.at = now])
      BY <1>10 DEF findExpiredSuspendedStatuses
    <2>2. [Blank EXCEPT !.users = users, !.at = now].at = now
      BY DEF Blank
    <2>3. pc'[p] = "release" /\ req'[p].at = now /\ now' = now
      BY <1>0, <1>10, <2>1, <2>2, GotoHolds DEF findExpiredSuspendedStatuses
    <2> QED
      BY <1>0, <2>3 DEF MemberHolds, Written, DataType, Times
  <1>11. CASE activateUserStatusesByUserIds(p)
    <2>1. /\ pc'[p] = "released" /\ req'[p].users = ReleasedNow(p) /\ req'[p].at = req[p].at
          /\ now' = now /\ row' = row
          /\ lock' = [k \in Held |-> IF k \in {"status"} \X ReleasedNow(p) THEN p ELSE lock[k]]
      BY <1>0, <1>11, GotoHolds DEF activateUserStatusesByUserIds, Requests, Hold
    <2>2. ASSUME NEW n \in ReleasedNow(p)
          PROVE  lock'[<<"status", n>>] = p /\ Expired(n, req[p].at)
      <3>1. n \in Members /\ Expired(n, req[p].at)
        BY <1>0 DEF ReleasedNow, Requests
      <3> QED
        BY <1>0, <2>1, <3>1
    <2> QED
      BY <1>0, <2>1, <2>2 DEF MemberHolds, Written, Expired
  <1> QED
    BY <1>1, <1>2, <1>3, <1>4, <1>5, <1>6, <1>7, <1>8, <1>9, <1>10, <1>11 DEF Step,
       createUserReport, softDeleteOwn, updateAdminReportDecisionStatus, CommitMember,
       CommitRelease, Rollback

\* The invariant is inductive.
LEMMA InvStep == Inv /\ [Next]_vars => Inv'
  <1> SUFFICES ASSUME Inv, [Next]_vars PROVE Inv'
    OBVIOUS
  <1>1. ASSUME NEW p \in Procs, Step(p) PROVE Inv'
    <2>1. TypeOK'
      <3>1. DataType' /\ ControlType'
        BY <1>1, DataInv, ControlInv
      <3> QED
        BY <3>1, TypeParts DEF TypeOK, DataType, ControlType, States, Requests
    <2>2. StatusHistoryChains' /\ EntriesNamed'
      BY <1>1, ChainsInv, NamedInv
    <2>3. SanctionIsDecided'
      <3>1. (\A m \in Members : FollowsDecision(m)') /\ \A r \in Reports : IsDone(r)'
        BY <1>1, FollowsInv, DoneInv
      <3> QED
        BY <3>1 DEF SanctionIsDecided, FollowsDecision, IsDone
    <2>4. ReportsHeld'
      <3>1. \A q \in Procs : ReportHolds(q)'
        BY <1>1, OthersReport, OwnReport
      <3> QED
        BY <3>1 DEF ReportsHeld, ReportHolds
    <2>5. MembersHeld'
      <3>1. \A q \in Procs : MemberHolds(q)'
        BY <1>1, OthersMember, OwnMember
      <3> QED
        BY <3>1 DEF MembersHeld, MemberHolds, Written
    <2> QED
      BY <2>1, <2>2, <2>3, <2>4, <2>5 DEF Inv
  <1>2. CASE Tick
    <2>1. /\ now' \in Times /\ now <= now' /\ now \in Nat
          /\ UNCHANGED <<row, hist, gone, report, taken, lock, pc, req>>
      BY <1>2 DEF Tick, Inv, TypeOK, Times
    <2>2. TypeOK' /\ StatusHistoryChains' /\ EntriesNamed' /\ SanctionIsDecided'
      BY <2>1 DEF Inv, TypeOK, StatusHistoryChains, LastRow, EntriesNamed, SanctionIsDecided
    <2>3. ReportsHeld'
      BY <2>1 DEF Inv, ReportsHeld, Suspending
    <2>4. MembersHeld'
      <3>1. ASSUME NEW q \in Procs PROVE MemberHolds(q)'
        <4>1. MemberHolds(q)
          BY HoldsParts DEF Inv
        <4>2. req[q].at \in Nat
          BY TypeParts DEF Inv, ControlType, Requests, Times
        <4> QED
          BY <2>1, <4>1, <4>2 DEF MemberHolds, Written, Suspending, Expired, Times
      <3> QED
        BY <3>1 DEF MembersHeld, MemberHolds, Written
    <2> QED
      BY <2>2, <2>3, <2>4 DEF Inv
  <1>3. CASE UNCHANGED vars
    BY <1>3 DEF Inv, vars, TypeOK, StatusHistoryChains, LastRow, EntriesNamed, SanctionIsDecided,
       ReportsHeld, MembersHeld, Suspending, Expired
  <1> QED
    BY <1>1, <1>2, <1>3 DEF Next

\* The invariant holds for any members, contents, requests, terms and histories.
THEOREM InvHolds == Spec => []Inv
  BY InitInv, InvStep, PTL DEF Spec

\* The histories of a member are a record of its status, although the old status
\* an administrator's entry names was read before the job may have changed it.
THEOREM HistoriesChain == Spec => []StatusHistoryChains
  <1>1. Inv => StatusHistoryChains
    BY DEF Inv
  <1> QED
    BY <1>1, InvHolds, PTL

\* A report's sanctions stand or fall with its decision.
THEOREM SanctionsAreDecided == Spec => []SanctionIsDecided
  <1>1. Inv => SanctionIsDecided
    BY DEF Inv
  <1> QED
    BY <1>1, InvHolds, PTL

\* What the detail of a report offers is what a decision would accept and bring about.
THEOREM OffersAreEffective == Spec => []OfferedIsEffective
  <1>1. Inv => OfferedIsEffective
    <2> SUFFICES ASSUME NEW r \in Reports, NEW a \in Actions
                 PROVE  a \in toAvailableActions(r) <=> Effective(r, a)
      BY DEF OfferedIsEffective
    <2>1. r[2] \in Targets /\ Kind[r[2]] \in Kinds
      BY DEF Reports
    <2>2. Wiped(r[2]) # {} <=> r[2] \notin gone
      BY DEF Wiped, Thread
    <2>3. CASE a = "SUSPEND_TARGET_USER"
      BY <2>1, <2>3 DEF toAvailableActions, Effective, assertActionsAllowedForTarget,
         ALLOWED_ACTIONS_BY_TARGET, Actions
    <2>4. CASE a = "DELETE_REPORTED_CONTENT"
      BY <2>1, <2>2, <2>4 DEF toAvailableActions, Effective, assertActionsAllowedForTarget,
         ALLOWED_ACTIONS_BY_TARGET, Actions, Deletable, Kinds
    <2> QED
      BY <2>3, <2>4 DEF Actions
  <1> QED
    BY <1>1, InvHolds, PTL

\* A suspension lasts its term, or until an administrator ends it by hand.
THEOREM TermsAreKept == Spec => TermsKept
  <1>1. ASSUME Inv, Next PROVE \A m \in Members : TermKept(m)
    <2> SUFFICES ASSUME NEW m \in Members, row[m].s = "SUSPENDED", row'[m] # row[m]
                 PROVE  \/ hist'[m][Len(hist'[m])].by = "admin"
                        \/ row'[m].s = "SUSPENDED" /\ row'[m].until >= row[m].until
                        \/ row[m].until <= now
      BY DEF TermKept
    <2>1. PICK p \in Procs : Step(p)
      BY <1>1 DEF Next, Tick
    <2>2. PICK e \in Entries : /\ Changes(p, m, e)
                               /\ hist'[m] = Append(hist[m], e) /\ row'[m] = e.after
      BY <1>1, <2>1, HistoryMoves
    <2>3. /\ DataType /\ ControlType /\ MemberHolds(p) /\ row[m] \in Rows
          /\ req[p].at \in Times /\ row[m].until \in Nat
      <3>1. DataType /\ ControlType /\ MemberHolds(p)
        BY <1>1, TypeParts, HoldsParts DEF Inv
      <3> QED
        BY <3>1, RowsType DEF DataType, ControlType, Requests
    <2>4. hist'[m][Len(hist'[m])] = e
      BY <2>2, <2>3, Appended
    <2>5. CASE updateAdminReportDecisionStatus(p) /\ Suspending(p) /\ m = req[p].user
               /\ e.after = req[p].write
      <3>1. Written(p) /\ pc[p] # "commit"
        BY <2>5 DEF Written, updateAdminReportDecisionStatus
      <3>2. row'[m] = SuspendedRow(row[m], req[p].at)
        BY <2>2, <2>3, <2>5, <3>1 DEF MemberHolds
      <3> QED
        BY <2>3, <3>2, LaterEndKept
    <2>6. CASE e.by = "admin"
      BY <2>4, <2>6
    <2>7. CASE CommitRelease(p) /\ m \in req[p].users
      <3>1. Expired(m, req[p].at) /\ req[p].at <= now
        BY <2>3, <2>7 DEF MemberHolds, CommitRelease
      <3> QED
        BY <2>3, <3>1 DEF Expired, DataType, Times
    <2> QED
      BY <2>2, <2>5, <2>6, <2>7 DEF Changes
  <1>3. Inv /\ [Next]_vars => [\A m \in Members : TermKept(m)]_vars
    BY <1>1
  <1> QED
    BY <1>3, InvHolds, PTL DEF Spec, TermsKept
=============================================================================
