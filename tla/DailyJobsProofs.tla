--------------------------- MODULE DailyJobsProofs ---------------------------
(***************************************************************************)
(* Proofs about DailyJobs: Notices, for any number of moves, handlers and  *)
(* connections and any bounds on calls and stops, and ImageObjects, for    *)
(* any keys, posts and handlers.                                           *)
(*                                                                         *)
(* A call of Notices is a record that several fields of change at once, so *)
(* first come lemmas that say what each action makes of its caller's       *)
(* record (Becomes); each part of the invariant is then kept action by     *)
(* action, most of them by a lemma on steps that do not touch it (Quiet..).*)
(***************************************************************************)
EXTENDS DailyJobs, FiniteSetTheorems, SequenceTheorems, TLAPS

\* Notices brings its own copy of FiniteSets through the instance.
LEMMA SameCardinality == \A S : N!Cardinality(S) = Cardinality(S)
  BY DEF N!Cardinality, Cardinality

\* A caller's next step; the others stay where they are.
Becomes(c, k) ==
    /\ call'[c] = k /\ k \in N!Calls
    /\ call' \in [N!Callers -> N!Calls]
    /\ \A d \in N!Callers : d # c => call'[d] = call[d]

LEMMA Becoming ==
    ASSUME N!TypeOK, NEW c \in N!Callers, NEW k \in N!Calls, call' = [call EXCEPT ![c] = k]
    PROVE  Becomes(c, k)
  BY DEF N!TypeOK, Becomes

LEMMA CallRecords ==
    ASSUME NEW a \in N!Steps, NEW t \in N!Users \cup {None}, NEW y \in N!NotificationType \cup {None},
           NEW s \in N!Subjects, NEW m \in Nat
    PROVE  [at |-> a, to |-> t, type |-> y, about |-> s, n |-> m] \in N!Calls
  BY DEF N!Calls

With(x, a, m) == [x EXCEPT !.at = a, !.n = m]
LEMMA CallExcept ==
    ASSUME NEW x \in N!Calls, NEW a
    PROVE  [x EXCEPT !.at = a] = [at |-> a, to |-> x.to, type |-> x.type, about |-> x.about, n |-> x.n]
  BY DEF N!Calls

LEMMA WithIs ==
    ASSUME NEW x \in N!Calls, NEW a, NEW m
    PROVE  With(x, a, m) = [at |-> a, to |-> x.to, type |-> x.type, about |-> x.about, n |-> m]
  <1> DEFINE y == [x EXCEPT !.at = a, !.n = m]
             z == [at |-> a, to |-> x.to, type |-> x.type, about |-> x.about, n |-> m]
  <1>1. DOMAIN x = {"at", "to", "type", "about", "n"} /\ x = [f \in DOMAIN x |-> x[f]]
    BY DEF N!Calls
  <1>3. y = [f \in DOMAIN x |-> y[f]]
    BY <1>1
  <1>4. y.at = a /\ y.to = x.to /\ y.type = x.type /\ y.about = x.about /\ y.n = m
    BY <1>1
  <1>5. z = [f \in {"at", "to", "type", "about", "n"} |-> z[f]]
    OBVIOUS
  <1>6. z.at = a /\ z.to = x.to /\ z.type = x.type /\ z.about = x.about /\ z.n = m
    OBVIOUS
  <1> HIDE DEF y, z
  <1>7. \A f \in DOMAIN x : y[f] = z[f]
    BY <1>1, <1>4, <1>6
  <1>8. y = z
    BY <1>1, <1>3, <1>5, <1>7
  <1> QED
    BY <1>8 DEF y, z, With

LEMMA CallFields ==
    ASSUME N!TypeOK, NEW c \in N!Callers
    PROVE  /\ call[c] \in N!Calls
           /\ call[c].at \in N!Steps /\ call[c].to \in N!Users \cup {None}
           /\ call[c].type \in N!NotificationType \cup {None}
           /\ call[c].about \in N!Subjects /\ call[c].n \in Nat
  BY DEF N!TypeOK, N!Calls

LEMMA NewCalls ==
    /\ N!Idle \in N!Calls /\ N!NextMove \in N!Calls /\ N!Turn("targets", None, None, None) \in N!Calls
    /\ \A m \in Moves, u \in N!Users : N!Reminder(m, u) \in N!Calls
  BY DEF N!Calls, N!Idle, N!NextMove, N!Reminder, N!Turn, N!ReminderType, N!Steps, N!Subjects, N!Users, N!NotificationType

LEMMA Known == /\ N!Jobs \subseteq N!Callers /\ Handlers \subseteq N!Callers
               /\ "boot" \in N!Jobs /\ "cron" \in N!Jobs
               /\ "customer" \in N!Users /\ "mover" \in N!Users
  BY DEF N!Callers, N!Jobs, N!Users

LEMMA NoticesLen ==
    ASSUME N!TypeOK
    PROVE  /\ Len(notices) \in Nat /\ DOMAIN notices = 1..Len(notices)
           /\ Len(reviews) \in Nat /\ DOMAIN reviews = 1..Len(reviews)
           /\ \A i \in DOMAIN notices : notices[i] \in [to : N!Users, type : N!NotificationType, about : N!Subjects, read : BOOLEAN]
           /\ \A r \in DOMAIN reviews : reviews[r] \in [move : Moves, rating : 1..5, live : BOOLEAN]
  <1> DEFINE Notice == [to : N!Users, type : N!NotificationType, about : N!Subjects, read : BOOLEAN]
             R == [move : Moves, rating : 1..5, live : BOOLEAN]
  <1>1. notices \in Seq(Notice) /\ reviews \in Seq(R)
    BY DEF N!TypeOK
  <1> HIDE DEF Notice, R
  <1>2. /\ Len(notices) \in Nat /\ DOMAIN notices = 1..Len(notices)
        /\ Len(reviews) \in Nat /\ DOMAIN reviews = 1..Len(reviews)
        /\ \A i \in DOMAIN notices : notices[i] \in Notice
        /\ \A r \in DOMAIN reviews : reviews[r] \in R
    BY <1>1, LenProperties, ElementOfSeq
  <1> QED
    BY <1>2 DEF Notice, R

-----------------------------------------------------------------------------
(* What the steps of a caller change. *)
LEMMA CreateStep ==
    ASSUME N!TypeOK, N!CallersFit, NEW c \in N!Callers, N!createNotification(c)
    PROVE  /\ call[c].at = "write" /\ call[c].to \in N!Users /\ call[c].type \in N!NotificationType
           /\ Becomes(c, [at |-> "push", to |-> call[c].to, type |-> call[c].type,
                          about |-> call[c].about, n |-> Len(notices) + 1])
           /\ notices' \in Seq([to : N!Users, type : N!NotificationType, about : N!Subjects, read : BOOLEAN])
           /\ Len(notices') = Len(notices) + 1 /\ DOMAIN notices' = 1..Len(notices) + 1
           /\ \A i \in DOMAIN notices : notices'[i] = notices[i]
           /\ notices'[Len(notices) + 1] =
                [to |-> call[c].to, type |-> call[c].type, about |-> call[c].about, read |-> FALSE]
  <1> DEFINE S == [to : N!Users, type : N!NotificationType, about : N!Subjects, read : BOOLEAN]
             e == [to |-> call[c].to, type |-> call[c].type, about |-> call[c].about, read |-> FALSE]
             k == [at |-> "push", to |-> call[c].to, type |-> call[c].type,
                   about |-> call[c].about, n |-> Len(notices) + 1]
  <1>1. call[c].at = "write" /\ notices' = Append(notices, e)
        /\ call' = [call EXCEPT ![c].at = "push", ![c].n = Len(notices')]
    BY DEF N!createNotification
  <1>2. call[c].to \in N!Users /\ call[c].type \in N!NotificationType
    <2>1. CASE c \in N!Jobs
      BY <1>1, <2>1 DEF N!CallersFit, N!RunsRemind, N!ReminderType, N!NotificationType
    <2>2. CASE c \in Handlers
      BY <1>1, <2>2, CallFields DEF N!CallersFit, N!CallsTell
    <2> QED
      BY <2>1, <2>2 DEF N!Callers
  <1>3. e \in S
    BY <1>2, CallFields
  <1>4. /\ notices' \in Seq(S) /\ Len(notices') = Len(notices) + 1
        /\ DOMAIN notices' = 1..Len(notices')
        /\ \A i \in 1..Len(notices) : notices'[i] = notices[i]
        /\ notices'[Len(notices) + 1] = e
    BY <1>1, <1>3, AppendProperties, LenProperties DEF N!TypeOK
  <1>5. k \in N!Calls
    BY <1>2, CallFields, NoticesLen, CallRecords DEF N!Steps
  <1>6. With(call[c], "push", Len(notices) + 1) = k
    <2>1. call[c] \in N!Calls
      BY CallFields
    <2> QED
      BY <2>1, WithIs, Zenon
  <1>7. call' = [call EXCEPT ![c] = k]
    BY <1>1, <1>4, <1>6 DEF With
  <1> QED
    BY <1>1, <1>2, <1>4, <1>5, <1>7, Becoming, NoticesLen

LEMMA PublishStep ==
    ASSUME N!TypeOK, NEW c \in N!Callers, N!publishNotification(c)
    PROVE  /\ call[c].at = "push"
           /\ Becomes(c, [at |-> "count", to |-> call[c].to, type |-> call[c].type,
                          about |-> call[c].about, n |-> call[c].n])
  <1>1. call' = [call EXCEPT ![c] = [call[c] EXCEPT !.at = "count"]] /\ call[c].at = "push"
    BY DEF N!publishNotification
  <1>2. [call[c] EXCEPT !.at = "count"] = [at |-> "count", to |-> call[c].to, type |-> call[c].type,
                          about |-> call[c].about, n |-> call[c].n]
        /\ [call[c] EXCEPT !.at = "count"] \in N!Calls
    <2>1. call[c] \in N!Calls
      BY CallFields
    <2>2. [call[c] EXCEPT !.at = "count"] = [at |-> "count", to |-> call[c].to, type |-> call[c].type,
                          about |-> call[c].about, n |-> call[c].n]
      BY <2>1, CallExcept, Zenon
    <2>3. [at |-> "count", to |-> call[c].to, type |-> call[c].type,
                          about |-> call[c].about, n |-> call[c].n] \in N!Calls
      BY CallFields, CallRecords DEF N!Steps
    <2> QED
      BY <2>2, <2>3
  <1> QED
    BY <1>1, <1>2, Becoming

LEMMA UnreadIsNat == ASSUME N!TypeOK, NEW u PROVE N!Unread(u) \in Nat
  <1>1. IsFiniteSet({i \in DOMAIN notices : notices[i].to = u /\ ~notices[i].read})
    <2>1. IsFiniteSet(1..Len(notices)) /\ DOMAIN notices = 1..Len(notices)
      BY NoticesLen, FS_Interval
    <2> QED
      BY <2>1, FS_Subset
  <1> QED
    BY <1>1, FS_CardinalityType, SameCardinality DEF N!Unread

LEMMA UnreadNext ==
    ASSUME notices' \in Seq([to : N!Users, type : N!NotificationType, about : N!Subjects, read : BOOLEAN]),
           NEW u
    PROVE  N!Unread(u)' \in Nat
  <1>1. IsFiniteSet(1..Len(notices')) /\ DOMAIN notices' = 1..Len(notices')
    BY LenProperties, FS_Interval
  <1>2. IsFiniteSet({i \in DOMAIN notices' : notices'[i].to = u /\ ~notices'[i].read})
    BY <1>1, FS_Subset
  <1> QED
    BY <1>2, FS_CardinalityType, SameCardinality DEF N!Unread

\* A write of u's rows adds the count they have then.
LEMMA OverlapStep ==
    ASSUME N!TypeOK, NEW u \in N!Users, N!Overlap(u),
           notices' \in Seq([to : N!Users, type : N!NotificationType, about : N!Subjects, read : BOOLEAN])
    PROVE  /\ counts' \in [N!Users -> SUBSET Nat]
           /\ N!Unread(u)' \in counts'[u]
           /\ N!Sending(u) # {} => counts[u] \subseteq counts'[u]
           /\ \A v \in N!Users : v # u => counts'[v] = counts[v]
  <1>1. PICK n \in Nat : n = N!Unread(u)'
    BY UnreadNext
  <1>2. /\ counts' = [counts EXCEPT ![u] = (IF N!Sending(u) = {} THEN {} ELSE @) \cup {n}]
        /\ counts \in [N!Users -> SUBSET Nat]
    BY <1>1 DEF N!Overlap, N!TypeOK
  <1> QED
    BY <1>1, <1>2

LEMMA CountStep ==
    ASSUME N!TypeOK, NEW c \in N!Callers, N!countUnreadByReceiver(c)
    PROVE  /\ call[c].at = "count"
           /\ Becomes(c, [at |-> "tell", to |-> call[c].to, type |-> call[c].type,
                          about |-> call[c].about, n |-> N!Unread(call[c].to)])
  <1> DEFINE x == N!Unread(call[c].to)
  <1>0. x \in Nat
    BY UnreadIsNat
  <1>1. call' = [call EXCEPT ![c].at = "tell", ![c].n = x] /\ call[c].at = "count"
    BY DEF N!countUnreadByReceiver
  <1> HIDE DEF x
  <1>2. With(call[c], "tell", x) = [at |-> "tell", to |-> call[c].to, type |-> call[c].type,
                          about |-> call[c].about, n |-> x]
        /\ With(call[c], "tell", x) \in N!Calls
    <2>1. call[c] \in N!Calls
      BY CallFields
    <2>2. With(call[c], "tell", x) = [at |-> "tell", to |-> call[c].to, type |-> call[c].type,
                          about |-> call[c].about, n |-> x]
      BY <2>1, WithIs, Zenon
    <2>3. [at |-> "tell", to |-> call[c].to, type |-> call[c].type,
                          about |-> call[c].about, n |-> x] \in N!Calls
      BY <1>0, CallFields, CallRecords DEF N!Steps
    <2> QED
      BY <2>2, <2>3
  <1>3. call' = [call EXCEPT ![c] = With(call[c], "tell", x)]
    BY <1>1 DEF With
  <1> QED
    BY <1>1, <1>2, <1>3, Becoming DEF x

LEMMA AfterIs ==
    ASSUME N!TypeOK, N!CallersFit, N!ConstantsApart, NEW c \in N!Callers, call[c].at \in {"look"} \cup N!Telling
    PROVE  /\ c \in Handlers => c \notin N!Jobs /\ N!After(c) = N!Idle
           /\ c \in N!Jobs => /\ call[c].about \in Moves /\ call[c].to \in N!Users
                              /\ call[c].to = "customer" => N!After(c) = N!Reminder(call[c].about, "mover")
                              /\ call[c].to = "mover" => N!After(c) = N!NextMove
           /\ N!After(c) \in N!Calls
  BY NewCalls DEF N!After, N!CallersFit, N!RunsRemind, N!ConstantsApart, N!Users, N!Callers

LEMMA TellStep ==
    ASSUME N!TypeOK, N!CallersFit, N!ConstantsApart, NEW c \in N!Callers, N!publishUnreadCount(c)
    PROVE  call[c].at = "tell" /\ Becomes(c, N!After(c))
  BY AfterIs, Becoming DEF N!publishUnreadCount, N!Telling

LEMMA FailStep ==
    ASSUME N!TypeOK, N!ConstantsApart, NEW c \in N!Callers, N!Fail(c)
    PROVE  /\ call[c].at \in {"targets", "look", "context", "write", "count"}
           /\ c \in Handlers => c \notin N!Jobs /\ Becomes(c, N!Idle)
           /\ c \in N!Jobs => Becomes(c, IF call[c].at = "targets" THEN N!Idle ELSE N!NextMove)
  BY NewCalls, Becoming DEF N!Fail, N!ConstantsApart

LEMMA JobSteps ==
    ASSUME N!TypeOK, N!CallersFit, N!ConstantsApart, NEW j \in N!Jobs
    PROVE  /\ N!findConfirmedMovesOnDate(j) => Becomes(j, N!NextMove)
           /\ N!runMoveDayReminderJob(j) => \/ todo[j] = {} /\ UNCHANGED todo /\ Becomes(j, N!Idle)
                                            \/ \E m \in todo[j] : /\ m \in Moves
                                                                  /\ todo' = [todo EXCEPT ![j] = @ \ {m}]
                                                                  /\ Becomes(j, N!Reminder(m, "customer"))
  <1>1. j \in N!Callers /\ \A m \in todo[j] : m \in Moves
    BY Known DEF N!TypeOK
  <1> QED
    BY <1>1, NewCalls, Known, Becoming DEF N!findConfirmedMovesOnDate, N!runMoveDayReminderJob

LEMMA LookStep ==
    ASSUME N!TypeOK, N!CallersFit, N!ConstantsApart, NEW j \in N!Jobs, N!createMoveDayReminderIfAbsent(j)
    PROVE  /\ call[j].at = "look"
           /\ \/ N!existsByReceiverTypeAndEstimate(call[j]) /\ Becomes(j, N!After(j))
              \/ /\ ~N!existsByReceiverTypeAndEstimate(call[j])
                 /\ Becomes(j, [at |-> "write", to |-> call[j].to, type |-> call[j].type,
                                about |-> call[j].about, n |-> call[j].n])
  <1>1. j \in N!Callers
    BY Known
  <1>2. [call[j] EXCEPT !.at = "write"] = [at |-> "write", to |-> call[j].to, type |-> call[j].type,
                          about |-> call[j].about, n |-> call[j].n]
        /\ [call[j] EXCEPT !.at = "write"] \in N!Calls
    <2>1. call[j] \in N!Calls
      BY <1>1, CallFields
    <2>2. [call[j] EXCEPT !.at = "write"] = [at |-> "write", to |-> call[j].to, type |-> call[j].type,
                          about |-> call[j].about, n |-> call[j].n]
      BY <2>1, CallExcept, Zenon
    <2>3. [at |-> "write", to |-> call[j].to, type |-> call[j].type,
                          about |-> call[j].about, n |-> call[j].n] \in N!Calls
      BY <1>1, CallFields, CallRecords DEF N!Steps
    <2> QED
      BY <2>2, <2>3
  <1>3. call[j].at = "look"
        /\ call' = [call EXCEPT ![j] = IF N!existsByReceiverTypeAndEstimate(call[j]) THEN N!After(j) ELSE [call[j] EXCEPT !.at = "write"]]
    BY <1>1 DEF N!createMoveDayReminderIfAbsent, N!TypeOK
  <1>4. N!After(j) \in N!Calls
    BY <1>1, <1>3, AfterIs
  <1> QED
    BY <1>1, <1>2, <1>3, <1>4, Becoming
LEMMA CreateReviewStep ==
    ASSUME N!TypeOK, NEW h \in Handlers, NEW m \in Moves, N!createReview(h, m)
    PROVE  /\ call[h].at = "idle" /\ server = "up"
           /\ Becomes(h, N!Turn("insert", None, None, m))
  <1>1. N!Turn("insert", None, None, m) \in N!Calls
    BY CallRecords DEF N!Turn, N!Steps, N!Subjects
  <1> QED
    BY <1>1, Known, Becoming DEF N!createReview, N!Begins, N!Called

LEMMA InsertReviewStep ==
    ASSUME N!TypeOK, N!CallersFit, NEW h \in Handlers, N!insertReview(h)
    PROVE  /\ call[h].at = "insert" /\ call[h].about \in Moves /\ call[h].type = None
           /\ \/ Becomes(h, N!Idle) /\ reviews' = reviews
              \/ /\ N!LiveReviews(call[h].about) = {}
                 /\ Becomes(h, N!Turn("context", None, "REVIEW_WRITTEN", Len(reviews) + 1))
                 /\ reviews' \in Seq([move : Moves, rating : 1..5, live : BOOLEAN])
                 /\ Len(reviews') = Len(reviews) + 1 /\ DOMAIN reviews' = 1..Len(reviews) + 1
                 /\ \A r \in DOMAIN reviews : reviews'[r] = reviews[r]
                 /\ reviews'[Len(reviews) + 1] = [move |-> call[h].about, rating |-> 5, live |-> TRUE]
  <1> DEFINE R == [move : Moves, rating : 1..5, live : BOOLEAN]
             e == [move |-> call[h].about, rating |-> 5, live |-> TRUE]
             k == N!Turn("context", None, "REVIEW_WRITTEN", Len(reviews) + 1)
  <1>1. call[h].at = "insert" /\ call[h].about \in Moves /\ call[h].type = None
    BY DEF N!insertReview, N!CallersFit, N!CallsTell
  <1>2. CASE N!LiveReviews(call[h].about) # {}
    BY <1>1, <1>2, NewCalls, Known, Becoming DEF N!insertReview
  <1>3. CASE N!LiveReviews(call[h].about) = {}
    <2>1. /\ reviews' = Append(reviews, e)
          /\ call' = [call EXCEPT ![h] = N!Turn("context", None, "REVIEW_WRITTEN", Len(reviews'))]
      BY <1>3 DEF N!insertReview
    <2>2. e \in R
      BY <1>1
    <2>3. /\ reviews' \in Seq(R) /\ Len(reviews') = Len(reviews) + 1
          /\ DOMAIN reviews' = 1..Len(reviews')
          /\ \A i \in 1..Len(reviews) : reviews'[i] = reviews[i]
          /\ reviews'[Len(reviews) + 1] = e
      BY <2>1, <2>2, AppendProperties, LenProperties DEF N!TypeOK
    <2>4. k \in N!Calls
      <3>1. Len(reviews) + 1 \in N!Subjects /\ 0 \in Nat
        BY NoticesLen DEF N!Subjects
      <3>2. "context" \in N!Steps /\ "REVIEW_WRITTEN" \in N!NotificationType \cup {None} /\ None \in N!Users \cup {None}
        BY DEF N!Steps, N!NotificationType
      <3> QED
        BY <3>1, <3>2 DEF N!Turn, N!Calls
    <2> QED
      BY <1>1, <1>3, <2>1, <2>3, <2>4, Known, Becoming, NoticesLen
  <1> QED
    BY <1>2, <1>3

LEMMA ContextStep ==
    ASSUME N!TypeOK, N!CallersFit, NEW h \in Handlers, N!findReviewWrittenNotificationContext(h)
    PROVE  /\ call[h].at = "context" /\ call[h].type = "REVIEW_WRITTEN" /\ call[h].about \in DOMAIN reviews
           /\ \/ ~reviews[call[h].about].live /\ Becomes(h, N!Idle)
              \/ Becomes(h, N!Turn("write", "mover", "REVIEW_WRITTEN", call[h].about))
  <1> DEFINE k == N!Turn("write", "mover", "REVIEW_WRITTEN", call[h].about)
  <1>1. call[h].at = "context" /\ call[h].type = "REVIEW_WRITTEN" /\ call[h].about \in DOMAIN reviews
    BY DEF N!findReviewWrittenNotificationContext, N!CallersFit, N!CallsTell
  <1>2. h \in N!Callers
    BY Known
  <1>3. k \in N!Calls
    BY <1>2, CallFields, CallRecords DEF N!Turn, N!Steps, N!Users, N!NotificationType
  <1>4. call' = [call EXCEPT ![h] = IF reviews[call[h].about].live THEN k ELSE N!Idle]
    BY <1>2 DEF N!findReviewWrittenNotificationContext, N!TypeOK
  <1> QED
    BY <1>1, <1>2, <1>3, <1>4, NewCalls, Becoming

LEMMA CommunityStep ==
    ASSUME N!TypeOK, NEW h \in Handlers, N!notifyCommunityCommentOrReply(h)
    PROVE  /\ call[h].at = "idle" /\ server = "up"
           /\ \E u \in N!Users, y \in {"COMMUNITY_COMMENT", "COMMUNITY_REPLY"} :
                Becomes(h, N!Turn("write", u, y, None))
  <1>1. PICK u \in N!Users, y \in {"COMMUNITY_COMMENT", "COMMUNITY_REPLY"} :
          call' = [call EXCEPT ![h] = N!Turn("write", u, y, None)]
    <2>1. PICK author \in N!Users, postAuthor \in N!Users, parentAuthor \in N!Users \cup {None} :
            /\ N!CommunityReceiver(author, postAuthor, parentAuthor) # None
            /\ call' = [call EXCEPT ![h] = N!Turn("write",
                  N!CommunityReceiver(author, postAuthor, parentAuthor),
                  IF parentAuthor = None THEN "COMMUNITY_COMMENT" ELSE "COMMUNITY_REPLY", None)]
      BY DEF N!notifyCommunityCommentOrReply
    <2>2. N!CommunityReceiver(author, postAuthor, parentAuthor) \in N!Users
      BY <2>1 DEF N!CommunityReceiver
    <2> QED
      BY <2>1, <2>2
  <1>2. N!Turn("write", u, y, None) \in N!Calls
    BY CallRecords DEF N!Turn, N!Steps, N!Subjects, N!NotificationType
  <1> QED
    BY <1>1, <1>2, Known, Becoming DEF N!notifyCommunityCommentOrReply, N!Begins, N!Called

LEMMA MarkStep ==
    ASSUME N!TypeOK, NEW h \in Handlers, NEW i \in DOMAIN notices, N!markNotificationAsRead(h, i)
    PROVE  /\ call[h].at = "idle" /\ server = "up"
           /\ Becomes(h, N!Turn("count", notices[i].to, None, None))
           /\ notices' \in Seq([to : N!Users, type : N!NotificationType, about : N!Subjects, read : BOOLEAN])
           /\ Len(notices') = Len(notices) /\ DOMAIN notices' = DOMAIN notices
           /\ \A k \in DOMAIN notices : k # i => notices'[k] = notices[k]
           /\ notices'[i].to = notices[i].to /\ notices'[i].type = notices[i].type
           /\ notices'[i].about = notices[i].about /\ notices'[i].read = TRUE
  <1> DEFINE Notice == [to : N!Users, type : N!NotificationType, about : N!Subjects, read : BOOLEAN]
             e == [notices[i] EXCEPT !.read = TRUE]
             k == N!Turn("count", notices[i].to, None, None)
  <1>1. notices' = [notices EXCEPT ![i] = e]
    BY DEF N!markNotificationAsRead
  <1>2. e \in Notice /\ notices[i] \in Notice
    BY NoticesLen
  <1>3. notices \in Seq(Notice)
    BY DEF N!TypeOK
  <1>4. notices' \in Seq(Notice) /\ Len(notices') = Len(notices) /\ DOMAIN notices' = DOMAIN notices
    <2> HIDE DEF Notice, e
    <2> QED
      BY <1>1, <1>2, <1>3, ExceptSeq, LenProperties
  <1>5. /\ \A l \in DOMAIN notices : l # i => notices'[l] = notices[l]
        /\ notices'[i] = e
    BY <1>1
  <1>6. e.to = notices[i].to /\ e.type = notices[i].type /\ e.about = notices[i].about /\ e.read = TRUE
    BY <1>2
  <1>7. k \in N!Calls
    BY <1>2, CallRecords DEF N!Turn, N!Steps, N!Subjects
  <1>8. call[h].at = "idle" /\ server = "up" /\ call' = [call EXCEPT ![h] = k]
    BY DEF N!markNotificationAsRead, N!Begins, N!Called
  <1> QED
    BY <1>4, <1>5, <1>6, <1>7, <1>8, Known, Becoming
LEMMA StartStep ==
    ASSUME N!TypeOK, NEW j \in N!Jobs, N!startRun(j)
    PROVE  Becomes(j, N!Turn("targets", None, None, None)) /\ overlapped' = (overlapped \/ N!Running # {})
  BY Known, NewCalls, Becoming DEF N!startRun

LEMMA StopStep ==
    ASSUME N!TypeOK, N!Stop
    PROVE  /\ call' \in [N!Callers -> N!Calls] /\ \A c \in N!Callers : call'[c] = N!Idle
           /\ server' = "down" /\ UNCHANGED <<reviews, clock, cronRan, due, confirmed, notices, overlapped, failed>>
           /\ \A u \in N!Users : streams'[u] = {}
           /\ \A s \in Conns : client'[s] = N!NoClient
  BY NewCalls DEF N!Stop

\* Whose rows are written.
LEMMA WritesOf ==
    ASSUME N!TypeOK, N!CallersFit
    PROVE  /\ \A c \in N!Callers : N!createNotification(c) =>
                 \E u \in N!Users : u = call[c].to /\ N!Overlap(u)
           /\ \A h \in Handlers : \A i \in DOMAIN notices : N!markNotificationAsRead(h, i) =>
                 \E u \in N!Users : u = notices[i].to /\ N!Overlap(u)
  <1>1. ASSUME NEW c \in N!Callers, N!createNotification(c)
        PROVE  \E u \in N!Users : u = call[c].to /\ N!Overlap(u)
    <2>1. PICK u \in N!Users : u = call[c].to
      BY <1>1, CreateStep
    <2>2. PICK k : k = [at |-> "push", to |-> call[c].to, type |-> call[c].type,
                        about |-> call[c].about, n |-> Len(notices) + 1]
      OBVIOUS
    <2>3. Becomes(c, k)
      BY <1>1, <2>2, CreateStep
    <2>4. call'[c].to = u
      BY <2>1, <2>2, <2>3 DEF Becomes
    <2> QED
      BY <1>1, <2>1, <2>4 DEF N!createNotification, N!Overlap
  <1>2. ASSUME NEW h \in Handlers, NEW i \in DOMAIN notices, N!markNotificationAsRead(h, i)
        PROVE  \E u \in N!Users : u = notices[i].to /\ N!Overlap(u)
    <2>1. PICK u \in N!Users : u = notices[i].to
      BY NoticesLen
    <2>2. notices'[i].to = u
      BY <1>2, <2>1, MarkStep
    <2> QED
      BY <1>2, <2>1, <2>2 DEF N!markNotificationAsRead, N!Overlap
  <1> QED
    BY <1>1, <1>2

-----------------------------------------------------------------------------
(* Types. *)
LEMMA CallerTypes ==
    ASSUME N!TypeOK, N!CallersFit, N!ConstantsApart, NEW c \in N!Callers,
           \/ N!createNotification(c) \/ N!publishNotification(c)
           \/ N!countUnreadByReceiver(c) \/ N!publishUnreadCount(c) \/ N!Fail(c)
    PROVE  N!TypeOK'
  <1>0. call[c].n \in Nat /\ call[c].to \in N!Users \cup {None}
    BY CallFields
  <1>1. CASE N!createNotification(c)
    <2>1. counts' \in [N!Users -> SUBSET Nat]
      <3>1. PICK u \in N!Users : N!Overlap(u)
        BY <1>1, WritesOf
      <3> QED
        BY <1>1, <3>1, CreateStep, OverlapStep
    <2> QED
      BY <1>1, <2>1, CreateStep DEF N!TypeOK, N!createNotification, N!day, N!sockets, N!runs, Becomes
  <1>2. CASE N!publishNotification(c)
    <2>1. client' \in [Conns -> [user : N!Users \cup {None}, loaded : BOOLEAN, knows : SUBSET Nat,
                                 count : Nat \cup {None}]]
      BY <1>0, <1>2 DEF N!TypeOK, N!publishNotification
    <2> QED
      BY <1>2, <2>1, PublishStep DEF N!TypeOK, N!publishNotification, N!day, N!runs, Becomes
  <1>3. CASE N!countUnreadByReceiver(c)
    BY <1>3, CountStep DEF N!TypeOK, N!countUnreadByReceiver, N!day, N!sockets, N!runs, Becomes
  <1>4. CASE N!publishUnreadCount(c)
    <2>1. client' \in [Conns -> [user : N!Users \cup {None}, loaded : BOOLEAN, knows : SUBSET Nat,
                                 count : Nat \cup {None}]]
      BY <1>0, <1>4 DEF N!TypeOK, N!publishUnreadCount
    <2> QED
      BY <1>4, <2>1, TellStep DEF N!TypeOK, N!publishUnreadCount, N!day, N!runs, Becomes
  <1>5. CASE N!Fail(c)
    <2>1. failed' \subseteq Moves
      BY <1>5 DEF N!TypeOK, N!Fail, N!CallersFit, N!RunsRemind, N!Telling
    <2>2. counts' \in [N!Users -> SUBSET Nat]
      <3>1. c \in N!Jobs /\ call[c].at = "count" => call[c].to \in N!Users
        BY DEF N!CallersFit, N!RunsRemind, N!Telling
      <3>2. c \in Handlers /\ call[c].at = "count" => call[c].to \in N!Users
        BY DEF N!CallersFit, N!CallsTell, N!Telling
      <3>3. CASE call[c].at # "count"
        BY <1>5, <3>3 DEF N!TypeOK, N!Fail
      <3>4. CASE call[c].at = "count"
        <4>1. PICK u \in N!Users : u = call[c].to
          BY <3>1, <3>2, <3>4 DEF N!Callers
        <4>2. streams[u] \subseteq Conns /\ \A s \in Conns : client[s].count \in Nat \cup {None}
          BY DEF N!TypeOK
        <4>3. PICK S : S = {client[s].count : s \in streams[u]} \ {None}
          OBVIOUS
        <4>4. S \subseteq Nat
          BY <4>2, <4>3
        <4>5. counts' = [counts EXCEPT ![u] = @ \cup S]
          BY <1>5, <3>4, <4>1, <4>3 DEF N!Fail
        <4> QED
          BY <4>4, <4>5 DEF N!TypeOK
      <3> QED
        BY <3>3, <3>4
    <2> QED
      BY <1>5, <2>1, <2>2, FailStep DEF N!TypeOK, N!Fail, N!day, N!sockets, N!runs, Becomes, N!Callers
  <1> QED
    BY <1>1, <1>2, <1>3, <1>4, <1>5

LEMMA RunTypes ==
    ASSUME N!TypeOK, N!CallersFit, N!ConstantsApart, NEW j \in N!Jobs,
           \/ N!findConfirmedMovesOnDate(j) \/ N!runMoveDayReminderJob(j) \/ N!createMoveDayReminderIfAbsent(j)
    PROVE  N!TypeOK'
  <1>1. CASE N!findConfirmedMovesOnDate(j)
    BY <1>1, JobSteps DEF N!TypeOK, N!findConfirmedMovesOnDate, N!day, N!sockets, Becomes
  <1>2. CASE N!runMoveDayReminderJob(j)
    BY <1>2, JobSteps DEF N!TypeOK, N!runMoveDayReminderJob, N!day, N!sockets, Becomes
  <1>3. CASE N!createMoveDayReminderIfAbsent(j)
    BY <1>3, LookStep DEF N!TypeOK, N!createMoveDayReminderIfAbsent, N!day, N!sockets, N!runs, Becomes
  <1> QED
    BY <1>1, <1>2, <1>3

LEMMA ServerTypes ==
    ASSUME N!TypeOK, N!CallersFit, N!Cron \/ N!Boot \/ N!Stop \/ N!Tick \/ \E m \in Moves : N!Confirm(m)
    PROVE  N!TypeOK'
  <1>1. CASE N!Cron
    BY <1>1, Known, StartStep DEF N!TypeOK, N!Cron, N!sockets, Becomes
  <1>2. CASE N!Boot
    BY <1>2, Known, StartStep DEF N!TypeOK, N!Boot, N!day, N!sockets, Becomes
  <1>3. CASE N!Stop
    <2>1. N!NoClient \in [user : N!Users \cup {None}, loaded : BOOLEAN, knows : SUBSET Nat, count : Nat \cup {None}]
      BY DEF N!NoClient
    <2> QED
      BY <1>3, <2>1, StopStep DEF N!TypeOK, N!Stop
  <1>4. CASE N!Tick \/ \E m \in Moves : N!Confirm(m)
    BY <1>4 DEF N!TypeOK, N!Tick, N!Confirm, N!day, N!sockets, N!runs
  <1> QED
    BY <1>1, <1>2, <1>3, <1>4

LEMMA HandlerTypes ==
    ASSUME N!TypeOK, N!CallersFit, NEW h \in Handlers,
           \/ \E m \in Moves : N!createReview(h, m)
           \/ N!insertReview(h) \/ N!findReviewWrittenNotificationContext(h)
           \/ N!notifyCommunityCommentOrReply(h)
           \/ \E i \in DOMAIN notices : N!markNotificationAsRead(h, i)
    PROVE  N!TypeOK'
  <1>1. ASSUME NEW m \in Moves, N!createReview(h, m) PROVE N!TypeOK'
    BY <1>1, CreateReviewStep DEF N!TypeOK, N!createReview, N!day, N!sockets, N!runs, Becomes
  <1>2. CASE N!insertReview(h)
    BY <1>2, InsertReviewStep DEF N!TypeOK, N!insertReview, N!day, N!sockets, N!runs, Becomes
  <1>3. CASE N!findReviewWrittenNotificationContext(h)
    BY <1>3, ContextStep DEF N!TypeOK, N!findReviewWrittenNotificationContext, N!day, N!sockets, N!runs, Becomes
  <1>4. CASE N!notifyCommunityCommentOrReply(h)
    BY <1>4, CommunityStep DEF N!TypeOK, N!notifyCommunityCommentOrReply, N!day, N!sockets, N!runs, Becomes
  <1>5. ASSUME NEW i \in DOMAIN notices, N!markNotificationAsRead(h, i) PROVE N!TypeOK'
    <2>1. counts' \in [N!Users -> SUBSET Nat]
      <3>1. PICK u \in N!Users : N!Overlap(u)
        BY <1>5, WritesOf
      <3> QED
        BY <1>5, <3>1, MarkStep, OverlapStep
    <2> QED
      BY <1>5, <2>1, MarkStep DEF N!TypeOK, N!markNotificationAsRead, N!day, N!sockets, N!runs, Becomes
  <1> QED
    BY <1>1, <1>2, <1>3, <1>4, <1>5

\* What a later write of a review changes.
LEMMA ReviewStep ==
    ASSUME N!TypeOK, NEW r \in DOMAIN reviews, N!updateReview(r) \/ N!deleteReview(r) \/ N!deleteAdminReview(r)
    PROVE  /\ reviews' \in Seq([move : Moves, rating : 1..5, live : BOOLEAN])
           /\ DOMAIN reviews' = DOMAIN reviews
           /\ \A q \in DOMAIN reviews : reviews'[q].move = reviews[q].move /\ (reviews'[q].live => reviews[q].live)
           /\ UNCHANGED <<clock, server, cronRan, confirmed, notices, todo, call, streams, client,
                          due, overlapped, failed, stops, lost, counts>>
  <1> DEFINE R == [move : Moves, rating : 1..5, live : BOOLEAN]
  <1>0. reviews \in Seq(R) /\ reviews[r] \in R
    BY NoticesLen DEF N!TypeOK
  <1>1. PICK e : reviews' = [reviews EXCEPT ![r] = e] /\ e \in R /\ e.move = reviews[r].move
                 /\ (e.live => reviews[r].live)
    <2>1. CASE N!updateReview(r)
      <3>1. [reviews[r] EXCEPT !.rating = 6 - @] \in R
        BY <1>0
      <3> QED
        BY <1>0, <2>1, <3>1 DEF N!updateReview, N!Alive
    <2>2. CASE N!deleteReview(r) \/ N!deleteAdminReview(r)
      <3>1. [reviews[r] EXCEPT !.live = FALSE] \in R
        BY <1>0
      <3> QED
        BY <1>0, <2>2, <3>1 DEF N!deleteReview, N!deleteAdminReview
    <2> QED
      BY <2>1, <2>2
  <1>2. reviews' \in Seq(R) /\ DOMAIN reviews' = DOMAIN reviews
    <2> HIDE DEF R
    <2> QED
      BY <1>0, <1>1, ExceptSeq, LenProperties
  <1>3. \A q \in DOMAIN reviews : reviews'[q].move = reviews[q].move /\ (reviews'[q].live => reviews[q].live)
    BY <1>1
  <1>4. UNCHANGED <<clock, server, cronRan, confirmed, notices, todo, call, streams, client,
                    due, overlapped, failed, stops, lost, counts>>
    BY DEF N!updateReview, N!deleteReview, N!deleteAdminReview, N!day, N!sockets, N!runs
  <1> QED
    BY <1>2, <1>3, <1>4

LEMMA TypesKept ==
    ASSUME N!TypeOK, N!CallersFit, N!ConstantsApart, [N!Next]_(N!vars)
    PROVE  N!TypeOK'
  <1>1. ASSUME NEW r \in DOMAIN reviews, N!updateReview(r) \/ N!deleteReview(r) \/ N!deleteAdminReview(r)
        PROVE  N!TypeOK'
    BY <1>1, ReviewStep DEF N!TypeOK
  <1>2. ASSUME NEW s \in Conns, NEW u \in N!Users, N!subscribe(s, u) PROVE N!TypeOK'
    BY <1>2 DEF N!TypeOK, N!subscribe, N!NoClient, N!day, N!runs
  <1>3. ASSUME NEW s \in Conns, N!close(s) PROVE N!TypeOK'
    BY <1>3 DEF N!TypeOK, N!close, N!Cleanup, N!NoClient, N!day, N!runs
  <1>4. ASSUME NEW s \in Conns, N!getNotificationsForReceiver(s) PROVE N!TypeOK'
    <2>1. N!findLatestByReceiver(client[s].user) \subseteq Nat
      BY NoticesLen DEF N!findLatestByReceiver
    <2>2. client' \in [Conns -> [user : N!Users \cup {None}, loaded : BOOLEAN, knows : SUBSET Nat,
                                 count : Nat \cup {None}]]
      BY <1>4, <2>1 DEF N!TypeOK, N!getNotificationsForReceiver
    <2> QED
      BY <1>4, <2>2 DEF N!TypeOK, N!getNotificationsForReceiver, N!day, N!runs
  <1>5. CASE UNCHANGED N!vars
    BY <1>5 DEF N!TypeOK, N!vars
  <1> QED
    BY <1>1, <1>2, <1>3, <1>4, <1>5, CallerTypes, RunTypes, ServerTypes, HandlerTypes DEF N!Next
-----------------------------------------------------------------------------
(* What callers work on. *)

\* A caller's turn fits what is stored.
Fits(c, k) ==
    /\ c \in N!Jobs => /\ k.at \notin {"insert", "context"}
                       /\ k.at \in {"look", "write"} \cup N!Telling =>
                             k.to \in N!Users /\ k.about \in Moves /\ k.type = N!ReminderType(k.to)
    /\ c \in Handlers =>
         /\ k.at \in {"idle", "insert", "context", "write"} \cup N!Telling
         /\ k.at = "insert" => k.about \in Moves /\ k.type = None
         /\ k.at = "context" => k.type = "REVIEW_WRITTEN"
         /\ k.at = "write" => k.type # None
         /\ k.at \in {"write"} \cup N!Telling => k.to \in N!Users
         /\ k.type \in {None, "REVIEW_WRITTEN", "COMMUNITY_COMMENT", "COMMUNITY_REPLY"}
         /\ k.type = "REVIEW_WRITTEN" =>
              k.at \in {"context", "write"} \cup N!Telling /\ k.about \in DOMAIN reviews
    /\ server = "down" => k = N!Idle
    /\ k.at = "push" => k.n \in DOMAIN notices /\ notices[k.n].to = k.to

LEMMA FitsAll == N!CallersFit <=> \A c \in N!Callers : Fits(c, call[c])
  BY Known DEF N!CallersFit, N!RunsRemind, N!CallsTell, Fits, N!Callers

LEMMA FitsAllNext == N!CallersFit' <=> \A c \in N!Callers : Fits(c, call[c])'
  BY Known DEF N!CallersFit, N!RunsRemind, N!CallsTell, Fits, N!Callers

\* Rows stay, so what fitted fits.
LEMMA StillFits ==
    ASSUME NEW c \in N!Callers, Fits(c, call[c]), call'[c] = call[c], server' = server \/ server' = "up",
           DOMAIN notices \subseteq DOMAIN notices', DOMAIN reviews \subseteq DOMAIN reviews',
           \A i \in DOMAIN notices : notices'[i].to = notices[i].to
    PROVE  Fits(c, call[c])'
  BY DEF Fits

\* A caller's step: the others' turns and its own fit.
LEMMA StepFits ==
    ASSUME N!CallersFit, NEW c \in N!Callers, NEW k, Becomes(c, k), server' = server \/ server' = "up",
           DOMAIN notices \subseteq DOMAIN notices', DOMAIN reviews \subseteq DOMAIN reviews',
           \A i \in DOMAIN notices : notices'[i].to = notices[i].to,
           Fits(c, k)'
    PROVE  N!CallersFit'
  <1>1. Fits(c, call[c])'
    BY DEF Becomes, Fits
  <1>2. \A d \in N!Callers : d # c => Fits(d, call[d])'
    BY FitsAll, StillFits DEF Becomes
  <1> QED
    BY <1>1, <1>2, FitsAllNext

LEMMA TurnsFit ==
    ASSUME N!ConstantsApart, NEW c
    PROVE  /\ Fits(c, N!Idle)
           /\ c \in N!Jobs => /\ Fits(c, N!NextMove) \/ server = "down"
                              /\ Fits(c, N!Turn("targets", None, None, None)) \/ server = "down"
                              /\ \A m \in Moves, u \in N!Users : Fits(c, N!Reminder(m, u)) \/ server = "down"
  BY DEF Fits, N!Idle, N!NextMove, N!Reminder, N!ReminderType, N!Turn, N!Telling, N!ConstantsApart, N!NotificationType, N!Users, N!Jobs

\* Somebody at work: the server is up.
LEMMA UpIfBusy ==
    ASSUME N!CallersFit, N!TypeOK, NEW c \in N!Callers, call[c].at # "idle"
    PROVE  server = "up"
  BY DEF N!CallersFit, N!TypeOK, N!Idle, N!Turn

LEMMA CallerFits ==
    ASSUME N!TypeOK, N!CallersFit, N!ConstantsApart, NEW c \in N!Callers,
           \/ N!createNotification(c) \/ N!publishNotification(c)
           \/ N!countUnreadByReceiver(c) \/ N!publishUnreadCount(c) \/ N!Fail(c)
    PROVE  N!CallersFit'
  <1>0. server = "up" /\ server' = server /\ reviews' = reviews
    BY UpIfBusy DEF N!createNotification, N!publishNotification, N!countUnreadByReceiver, N!publishUnreadCount, N!Fail, N!day
  <1>1. Fits(c, call[c])
    BY FitsAll
  <1>2. CASE N!createNotification(c)
    <2>0. PICK k : k = [at |-> "push", to |-> call[c].to, type |-> call[c].type,
                        about |-> call[c].about, n |-> Len(notices) + 1]
      OBVIOUS
    <2>1. /\ Becomes(c, k) /\ call[c].at = "write"
          /\ DOMAIN notices \subseteq DOMAIN notices'
          /\ \A i \in DOMAIN notices : notices'[i] = notices[i]
          /\ Len(notices) + 1 \in DOMAIN notices' /\ notices'[Len(notices) + 1].to = call[c].to
      <3>1. Becomes(c, k) /\ call[c].at = "write" /\ \A i \in DOMAIN notices : notices'[i] = notices[i]
        BY <1>2, <2>0, CreateStep
      <3>2. DOMAIN notices' = 1..Len(notices) + 1
        BY <1>2, CreateStep
      <3>3. notices'[Len(notices) + 1] = [to |-> call[c].to, type |-> call[c].type,
                                          about |-> call[c].about, read |-> FALSE]
        BY <1>2, CreateStep
      <3> QED
        BY <3>1, <3>2, <3>3, NoticesLen
    <2>2. Fits(c, k)'
      BY <1>0, <1>1, <2>0, <2>1 DEF Fits, N!Telling
    <2> QED
      BY <1>0, <2>1, <2>2, StepFits
  <1>3. CASE N!publishNotification(c)
    <2>0. PICK k : k = [at |-> "count", to |-> call[c].to, type |-> call[c].type,
                        about |-> call[c].about, n |-> call[c].n]
      OBVIOUS
    <2>1. Becomes(c, k) /\ call[c].at = "push" /\ notices' = notices
      BY <1>3, <2>0, PublishStep DEF N!publishNotification
    <2>2. Fits(c, k)'
      BY <1>0, <1>1, <2>0, <2>1 DEF Fits, N!Telling
    <2> QED
      BY <1>0, <2>1, <2>2, StepFits
  <1>4. CASE N!countUnreadByReceiver(c)
    <2>0. PICK k : k = [at |-> "tell", to |-> call[c].to, type |-> call[c].type,
                        about |-> call[c].about, n |-> N!Unread(call[c].to)]
      OBVIOUS
    <2>1. Becomes(c, k) /\ call[c].at = "count" /\ notices' = notices
      BY <1>4, <2>0, CountStep DEF N!countUnreadByReceiver
    <2>2. Fits(c, k)'
      BY <1>0, <1>1, <2>0, <2>1 DEF Fits, N!Telling
    <2> QED
      BY <1>0, <2>1, <2>2, StepFits
  <1>5. CASE N!publishUnreadCount(c)
    <2>1. Becomes(c, N!After(c)) /\ call[c].at = "tell" /\ notices' = notices
      BY <1>5, TellStep DEF N!publishUnreadCount
    <2>2. Fits(c, N!After(c))
      BY <1>0, <2>1, AfterIs, TurnsFit, Known DEF N!Telling, N!Callers, N!Users
    <2>3. \A k : Fits(c, k) => Fits(c, k)'
      BY <1>0, <2>1 DEF Fits
    <2> QED
      BY <1>0, <2>1, <2>2, <2>3, StepFits
  <1>6. CASE N!Fail(c)
    <2>1. notices' = notices
      BY <1>6 DEF N!Fail
    <2>2. \A k : Fits(c, k) => Fits(c, k)'
      BY <1>0, <2>1 DEF Fits
    <2>3. PICK k : k \in {N!Idle, N!NextMove} /\ Becomes(c, k) /\ (c \in N!Jobs \/ k = N!Idle)
      BY <1>6, FailStep DEF N!Callers
    <2>4. Fits(c, k)
      BY <1>0, <2>3, TurnsFit
    <2> QED
      BY <1>0, <2>1, <2>2, <2>3, <2>4, StepFits
  <1> QED
    BY <1>2, <1>3, <1>4, <1>5, <1>6

LEMMA RunFits ==
    ASSUME N!TypeOK, N!CallersFit, N!ConstantsApart, NEW j \in N!Jobs,
           \/ N!findConfirmedMovesOnDate(j) \/ N!runMoveDayReminderJob(j) \/ N!createMoveDayReminderIfAbsent(j)
    PROVE  N!CallersFit'
  <1>0. j \in N!Callers /\ server = "up" /\ UNCHANGED <<server, notices, reviews>>
    BY Known, UpIfBusy DEF N!findConfirmedMovesOnDate, N!runMoveDayReminderJob, N!createMoveDayReminderIfAbsent, N!day
  <1>1. Fits(j, call[j]) /\ \A k : Fits(j, k) => Fits(j, k)'
    BY <1>0, FitsAll DEF Fits
  <1>2. CASE N!findConfirmedMovesOnDate(j)
    BY <1>0, <1>1, <1>2, JobSteps, TurnsFit, StepFits
  <1>3. CASE N!runMoveDayReminderJob(j)
    <2>1. PICK k : Becomes(j, k) /\ (k = N!Idle \/ \E m \in Moves : k = N!Reminder(m, "customer"))
      BY <1>3, JobSteps
    <2>2. Fits(j, k)
      BY <1>0, <2>1, TurnsFit, Known
    <2> QED
      BY <1>0, <1>1, <2>1, <2>2, StepFits
  <1>4. CASE N!createMoveDayReminderIfAbsent(j)
    <2>1. CASE Becomes(j, N!After(j))
      <3>1. Fits(j, N!After(j))
        BY <1>0, <1>4, LookStep, AfterIs, TurnsFit, Known DEF N!Users
      <3> QED
        BY <1>0, <1>1, <2>1, <3>1, StepFits
    <2>2. CASE Becomes(j, [at |-> "write", to |-> call[j].to, type |-> call[j].type,
                           about |-> call[j].about, n |-> call[j].n])
      <3> DEFINE k == [at |-> "write", to |-> call[j].to, type |-> call[j].type,
                       about |-> call[j].about, n |-> call[j].n]
      <3>1. call[j].at = "look"
        BY <1>4, LookStep
      <3>2. Fits(j, k)
        BY <1>0, <1>1, <3>1 DEF Fits, N!Telling, N!ConstantsApart
      <3>3. Becomes(j, k)
        BY <2>2
      <3> HIDE DEF k
      <3> QED
        BY <1>0, <1>1, <3>2, <3>3, StepFits
    <2> QED
      BY <1>4, <2>1, <2>2, LookStep
  <1> QED
    BY <1>2, <1>3, <1>4

LEMMA ServerFits ==
    ASSUME N!TypeOK, N!CallersFit, N!ConstantsApart, N!Cron \/ N!Boot \/ N!Stop
    PROVE  N!CallersFit'
  <1>1. ASSUME NEW j \in N!Jobs, N!startRun(j), server' = "up", UNCHANGED <<notices, reviews>>
        PROVE  N!CallersFit'
    <2> DEFINE k == N!Turn("targets", None, None, None)
    <2>1. Becomes(j, k) /\ j \in N!Callers
      BY <1>1, StartStep, Known
    <2>2. Fits(j, k)'
      BY <1>1 DEF Fits, N!Turn, N!Telling, N!ConstantsApart, N!Jobs
    <2> HIDE DEF k
    <2> QED
      BY <1>1, <2>1, <2>2, StepFits
  <1>2. CASE N!Cron
    BY <1>1, <1>2, Known DEF N!Cron
  <1>3. CASE N!Boot
    <2>1. CASE N!startRun("boot")
      BY <1>1, <1>3, <2>1, Known DEF N!Boot
    <2>2. CASE call' = call
      BY <1>3, <2>2, FitsAll, FitsAllNext, StillFits DEF N!Boot
    <2> QED
      BY <1>3, <2>1, <2>2 DEF N!Boot
  <1>4. CASE N!Stop
    <2>1. \A c : Fits(c, N!Idle)'
      BY TurnsFit, <1>4 DEF Fits, N!Idle, N!Turn, N!Telling, N!ConstantsApart, N!NotificationType
    <2> QED
      BY <1>4, <2>1, StopStep, FitsAllNext
  <1> QED
    BY <1>2, <1>3, <1>4

LEMMA HandlerFits ==
    ASSUME N!TypeOK, N!CallersFit, N!ConstantsApart, NEW h \in Handlers,
           \/ \E m \in Moves : N!createReview(h, m)
           \/ N!insertReview(h) \/ N!findReviewWrittenNotificationContext(h)
           \/ N!notifyCommunityCommentOrReply(h)
           \/ \E i \in DOMAIN notices : N!markNotificationAsRead(h, i)
    PROVE  N!CallersFit'
  <1>0. h \in N!Callers /\ h \notin N!Jobs
    BY Known DEF N!ConstantsApart
  <1>1. server' = server
    BY DEF N!createReview, N!insertReview, N!findReviewWrittenNotificationContext, N!notifyCommunityCommentOrReply,
       N!markNotificationAsRead
  <1>2. ASSUME NEW m \in Moves, N!createReview(h, m) PROVE N!CallersFit'
    <2>1. Becomes(h, N!Turn("insert", None, None, m)) /\ UNCHANGED <<notices, reviews>> /\ server = "up"
      BY <1>2, CreateReviewStep DEF N!createReview
    <2>2. Fits(h, N!Turn("insert", None, None, m))'
      BY <1>0, <1>1, <2>1 DEF Fits, N!Turn, N!Telling, N!ConstantsApart, N!NotificationType
    <2> QED
      BY <1>0, <1>1, <2>1, <2>2, StepFits
  <1>3. CASE N!insertReview(h)
    <2>1. notices' = notices /\ server = "up"
      BY <1>0, <1>3, UpIfBusy DEF N!insertReview
    <2>2. CASE Becomes(h, N!Idle) /\ reviews' = reviews
      <3>1. Fits(h, N!Idle)'
        BY <1>0, <1>1, <2>1 DEF Fits, N!Idle, N!Turn, N!Telling, N!ConstantsApart, N!NotificationType
      <3> QED
        BY <1>0, <1>1, <2>1, <2>2, <3>1, StepFits
    <2>3. CASE Becomes(h, N!Turn("context", None, "REVIEW_WRITTEN", Len(reviews) + 1)) /\ DOMAIN reviews' = 1..Len(reviews) + 1
      <3>1. DOMAIN reviews \subseteq DOMAIN reviews' /\ Len(reviews) + 1 \in DOMAIN reviews'
        BY <2>3, NoticesLen
      <3>2. PICK k : k = N!Turn("context", None, "REVIEW_WRITTEN", Len(reviews) + 1)
        OBVIOUS
      <3>3. Fits(h, k)'
        BY <1>0, <1>1, <2>1, <3>1, <3>2 DEF Fits, N!Turn, N!Telling, N!ConstantsApart
      <3> QED
        BY <1>0, <1>1, <2>1, <2>3, <3>1, <3>2, <3>3, StepFits
    <2> QED
      BY <1>3, <2>2, <2>3, InsertReviewStep
  <1>4. CASE N!findReviewWrittenNotificationContext(h)
    <2>1. UNCHANGED <<notices, reviews>> /\ server = "up"
      BY <1>0, <1>4, UpIfBusy DEF N!findReviewWrittenNotificationContext
    <2>2. PICK k : Becomes(h, k) /\ k \in {N!Idle, N!Turn("write", "mover", "REVIEW_WRITTEN", call[h].about)}
      BY <1>4, ContextStep
    <2>3. call[h].about \in DOMAIN reviews
      BY <1>4, ContextStep
    <2>4. Fits(h, k)'
      BY <1>0, <1>1, <2>1, <2>2, <2>3 DEF Fits, N!Idle, N!Turn, N!Telling, N!ConstantsApart, N!NotificationType, N!Users
    <2> QED
      BY <1>0, <1>1, <2>1, <2>2, <2>4, StepFits
  <1>5. CASE N!notifyCommunityCommentOrReply(h)
    <2>1. UNCHANGED <<notices, reviews>>
      BY <1>5 DEF N!notifyCommunityCommentOrReply
    <2>2. PICK u \in N!Users, y \in {"COMMUNITY_COMMENT", "COMMUNITY_REPLY"} : Becomes(h, N!Turn("write", u, y, None))
      BY <1>5, CommunityStep
    <2>3. Fits(h, N!Turn("write", u, y, None))'
      BY <1>0, <1>1, <1>5, <2>1, CommunityStep DEF Fits, N!Turn, N!Telling, N!ConstantsApart, N!NotificationType
    <2> QED
      BY <1>0, <1>1, <2>1, <2>2, <2>3, StepFits
  <1>6. ASSUME NEW i \in DOMAIN notices, N!markNotificationAsRead(h, i) PROVE N!CallersFit'
    <2>0. PICK k : k = N!Turn("count", notices[i].to, None, None)
      OBVIOUS
    <2>1. /\ reviews' = reviews /\ server = "up" /\ Becomes(h, k)
          /\ DOMAIN notices' = DOMAIN notices
          /\ \A l \in DOMAIN notices : notices'[l].to = notices[l].to
      BY <1>6, <2>0, MarkStep DEF N!markNotificationAsRead
    <2>2. Fits(h, k)'
      BY <1>0, <1>1, <2>0, <2>1, NoticesLen DEF Fits, N!Turn, N!Telling, N!ConstantsApart, N!NotificationType
    <2> QED
      BY <1>0, <1>1, <2>1, <2>2, StepFits
  <1> QED
    BY <1>2, <1>3, <1>4, <1>5, <1>6

LEMMA FitKept ==
    ASSUME N!TypeOK, N!CallersFit, N!ConstantsApart, [N!Next]_(N!vars)
    PROVE  N!CallersFit'
  <1>1. CASE /\ UNCHANGED <<call, server, notices>>
             /\ DOMAIN reviews \subseteq DOMAIN reviews'
    BY <1>1, FitsAll, FitsAllNext, StillFits
  <1>2. ASSUME NEW r \in DOMAIN reviews, N!updateReview(r) \/ N!deleteReview(r) \/ N!deleteAdminReview(r)
        PROVE  N!CallersFit'
    BY <1>1, <1>2, ReviewStep
  <1>3. ASSUME \/ N!Tick \/ \E m \in Moves : N!Confirm(m)
               \/ \E s \in Conns :
                    \/ \E u \in N!Users : N!subscribe(s, u)
                    \/ N!close(s) \/ N!getNotificationsForReceiver(s)
               \/ UNCHANGED N!vars
        PROVE  UNCHANGED <<call, server, notices, reviews>>
    BY <1>3 DEF N!Tick, N!Confirm, N!subscribe, N!close, N!getNotificationsForReceiver, N!vars
  <1> QED
    BY <1>1, <1>2, <1>3, CallerFits, RunFits, ServerFits, HandlerFits DEF N!Next
-----------------------------------------------------------------------------
(* Nobody is reminded twice. *)
SameNotices ==
    /\ DOMAIN notices' = DOMAIN notices
    /\ \A i \in DOMAIN notices : /\ notices'[i].to = notices[i].to
                                 /\ notices'[i].type = notices[i].type
                                 /\ notices'[i].about = notices[i].about
JobsQuiet ==
    \A j \in N!Jobs : call'[j] = call[j] \/ (call[j].at # "idle" /\ call'[j].at # "write")

LEMMA QuietRemind ==
    ASSUME N!RemindersApart, N!OnceAlone, SameNotices, JobsQuiet, overlapped' = overlapped
    PROVE  N!RemindersApart' /\ N!OnceAlone'
  <1>1. N!Reminders' = N!Reminders
    BY DEF N!Reminders, SameNotices
  <1>2. N!OnceAlone'
    BY <1>1 DEF N!OnceAlone, N!SameReminder, SameNotices, N!Reminders
  <1>3. \A i \in N!Reminders' : notices'[i].type = N!ReminderType(notices'[i].to)
    BY <1>1 DEF N!RemindersApart, SameNotices, N!Reminders
  <1>4. \A j \in N!Jobs : call'[j].at = "write" =>
            call'[j] = call[j] /\ (N!existsByReceiverTypeAndEstimate(call[j])' <=> N!existsByReceiverTypeAndEstimate(call[j]))
    BY DEF JobsQuiet, SameNotices, N!existsByReceiverTypeAndEstimate
  <1>5. N!Running' \subseteq N!Running
    BY DEF N!Running, JobsQuiet
  <1> QED
    BY <1>2, <1>3, <1>4, <1>5 DEF N!RemindersApart

LEMMA SameIfUnchanged ==
    ASSUME notices' = notices PROVE SameNotices
  BY DEF SameNotices

\* A step of a handler is none of a job.
LEMMA HandlerQuiet ==
    ASSUME N!ConstantsApart, NEW h \in Handlers, NEW k, Becomes(h, k)
    PROVE  \A j \in N!Jobs : call'[j] = call[j]
  BY Known DEF Becomes, N!ConstantsApart

LEMMA HandlerSteps ==
    ASSUME N!TypeOK, N!CallersFit, N!ConstantsApart, NEW h \in Handlers,
           \/ \E m \in Moves : N!createReview(h, m)
           \/ N!insertReview(h) \/ N!findReviewWrittenNotificationContext(h)
           \/ N!notifyCommunityCommentOrReply(h)
           \/ \E i \in DOMAIN notices : N!markNotificationAsRead(h, i)
    PROVE  /\ \A j \in N!Jobs : call'[j] = call[j]
           /\ SameNotices
           /\ UNCHANGED <<clock, server, cronRan, confirmed, todo, streams, client, due, overlapped, failed, lost>>
  <1>1. PICK k : Becomes(h, k)
    BY CreateReviewStep, InsertReviewStep, ContextStep, CommunityStep, MarkStep
  <1>2. \A j \in N!Jobs : call'[j] = call[j]
    BY <1>1, HandlerQuiet
  <1>3. SameNotices
    <2>1. ASSUME NEW i \in DOMAIN notices, N!markNotificationAsRead(h, i) PROVE SameNotices
      BY <2>1, MarkStep DEF SameNotices
    <2> QED
      BY <2>1, SameIfUnchanged DEF N!createReview, N!insertReview, N!findReviewWrittenNotificationContext,
         N!notifyCommunityCommentOrReply
  <1>4. UNCHANGED <<clock, server, cronRan, confirmed, todo, streams, client, due, overlapped, failed, lost>>
    BY DEF N!createReview, N!insertReview, N!findReviewWrittenNotificationContext,
       N!notifyCommunityCommentOrReply, N!markNotificationAsRead, N!day, N!sockets, N!runs
  <1> QED
    BY <1>2, <1>3, <1>4

\* What neither a caller nor the server does.
LEMMA OtherSteps ==
    ASSUME N!TypeOK, \/ \E r \in DOMAIN reviews : N!updateReview(r) \/ N!deleteReview(r) \/ N!deleteAdminReview(r)
                     \/ \E s \in Conns :
                          \/ \E u \in N!Users : N!subscribe(s, u)
                          \/ N!close(s) \/ N!getNotificationsForReceiver(s)
                     \/ UNCHANGED N!vars
    PROVE  UNCHANGED <<clock, server, cronRan, confirmed, notices, todo, call, due, overlapped, failed, lost, counts>>
  BY ReviewStep DEF N!subscribe, N!close, N!getNotificationsForReceiver, N!vars, N!day, N!runs

\* A notice is written: of a run by the one run there is, of a handler no reminder.
LEMMA CreateReminds ==
    ASSUME N!TypeOK, N!CallersFit, N!ConstantsApart, N!RemindersApart, N!OnceAlone,
           NEW c \in N!Callers, N!createNotification(c)
    PROVE  N!RemindersApart' /\ N!OnceAlone'
  <1> DEFINE L == Len(notices) + 1
  <1>1. /\ L \notin DOMAIN notices /\ DOMAIN notices' = DOMAIN notices \cup {L}
        /\ \A i \in DOMAIN notices : notices'[i] = notices[i]
        /\ notices'[L].to = call[c].to /\ notices'[L].type = call[c].type
        /\ notices'[L].about = call[c].about
    <2>1. DOMAIN notices' = 1..Len(notices) + 1 /\ \A i \in DOMAIN notices : notices'[i] = notices[i]
      BY CreateStep
    <2>2. notices'[L] = [to |-> call[c].to, type |-> call[c].type, about |-> call[c].about, read |-> FALSE]
      BY CreateStep
    <2> QED
      BY <2>1, <2>2, NoticesLen
  <1>2. call[c].at = "write" /\ overlapped' = overlapped /\ call'[c].at = "push"
        /\ \A j \in N!Callers : j # c => call'[j] = call[j]
    <2>1. PICK k : k = [at |-> "push", to |-> call[c].to, type |-> call[c].type,
                        about |-> call[c].about, n |-> Len(notices) + 1]
      OBVIOUS
    <2>2. Becomes(c, k) /\ call[c].at = "write"
      BY <2>1, CreateStep
    <2>3. k.at = "push"
      BY <2>1
    <2> QED
      BY <2>2, <2>3 DEF N!createNotification, N!runs, Becomes
  <1> HIDE DEF L
  <1>3. N!Running' = N!Running
    BY <1>2, Known DEF N!Running
  <1>4. CASE c \in Handlers
    <2>1. call[c].type \notin {"CUSTOMER_MOVE_DAY_REMINDER", "MOVER_MOVE_DAY_REMINDER"}
      BY <1>2, <1>4 DEF N!CallersFit, N!CallsTell, N!ConstantsApart, N!NotificationType
    <2>2. N!Reminders' = N!Reminders
      BY <1>1, <2>1 DEF N!Reminders
    <2>3. \A j \in N!Jobs : call'[j] = call[j]
      BY <1>2, <1>4, Known DEF N!ConstantsApart
    <2>4. \A j \in N!Jobs : call[j].at = "write" => call[j].type \in {"CUSTOMER_MOVE_DAY_REMINDER", "MOVER_MOVE_DAY_REMINDER"}
      BY DEF N!CallersFit, N!RunsRemind, N!ReminderType
    <2>5. \A j \in N!Jobs : call[j].at = "write" =>
            (N!existsByReceiverTypeAndEstimate(call[j])' => N!existsByReceiverTypeAndEstimate(call[j]))
      BY <1>1, <2>1, <2>3, <2>4 DEF N!existsByReceiverTypeAndEstimate
    <2>6. N!OnceAlone'
      BY <1>1, <1>2, <2>2 DEF N!OnceAlone, N!SameReminder, N!Reminders
    <2>7. \A i \in N!Reminders' : notices'[i].type = N!ReminderType(notices'[i].to)
      BY <1>1, <2>2 DEF N!RemindersApart, N!Reminders
    <2> QED
      BY <1>2, <1>3, <2>3, <2>5, <2>6, <2>7 DEF N!RemindersApart
  <1>5. CASE c \in N!Jobs
    <2>1. call[c].type = N!ReminderType(call[c].to)
      BY <1>2, <1>5 DEF N!CallersFit, N!RunsRemind
    <2>2. \A i \in N!Reminders' : i = L \/ i \in N!Reminders
      BY <1>1 DEF N!Reminders
    <2>3. \A i \in N!Reminders' : notices'[i].type = N!ReminderType(notices'[i].to)
      BY <1>1, <2>1, <2>2 DEF N!RemindersApart, N!Reminders
    <2>4. ~overlapped => \A j \in N!Running : j = c
      BY <1>2, <1>5 DEF N!RemindersApart, N!Running
    <2>5. ~overlapped => \A i \in N!Reminders : ~(notices[i].to = call[c].to /\ notices[i].about = call[c].about)
      <3>1. \A i \in N!Reminders : notices[i].type = N!ReminderType(notices[i].to) /\ i \in DOMAIN notices
        BY DEF N!RemindersApart, N!Reminders
      <3>2. ~overlapped => ~N!existsByReceiverTypeAndEstimate(call[c])
        BY <1>2, <1>5 DEF N!RemindersApart
      <3> QED
        BY <2>1, <3>1, <3>2 DEF N!existsByReceiverTypeAndEstimate
    <2>6. N!OnceAlone'
      BY <1>1, <1>2, <2>2, <2>5 DEF N!OnceAlone, N!SameReminder, N!Reminders
    <2>7. ~overlapped => \A j \in N!Jobs : call'[j].at # "write"
      BY <1>2, <2>4, Known DEF N!Running
    <2> QED
      BY <1>2, <1>3, <2>3, <2>6, <2>7 DEF N!RemindersApart
  <1> QED
    BY <1>4, <1>5 DEF N!Callers

\* The look: it writes only what it did not find.
LEMMA LookReminds ==
    ASSUME N!TypeOK, N!CallersFit, N!ConstantsApart, N!RemindersApart, N!OnceAlone,
           NEW j \in N!Jobs, N!createMoveDayReminderIfAbsent(j)
    PROVE  N!RemindersApart' /\ N!OnceAlone'
  <1>1. UNCHANGED <<notices, overlapped>> /\ call[j].at = "look" /\ j \in N!Callers
    BY LookStep, Known DEF N!createMoveDayReminderIfAbsent, N!runs
  <1>2. CASE Becomes(j, N!After(j))
    <2>1. N!After(j).at # "write"
      BY <1>1, AfterIs DEF N!Reminder, N!NextMove, N!Turn, N!Users
    <2> QED
      BY <1>1, <1>2, <2>1, QuietRemind, SameIfUnchanged, Known DEF JobsQuiet, Becomes
  <1>3. CASE /\ ~N!existsByReceiverTypeAndEstimate(call[j])
             /\ Becomes(j, [at |-> "write", to |-> call[j].to, type |-> call[j].type,
                            about |-> call[j].about, n |-> call[j].n])
    <2>1. /\ call'[j].to = call[j].to /\ call'[j].type = call[j].type /\ call'[j].about = call[j].about
          /\ call'[j].at = "write"
          /\ \A i \in N!Callers : i # j => call'[i] = call[i]
      BY <1>3 DEF Becomes
    <2>2. ~N!existsByReceiverTypeAndEstimate(call[j])'
      BY <1>1, <1>3, <2>1 DEF N!existsByReceiverTypeAndEstimate
    <2>3. N!Running' = N!Running
      BY <1>1, <2>1, Known DEF N!Running
    <2>4. \A i \in N!Jobs : i # j =>
             (N!existsByReceiverTypeAndEstimate(call[i])' <=> N!existsByReceiverTypeAndEstimate(call[i]))
      BY <1>1, <2>1, Known DEF N!existsByReceiverTypeAndEstimate
    <2> QED
      BY <1>1, <2>1, <2>2, <2>3, <2>4, Known DEF N!RemindersApart, N!OnceAlone,
         N!SameReminder, N!Reminders
  <1> QED
    BY <1>2, <1>3, LookStep

LEMMA ServerReminds ==
    ASSUME N!TypeOK, N!CallersFit, N!ConstantsApart, N!RemindersApart, N!OnceAlone,
           N!Cron \/ N!Boot \/ N!Stop \/ N!Tick \/ \E m \in Moves : N!Confirm(m)
    PROVE  N!RemindersApart' /\ N!OnceAlone'
  <1>0. notices' = notices
    BY DEF N!Cron, N!Boot, N!Stop, N!Tick, N!Confirm
  <1>1. ASSUME NEW j \in N!Jobs, N!startRun(j) PROVE N!RemindersApart' /\ N!OnceAlone'
    <2>1. /\ overlapped' = (overlapped \/ N!Running # {})
          /\ call'[j].at = "targets" /\ \A i \in N!Callers : i # j => call'[i] = call[i]
      BY <1>1, StartStep DEF Becomes, N!Turn
    <2>2. ~overlapped' => \A i \in N!Jobs : call[i].at = "idle"
      BY <2>1 DEF N!Running
    <2>3. ~overlapped' => \A i \in N!Jobs : i # j => call'[i].at = "idle"
      BY <2>1, <2>2, Known
    <2>4. N!Reminders' = N!Reminders /\ (~overlapped' => ~overlapped)
      BY <1>0, <2>1 DEF N!Reminders
    <2>5. N!OnceAlone' /\ \A i \in N!Reminders' : notices'[i].type = N!ReminderType(notices'[i].to)
      BY <1>0, <2>4 DEF N!RemindersApart, N!OnceAlone, N!SameReminder
    <2>6. ~overlapped' => \A i, k \in N!Running' : i = k
      BY <2>3 DEF N!Running
    <2>7. ~overlapped' => \A i \in N!Jobs : call'[i].at # "write"
      BY <2>1, <2>3
    <2> QED
      BY <2>5, <2>6, <2>7 DEF N!RemindersApart
  <1>2. CASE N!Stop
    <2>1. overlapped' = overlapped /\ \A i \in N!Jobs : call'[i].at = "idle"
      BY <1>2, StopStep, Known DEF N!Idle, N!Turn
    <2> QED
      BY <1>0, <2>1 DEF N!RemindersApart, N!OnceAlone, N!SameReminder, N!Reminders, N!Running
  <1>3. CASE UNCHANGED <<call, overlapped>>
    BY <1>0, <1>3, QuietRemind, SameIfUnchanged DEF JobsQuiet
  <1> QED
    BY <1>1, <1>2, <1>3, Known DEF N!Cron, N!Boot, N!Tick, N!Confirm, N!runs

\* Every other step leaves the reminders alone and lets no run write.
LEMMA RemindSteps ==
    ASSUME N!TypeOK, N!CallersFit, N!ConstantsApart, [N!Next]_(N!vars)
    PROVE  \/ SameNotices /\ JobsQuiet /\ overlapped' = overlapped
           \/ \E c \in N!Callers : N!createNotification(c)
           \/ \E j \in N!Jobs : N!createMoveDayReminderIfAbsent(j)
           \/ N!Cron \/ N!Boot \/ N!Stop \/ N!Tick \/ \E m \in Moves : N!Confirm(m)
  <1>1. ASSUME NEW c \in N!Callers,
               \/ N!publishNotification(c)
               \/ N!countUnreadByReceiver(c) \/ N!publishUnreadCount(c) \/ N!Fail(c)
        PROVE  SameNotices /\ JobsQuiet /\ overlapped' = overlapped
    <2>1. UNCHANGED <<notices, overlapped>> /\ call[c].at # "idle"
      BY <1>1 DEF N!publishNotification, N!countUnreadByReceiver, N!publishUnreadCount, N!Fail, N!runs
    <2>2. PICK k : Becomes(c, k) /\ k.at # "write"
      <3>1. CASE N!publishNotification(c)
        <4>1. PICK k : k = [at |-> "count", to |-> call[c].to, type |-> call[c].type,
                            about |-> call[c].about, n |-> call[c].n]
          OBVIOUS
        <4>2. k.at # "write"
          BY <4>1
        <4> QED
          BY <3>1, <4>1, <4>2, PublishStep
      <3>2. CASE N!countUnreadByReceiver(c)
        <4>1. PICK k : k = [at |-> "tell", to |-> call[c].to, type |-> call[c].type,
                            about |-> call[c].about, n |-> N!Unread(call[c].to)]
          OBVIOUS
        <4>2. k.at # "write"
          BY <4>1
        <4> QED
          BY <3>2, <4>1, <4>2, CountStep
      <3>3. CASE N!publishUnreadCount(c)
        BY <3>3, TellStep, AfterIs DEF N!Telling, N!Reminder, N!NextMove, N!Idle, N!Turn, N!Callers, N!Users
      <3>4. CASE N!Fail(c)
        BY <3>4, FailStep DEF N!NextMove, N!Idle, N!Turn, N!Callers
      <3> QED
        BY <1>1, <3>1, <3>2, <3>3, <3>4
    <2> QED
      BY <2>1, <2>2, SameIfUnchanged, Known DEF JobsQuiet, Becomes
  <1>2. ASSUME NEW j \in N!Jobs, N!findConfirmedMovesOnDate(j) \/ N!runMoveDayReminderJob(j)
        PROVE  SameNotices /\ JobsQuiet /\ overlapped' = overlapped
    <2>1. UNCHANGED <<notices, overlapped>> /\ call[j].at # "idle"
      BY <1>2 DEF N!findConfirmedMovesOnDate, N!runMoveDayReminderJob
    <2>2. PICK k : Becomes(j, k) /\ k.at # "write"
      <3>1. /\ N!Idle.at # "write" /\ N!NextMove.at # "write"
            /\ \A m \in Moves : N!Reminder(m, "customer").at # "write"
        BY DEF N!Reminder, N!NextMove, N!Idle, N!Turn
      <3>2. CASE N!findConfirmedMovesOnDate(j)
        BY <3>1, <3>2, JobSteps
      <3>3. CASE N!runMoveDayReminderJob(j)
        <4>1. CASE Becomes(j, N!Idle)
          BY <3>1, <4>1
        <4>2. CASE \E m \in Moves : Becomes(j, N!Reminder(m, "customer"))
          BY <3>1, <4>2
        <4> QED
          BY <3>3, <4>1, <4>2, JobSteps
      <3> QED
        BY <1>2, <3>2, <3>3
    <2> QED
      BY <2>1, <2>2, SameIfUnchanged, Known DEF JobsQuiet, Becomes
  <1>3. ASSUME SameNotices, overlapped' = overlapped, \A j \in N!Jobs : call'[j] = call[j]
        PROVE  SameNotices /\ JobsQuiet /\ overlapped' = overlapped
    BY <1>3 DEF JobsQuiet
  <1> QED
    BY <1>1, <1>2, <1>3, HandlerSteps, OtherSteps, SameIfUnchanged, Known DEF N!Next
LEMMA RemindersKept ==
    ASSUME N!TypeOK, N!CallersFit, N!ConstantsApart, N!RemindersApart, N!OnceAlone, [N!Next]_(N!vars)
    PROVE  N!RemindersApart' /\ N!OnceAlone'
  BY RemindSteps, QuietRemind, CreateReminds, LookReminds, ServerReminds

\* Two runs at work together: while no run begins to write and no reminder is
\* written, whoever wrote apart does.
LEMMA QuietTwo ==
    ASSUME N!RunsApart, N!AtMostTwice, SameNotices,
           \A j \in N!Jobs : call'[j] = call[j] \/ call'[j].at # "write"
    PROVE  N!RunsApart' /\ N!AtMostTwice'
  <1>1. N!Reminders' = N!Reminders
    BY DEF N!Reminders, SameNotices
  <1>2. \A i \in N!Reminders : N!Writing(i)' \subseteq N!Writing(i)
    BY DEF N!Writing, N!Reminders, SameNotices
  <1>3. \A i, k \in N!Reminders : N!SameReminder(i, k)' <=> N!SameReminder(i, k)
    BY DEF N!SameReminder, N!Reminders, SameNotices
  <1>4. N!AtMostTwice'
    BY <1>1, <1>3 DEF N!AtMostTwice
  <1>5. N!RunsApart'
    BY <1>1, <1>2, <1>3 DEF N!RunsApart
  <1> QED
    BY <1>4, <1>5

\* The two looks that found nobody reminded were those of the two runs there are.
LEMMA LookTwo ==
    ASSUME N!TypeOK, N!CallersFit, N!ConstantsApart, N!RemindersApart, N!RunsApart, N!AtMostTwice,
           NEW j \in N!Jobs, N!createMoveDayReminderIfAbsent(j)
    PROVE  N!RunsApart' /\ N!AtMostTwice'
  <1>1. notices' = notices /\ call[j].at = "look" /\ j \in N!Callers
    BY LookStep, Known DEF N!createMoveDayReminderIfAbsent, N!runs
  <1>2. CASE Becomes(j, N!After(j))
    <2>1. N!After(j).at # "write"
      BY <1>1, AfterIs DEF N!Reminder, N!NextMove, N!Turn, N!Users
    <2> QED
      BY <1>1, <1>2, <2>1, QuietTwo, SameIfUnchanged, Known DEF Becomes
  <1>3. CASE /\ ~N!existsByReceiverTypeAndEstimate(call[j])
             /\ Becomes(j, [at |-> "write", to |-> call[j].to, type |-> call[j].type,
                            about |-> call[j].about, n |-> call[j].n])
    <2>1. /\ call'[j].to = call[j].to /\ call'[j].about = call[j].about
          /\ \A i \in N!Callers : i # j => call'[i] = call[i]
      BY <1>3 DEF Becomes
    <2>2. call[j].type = N!ReminderType(call[j].to)
      BY <1>1 DEF N!CallersFit, N!RunsRemind
    <2>3. \A i \in N!Reminders : i \in DOMAIN notices /\ notices[i].type = N!ReminderType(notices[i].to)
      BY DEF N!RemindersApart, N!Reminders
    <2>4. \A i \in N!Reminders : ~(notices[i].to = call[j].to /\ notices[i].about = call[j].about)
      BY <1>3, <2>2, <2>3 DEF N!existsByReceiverTypeAndEstimate
    <2>5. \A i \in N!Reminders : j \notin N!Writing(i)'
      BY <1>1, <2>1, <2>4 DEF N!Writing
    <2>6. \A i \in N!Reminders : N!Writing(i)' \subseteq N!Writing(i)
      BY <1>1, <2>1, <2>5, Known DEF N!Writing
    <2>7. N!Reminders' = N!Reminders
      BY <1>1 DEF N!Reminders
    <2>8. \A i, k : N!SameReminder(i, k)' <=> N!SameReminder(i, k)
      BY <1>1 DEF N!SameReminder
    <2>9. N!RunsApart'
      BY <2>6, <2>7, <2>8 DEF N!RunsApart
    <2> QED
      BY <2>7, <2>8, <2>9 DEF N!AtMostTwice
  <1> QED
    BY <1>2, <1>3, LookStep

LEMMA CreateTwo ==
    ASSUME N!TypeOK, N!CallersFit, N!ConstantsApart, N!RunsApart, N!AtMostTwice,
           NEW c \in N!Callers, N!createNotification(c)
    PROVE  N!RunsApart' /\ N!AtMostTwice'
  <1>0. PICK L : L = Len(notices) + 1
    OBVIOUS
  <1>1. /\ L \notin DOMAIN notices /\ DOMAIN notices' = DOMAIN notices \cup {L}
        /\ \A i \in DOMAIN notices : notices'[i] = notices[i]
        /\ notices'[L].to = call[c].to /\ notices'[L].type = call[c].type
        /\ notices'[L].about = call[c].about
    <2>1. DOMAIN notices' = 1..Len(notices) + 1 /\ \A i \in DOMAIN notices : notices'[i] = notices[i]
      BY CreateStep
    <2>2. notices'[L] = [to |-> call[c].to, type |-> call[c].type, about |-> call[c].about, read |-> FALSE]
      BY <1>0, CreateStep
    <2> QED
      BY <1>0, <2>1, <2>2, NoticesLen
  <1>2. call[c].at = "write" /\ call'[c].at = "push"
        /\ \A j \in N!Callers : j # c => call'[j] = call[j]
    <2>1. PICK k : k = [at |-> "push", to |-> call[c].to, type |-> call[c].type,
                        about |-> call[c].about, n |-> Len(notices) + 1]
      OBVIOUS
    <2>2. Becomes(c, k) /\ call[c].at = "write"
      BY <2>1, CreateStep
    <2>3. k.at = "push"
      BY <2>1
    <2> QED
      BY <2>2, <2>3 DEF Becomes
  <1>3. \A i \in N!Reminders : i \in N!Reminders' /\ N!Writing(i)' \subseteq N!Writing(i) \ {c}
    <2>1. \A i \in N!Reminders : i \in DOMAIN notices
      BY DEF N!Reminders
    <2> QED
      BY <1>1, <1>2, <2>1, Known DEF N!Reminders, N!Writing
  <1>4. \A i, k \in N!Reminders : N!SameReminder(i, k)' <=> N!SameReminder(i, k)
    BY <1>1 DEF N!Reminders, N!SameReminder
  <1>5. CASE c \in Handlers
    <2>1. call[c].type \notin {"CUSTOMER_MOVE_DAY_REMINDER", "MOVER_MOVE_DAY_REMINDER"}
      BY <1>2, <1>5 DEF N!CallersFit, N!CallsTell, N!ConstantsApart, N!NotificationType
    <2>2. N!Reminders' = N!Reminders
      BY <1>1, <2>1 DEF N!Reminders
    <2>3. N!RunsApart'
      BY <1>3, <1>4, <2>2 DEF N!RunsApart
    <2> QED
      BY <1>4, <2>2, <2>3 DEF N!AtMostTwice
  <1>6. CASE c \in N!Jobs
    <2>1. \A i \in N!Reminders' : i = L \/ i \in N!Reminders
      BY <1>1 DEF N!Reminders
    <2>2. \A i \in N!Reminders : (N!SameReminder(i, L)' \/ N!SameReminder(L, i)') => c \in N!Writing(i)
      BY <1>1, <1>2, <1>6 DEF N!SameReminder, N!Writing, N!Reminders
    <2>3. \A j, k \in N!Jobs : (j # c /\ k # c) => j = k
      BY <1>6 DEF N!Jobs
    <2>4. \A j \in N!Writing(L)' : j \in N!Jobs /\ j # c
      BY <1>2, Known DEF N!Writing
    <2>5. \A i \in N!Reminders, j \in N!Jobs : (N!SameReminder(i, L)' /\ j \in N!Writing(L)') => j \in N!Writing(i)
      BY <1>1, <1>2, <2>4, Known DEF N!SameReminder, N!Writing, N!Reminders
    <2>6. \A i \in N!Reminders, j \in N!Jobs : (N!SameReminder(L, i)' /\ j \in N!Writing(L)') => j \in N!Writing(i)
      BY <1>1, <1>2, <2>4, Known DEF N!SameReminder, N!Writing, N!Reminders
    <2>7. \A i \in N!Reminders : c \in N!Writing(i) => N!Writing(i)' = {}
      BY <1>3 DEF N!RunsApart
    <2>8. \A i \in N!Reminders : (N!SameReminder(i, L)' \/ N!SameReminder(L, i)') => N!Writing(L)' = {}
      BY <2>2, <2>4, <2>5, <2>6 DEF N!RunsApart
    <2>9. \A i \in N!Reminders' : \A j, k \in N!Writing(i)' : j = k
      BY <1>3, <2>1, <2>3, <2>4 DEF N!RunsApart
    <2>10. \A i, k \in N!Reminders' : N!SameReminder(i, k)' => i = k \/ N!Writing(i)' = {}
      BY <1>3, <1>4, <2>1, <2>2, <2>7, <2>8 DEF N!RunsApart
    <2>11. N!RunsApart'
      BY <2>9, <2>10 DEF N!RunsApart
    <2>12. \A i, k \in N!Reminders : (N!SameReminder(i, k) /\ c \in N!Writing(i)) => i = k
      BY DEF N!RunsApart
    <2>13. \A i, k \in N!Reminders :
              (N!SameReminder(i, L)' /\ N!SameReminder(i, k)') => i = k
      BY <1>4, <2>2, <2>12
    <2>14. \A i, k \in N!Reminders :
              (N!SameReminder(L, i)' /\ N!SameReminder(L, k)') => i = k
      <3>1. \A i, k : (N!SameReminder(L, i)' /\ N!SameReminder(L, k)') => N!SameReminder(i, k)'
        BY DEF N!SameReminder
      <3> QED
        BY <1>4, <2>2, <2>12, <3>1
    <2>15. N!AtMostTwice'
      <3> SUFFICES ASSUME NEW i \in N!Reminders', NEW k \in N!Reminders', NEW l \in N!Reminders',
                          N!SameReminder(i, k)', N!SameReminder(i, l)', i # k, i # l, k # l
                   PROVE  FALSE
        BY DEF N!AtMostTwice
      <3>1. CASE i = L
        BY <2>1, <2>14, <3>1
      <3>2. CASE k = L
        BY <2>1, <2>13, <3>2
      <3>3. CASE l = L
        BY <2>1, <2>13, <3>3
      <3>4. CASE i # L /\ k # L /\ l # L
        BY <1>4, <2>1, <3>4 DEF N!AtMostTwice
      <3> QED
        BY <3>1, <3>2, <3>3, <3>4
    <2> QED
      BY <2>11, <2>15
  <1> QED
    BY <1>5, <1>6 DEF N!Callers

LEMMA TwoKept ==
    ASSUME N!TypeOK, N!CallersFit, N!ConstantsApart, N!RemindersApart, N!RunsApart, N!AtMostTwice,
           [N!Next]_(N!vars)
    PROVE  N!RunsApart' /\ N!AtMostTwice'
  <1>1. ASSUME N!Cron \/ N!Boot \/ N!Stop \/ N!Tick \/ \E m \in Moves : N!Confirm(m)
        PROVE  /\ notices' = notices
               /\ \A j \in N!Jobs : call'[j] = call[j] \/ call'[j].at # "write"
    <2>1. notices' = notices
      BY <1>1 DEF N!Cron, N!Boot, N!Stop, N!Tick, N!Confirm
    <2>2. ASSUME NEW j \in N!Jobs, N!startRun(j)
          PROVE  \A i \in N!Jobs : call'[i] = call[i] \/ call'[i].at # "write"
      BY <2>2, StartStep, Known DEF Becomes, N!Turn
    <2>3. CASE N!Stop
      BY <2>1, <2>3, StopStep, Known DEF N!Idle, N!Turn
    <2>4. CASE call' = call
      BY <2>1, <2>4
    <2> QED
      BY <1>1, <2>1, <2>2, <2>3, <2>4, Known DEF N!Cron, N!Boot, N!Tick, N!Confirm, N!runs
  <1>2. CASE SameNotices /\ JobsQuiet
    BY <1>2, QuietTwo DEF JobsQuiet
  <1> QED
    BY <1>1, <1>2, RemindSteps, CreateTwo, LookTwo, QuietTwo, SameIfUnchanged
-----------------------------------------------------------------------------
(* Every move is reminded. *)
RowsStay ==
    \A i \in DOMAIN notices : /\ i \in DOMAIN notices' /\ notices'[i].to = notices[i].to
                              /\ notices'[i].type = notices[i].type /\ notices'[i].about = notices[i].about

LEMMA ToldStays == ASSUME RowsStay, NEW m, NEW u, N!Told(m, u) PROVE N!Told(m, u)'
  BY DEF N!Told, N!About, RowsStay

LEMMA AllTold == \A m : N!BothTold(m) <=> N!Told(m, "customer") /\ N!Told(m, "mover")
  BY DEF N!BothTold, N!Users

LEMMA AllToldNext == \A m : N!BothTold(m)' <=> N!Told(m, "customer")' /\ N!Told(m, "mover")'
  BY DEF N!BothTold, N!Users

LEMMA CoversStay ==
    ASSUME RowsStay, NEW j, N!Covers(j), call'[j] = call[j], todo'[j] = todo[j],
           due' = due, failed \subseteq failed'
    PROVE  N!Covers(j)'
  <1> SUFFICES ASSUME NEW m \in due' \ failed' PROVE N!BothTold(m)' \/ m \in todo'[j] \/ N!AtHand(j, m)'
    BY DEF N!Covers
  <1>1. \A x, u : N!Told(x, u) => N!Told(x, u)'
    BY ToldStays
  <1>2. N!BothTold(m) \/ m \in todo[j] \/ N!AtHand(j, m)
    BY DEF N!Covers
  <1>3. N!BothTold(m) => N!BothTold(m)'
    BY <1>1, AllTold, AllToldNext
  <1>4. N!AtHand(j, m) => N!AtHand(j, m)'
    BY <1>1 DEF N!AtHand
  <1> QED
    BY <1>2, <1>3, <1>4

\* A step that no run takes and that leaves the day alone.
LEMMA QuietCover ==
    ASSUME N!RunsCover, RowsStay, \A j \in N!Jobs : call'[j] = call[j],
           UNCHANGED <<clock, server, cronRan, todo, due>>, failed \subseteq failed', confirmed \subseteq confirmed'
    PROVE  N!RunsCover'
  <1>1. N!Running' = N!Running
    BY DEF N!Running
  <1>2. \A j \in N!Running : call'[j].at = "targets" \/ N!Covers(j)'
    BY CoversStay DEF N!RunsCover, N!Running
  <1>3. \A m \in due' \ failed' : N!BothTold(m) => N!BothTold(m)'
    BY ToldStays, AllTold, AllToldNext
  <1> QED
    BY <1>1, <1>2, <1>3 DEF N!RunsCover

\* A step of a run.
LEMMA RunCovers ==
    ASSUME N!RunsCover, RowsStay, NEW c \in N!Jobs, call[c].at # "idle",
           \A j \in N!Jobs : j # c => call'[j] = call[j] /\ todo'[j] = todo[j],
           UNCHANGED <<clock, server, cronRan, due, confirmed>>, failed \subseteq failed',
           call'[c].at = "idle" => \A m \in due \ failed' : N!BothTold(m)',
           call'[c].at # "idle" => N!Covers(c)'
    PROVE  N!RunsCover'
  <1>1. c \in N!Running /\ clock \notin {"early", "past"}
    BY DEF N!RunsCover, N!Running
  <1>2. \A j \in N!Running' : j = c \/ (j \in N!Running /\ call'[j].at = call[j].at)
    BY DEF N!Running
  <1>3. \A j \in N!Running' : call'[j].at = "targets" \/ N!Covers(j)'
    BY <1>2, CoversStay DEF N!RunsCover, N!Running
  <1>4. N!Running' = {} => call'[c].at = "idle"
    BY DEF N!Running
  <1> QED
    BY <1>1, <1>3, <1>4 DEF N!RunsCover

\* A run turns from a user it told to the next.
LEMMA AfterCovers ==
    ASSUME N!TypeOK, N!CallersFit, N!ConstantsApart, RowsStay, NEW c \in N!Jobs, N!Covers(c),
           call[c].at \in {"look"} \cup N!Telling, N!Told(call[c].about, call[c].to),
           call'[c] = N!After(c), todo' = todo, due' = due, failed' = failed
    PROVE  N!Covers(c)'
  <1> SUFFICES ASSUME NEW m \in due' \ failed' PROVE N!BothTold(m)' \/ m \in todo'[c] \/ N!AtHand(c, m)'
    BY DEF N!Covers
  <1>1. \A x, u : N!Told(x, u) => N!Told(x, u)'
    BY ToldStays
  <1>2. N!BothTold(m) => N!BothTold(m)'
    BY <1>1, AllTold, AllToldNext
  <1>3. CASE N!AtHand(c, m)
    <2>1. call[c].about = m /\ c \in N!Callers
      BY <1>3, Known DEF N!AtHand
    <2>2. CASE call[c].to = "customer"
      <3>1. call'[c] = N!Reminder(m, "mover")
        BY <2>1, <2>2, AfterIs
      <3>2. N!Told(m, "customer")'
        BY <1>1, <2>1, <2>2
      <3> QED
        BY <3>1, <3>2 DEF N!AtHand, N!Reminder, N!Turn, N!Telling
    <2>3. CASE call[c].to = "mover"
      BY <1>1, <1>3, <2>1, <2>3, AllToldNext DEF N!AtHand
    <2> QED
      BY <2>1, <2>2, <2>3, AfterIs DEF N!Users
  <1> QED
    BY <1>2, <1>3 DEF N!Covers

LEMMA SameRowsStay == ASSUME SameNotices PROVE RowsStay
  BY DEF SameNotices, RowsStay

\* A run's turn goes on with the same user.
LEMMA SameTurnCovers ==
    ASSUME RowsStay, NEW c, N!Covers(c), todo' = todo, due' = due, failed' = failed,
           call[c].at \in {"look", "write"} \cup N!Telling, call'[c].at \in {"look", "write"} \cup N!Telling,
           call'[c].to = call[c].to, call'[c].about = call[c].about,
           call'[c].at \in N!Telling => call[c].at \in N!Telling \/ N!Told(call[c].about, call[c].to)'
    PROVE  N!Covers(c)'
  <1> SUFFICES ASSUME NEW m \in due' \ failed' PROVE N!BothTold(m)' \/ m \in todo'[c] \/ N!AtHand(c, m)'
    BY DEF N!Covers
  <1>1. \A x, u : N!Told(x, u) => N!Told(x, u)'
    BY ToldStays
  <1>2. N!BothTold(m) => N!BothTold(m)'
    BY <1>1, AllTold, AllToldNext
  <1>3. N!AtHand(c, m) => N!AtHand(c, m)'
    BY <1>1 DEF N!AtHand
  <1> QED
    BY <1>2, <1>3 DEF N!Covers

LEMMA CallerCovers ==
    ASSUME N!TypeOK, N!CallersFit, N!ConstantsApart, N!RunsCover, NEW c \in N!Callers,
           \/ N!createNotification(c) \/ N!publishNotification(c)
           \/ N!countUnreadByReceiver(c) \/ N!publishUnreadCount(c) \/ N!Fail(c)
    PROVE  N!RunsCover'
  <1>0. UNCHANGED <<clock, server, cronRan, due, confirmed, todo>> /\ failed \subseteq failed'
    BY DEF N!createNotification, N!publishNotification, N!countUnreadByReceiver, N!publishUnreadCount, N!Fail, N!day, N!runs, N!TypeOK
  <1>1. RowsStay
    <2>1. CASE N!createNotification(c)
      <3>1. DOMAIN notices' = 1..Len(notices) + 1 /\ \A i \in DOMAIN notices : notices'[i] = notices[i]
        BY <2>1, CreateStep
      <3> QED
        BY <3>1, NoticesLen DEF RowsStay
    <2>2. CASE notices' = notices
      BY <2>2, SameIfUnchanged, SameRowsStay
    <2> QED
      BY <2>1, <2>2 DEF N!publishNotification, N!countUnreadByReceiver, N!publishUnreadCount, N!Fail
  <1>2. call[c].at # "idle" /\ \A j \in N!Callers : j # c => call'[j] = call[j]
    BY DEF N!createNotification, N!publishNotification, N!countUnreadByReceiver, N!publishUnreadCount, N!Fail, N!TypeOK
  <1>3. CASE c \in Handlers
    BY <1>0, <1>1, <1>2, <1>3, QuietCover, Known DEF N!ConstantsApart
  <1>4. CASE c \in N!Jobs
    <2>1. \A j \in N!Jobs : j # c => call'[j] = call[j] /\ todo'[j] = todo[j]
      BY <1>0, <1>2, Known
    <2>2. call[c].at = "targets" \/ N!Covers(c)
      BY <1>2, <1>4 DEF N!RunsCover, N!Running
    <2>3. call[c].at \in {"look", "write"} \cup N!Telling =>
             call[c].to \in N!Users /\ call[c].about \in Moves /\ call[c].type = N!ReminderType(call[c].to)
      BY <1>4 DEF N!CallersFit, N!RunsRemind
    <2>4. CASE N!createNotification(c)
      <3>1. PICK k : k = [at |-> "push", to |-> call[c].to, type |-> call[c].type,
                          about |-> call[c].about, n |-> Len(notices) + 1]
        OBVIOUS
      <3>2. Becomes(c, k) /\ call[c].at = "write" /\ failed' = failed
        BY <2>4, <3>1, CreateStep DEF N!createNotification, N!runs
      <3>3. PICK x : x = Len(notices) + 1
        OBVIOUS
      <3>4. x \in DOMAIN notices'
        <4>1. DOMAIN notices' = 1..Len(notices) + 1
          BY <2>4, CreateStep
        <4> QED
          BY <3>3, <4>1, NoticesLen
      <3>5. notices'[x].type = call[c].type /\ notices'[x].about = call[c].about
        <4>1. notices'[Len(notices) + 1] = [to |-> call[c].to, type |-> call[c].type,
                                            about |-> call[c].about, read |-> FALSE]
          BY <2>4, CreateStep
        <4> QED
          BY <3>3, <4>1
      <3>6. N!Told(call[c].about, call[c].to)'
        <4>1. PICK m : m = call[c].about
          OBVIOUS
        <4>2. PICK u : u = call[c].to
          OBVIOUS
        <4>3. N!Told(m, u)'
          BY <2>3, <3>2, <3>4, <3>5, <4>1, <4>2 DEF N!Told, N!About
        <4>4. call'[c].about = m /\ call'[c].to = u
          BY <3>1, <3>2, <4>1, <4>2 DEF Becomes
        <4> QED
          BY <4>3, <4>4
      <3>7. /\ call'[c].at = "push" /\ call'[c].to = call[c].to /\ call'[c].about = call[c].about
        BY <3>1, <3>2 DEF Becomes
      <3>8. N!Covers(c)'
        BY <1>0, <1>1, <2>2, <3>2, <3>6, <3>7, SameTurnCovers DEF N!Telling
      <3> QED
        BY <1>0, <1>1, <1>2, <1>4, <2>1, <3>7, <3>8, RunCovers
    <2>5. CASE N!publishNotification(c) \/ N!countUnreadByReceiver(c)
      <3>1. failed' = failed
        BY <2>5 DEF N!publishNotification, N!countUnreadByReceiver, N!runs
      <3>2. /\ call[c].at \in N!Telling /\ call'[c].at \in {"count", "tell"}
            /\ call'[c].to = call[c].to /\ call'[c].about = call[c].about
        <4>1. CASE N!publishNotification(c)
          <5>1. PICK k : k = [at |-> "count", to |-> call[c].to, type |-> call[c].type,
                              about |-> call[c].about, n |-> call[c].n]
            OBVIOUS
          <5>2. Becomes(c, k) /\ call[c].at = "push"
            BY <4>1, <5>1, PublishStep
          <5> QED
            BY <5>1, <5>2 DEF Becomes, N!Telling
        <4>2. CASE N!countUnreadByReceiver(c)
          <5>1. PICK k : k = [at |-> "tell", to |-> call[c].to, type |-> call[c].type,
                              about |-> call[c].about, n |-> N!Unread(call[c].to)]
            OBVIOUS
          <5>2. Becomes(c, k) /\ call[c].at = "count"
            BY <4>2, <5>1, CountStep
          <5> QED
            BY <5>1, <5>2 DEF Becomes, N!Telling
        <4> QED
          BY <2>5, <4>1, <4>2
      <3>3. N!Covers(c)'
        BY <1>0, <1>1, <2>2, <3>1, <3>2, SameTurnCovers DEF N!Telling
      <3> QED
        BY <1>0, <1>1, <1>2, <1>4, <2>1, <3>2, <3>3, RunCovers
    <2>6. CASE N!publishUnreadCount(c)
      <3>1. failed' = failed /\ call'[c] = N!After(c) /\ call[c].at = "tell"
        BY <2>6, TellStep DEF N!publishUnreadCount, N!runs, Becomes
      <3>2. N!Told(call[c].about, call[c].to) \/ \A m : ~N!AtHand(c, m)
        BY <3>1 DEF N!AtHand, N!Telling
      <3>3. N!Covers(c)'
        <4>1. CASE N!Told(call[c].about, call[c].to)
          BY <1>0, <1>1, <1>4, <2>2, <3>1, <4>1, AfterCovers DEF N!Telling
        <4>2. CASE \A m : ~N!AtHand(c, m)
          BY <1>0, <1>1, <2>2, <3>1, <4>2, ToldStays, AllTold, AllToldNext DEF N!Covers
        <4> QED
          BY <3>2, <4>1, <4>2
      <3>4. call'[c].at # "idle"
        BY <1>4, <3>1, AfterIs DEF N!Telling, N!Users, N!Reminder, N!NextMove, N!Turn
      <3> QED
        BY <1>0, <1>1, <1>2, <1>4, <2>1, <3>3, <3>4, RunCovers
    <2>7. CASE N!Fail(c)
      <3>1. CASE call[c].at = "targets"
        <4>1. call'[c] = N!Idle /\ failed' = Moves
          BY <1>4, <2>7, <3>1, FailStep DEF Becomes, N!Fail
        <4>2. due \subseteq failed'
          BY <4>1 DEF N!TypeOK
        <4>3. call'[c].at = "idle"
          BY <4>1 DEF N!Idle, N!Turn
        <4> QED
          BY <1>0, <1>1, <1>2, <1>4, <2>1, <4>2, <4>3, RunCovers
      <3>2. CASE call[c].at # "targets"
        <4>1. call'[c] = N!NextMove /\ failed' = failed \cup {call[c].about}
          BY <1>4, <2>7, <3>2, FailStep DEF Becomes, N!Fail
        <4>2. N!Covers(c)'
          <5> SUFFICES ASSUME NEW m \in due' \ failed' PROVE N!BothTold(m)' \/ m \in todo'[c] \/ N!AtHand(c, m)'
            BY DEF N!Covers
          <5>1. N!BothTold(m) => N!BothTold(m)'
            BY <1>1, ToldStays, AllTold, AllToldNext
          <5>2. ~N!AtHand(c, m)
            BY <4>1 DEF N!AtHand
          <5> QED
            BY <1>0, <2>2, <3>2, <4>1, <5>1, <5>2 DEF N!Covers
        <4>3. call'[c].at # "idle"
          BY <4>1 DEF N!NextMove, N!Turn
        <4> QED
          BY <1>0, <1>1, <1>2, <1>4, <2>1, <4>2, <4>3, RunCovers
      <3> QED
        BY <3>1, <3>2
    <2> QED
      BY <2>4, <2>5, <2>6, <2>7
  <1> QED
    BY <1>3, <1>4 DEF N!Callers

LEMMA JobCovers ==
    ASSUME N!TypeOK, N!CallersFit, N!ConstantsApart, N!RunsCover, NEW c \in N!Jobs,
           \/ N!findConfirmedMovesOnDate(c) \/ N!runMoveDayReminderJob(c) \/ N!createMoveDayReminderIfAbsent(c)
    PROVE  N!RunsCover'
  <1>0. /\ UNCHANGED <<clock, server, cronRan, due, confirmed, failed, notices>> /\ call[c].at # "idle"
        /\ c \in N!Callers
    BY Known DEF N!findConfirmedMovesOnDate, N!runMoveDayReminderJob, N!createMoveDayReminderIfAbsent, N!day, N!runs
  <1>1. RowsStay
    BY <1>0, SameIfUnchanged, SameRowsStay
  <1>2. \A j \in N!Jobs : j # c => call'[j] = call[j] /\ todo'[j] = todo[j]
    BY Known DEF N!findConfirmedMovesOnDate, N!runMoveDayReminderJob, N!createMoveDayReminderIfAbsent, N!runs, N!TypeOK
  <1>3. call[c].at = "targets" \/ N!Covers(c)
    BY <1>0 DEF N!RunsCover, N!Running
  <1>4. \A m : N!BothTold(m) => N!BothTold(m)'
    BY <1>1, ToldStays, AllTold, AllToldNext
  <1>5. CASE N!findConfirmedMovesOnDate(c)
    <2>1. call'[c].at = "next"
      BY <1>5, JobSteps DEF Becomes, N!NextMove, N!Turn
    <2>2. todo'[c] = confirmed /\ due \subseteq confirmed
      BY <1>5 DEF N!findConfirmedMovesOnDate, N!RunsCover, N!TypeOK
    <2>3. N!Covers(c)'
      BY <1>0, <2>2 DEF N!Covers
    <2> QED
      BY <1>0, <1>1, <1>2, <2>1, <2>3, RunCovers
  <1>6. CASE N!runMoveDayReminderJob(c)
    <2>1. call[c].at = "next" /\ \A m : ~N!AtHand(c, m)
      BY <1>6 DEF N!runMoveDayReminderJob, N!AtHand, N!Telling
    <2>2. \A m \in due \ failed : N!BothTold(m)' \/ m \in todo[c]
      BY <1>3, <1>4, <2>1 DEF N!Covers
    <2>3. CASE todo[c] = {} /\ Becomes(c, N!Idle)
      <3>1. call'[c].at = "idle"
        BY <2>3 DEF Becomes, N!Idle, N!Turn
      <3> QED
        BY <1>0, <1>1, <1>2, <2>2, <2>3, <3>1, RunCovers
    <2>4. ASSUME NEW x \in todo[c], todo' = [todo EXCEPT ![c] = @ \ {x}], Becomes(c, N!Reminder(x, "customer"))
          PROVE  N!RunsCover'
      <3>1. call'[c].at = "look" /\ call'[c].about = x /\ call'[c].to = "customer"
        BY <2>4 DEF Becomes, N!Reminder, N!Turn
      <3>2. todo'[c] = todo[c] \ {x}
        BY <2>4 DEF N!TypeOK
      <3>3. N!Covers(c)'
        BY <1>0, <2>2, <3>1, <3>2 DEF N!Covers, N!AtHand, N!Telling
      <3> QED
        BY <1>0, <1>1, <1>2, <3>1, <3>3, RunCovers
    <2> QED
      BY <1>6, <2>3, <2>4, JobSteps
  <1>7. CASE N!createMoveDayReminderIfAbsent(c)
    <2>0. call[c].at = "look" /\ todo' = todo
      BY <1>7, LookStep DEF N!createMoveDayReminderIfAbsent, N!runs
    <2>1. CASE N!existsByReceiverTypeAndEstimate(call[c]) /\ Becomes(c, N!After(c))
      <3>1. N!Told(call[c].about, call[c].to)
        BY <2>0, <2>1 DEF N!existsByReceiverTypeAndEstimate, N!Told, N!About, N!CallersFit, N!RunsRemind
      <3>2. N!Covers(c)'
        BY <1>0, <1>1, <1>3, <2>0, <2>1, <3>1, AfterCovers DEF Becomes
      <3>3. call'[c].at # "idle"
        BY <1>0, <2>0, <2>1, AfterIs DEF Becomes, N!Users, N!Reminder, N!NextMove, N!Turn
      <3> QED
        BY <1>0, <1>1, <1>2, <3>2, <3>3, RunCovers
    <2>2. CASE Becomes(c, [at |-> "write", to |-> call[c].to, type |-> call[c].type,
                           about |-> call[c].about, n |-> call[c].n])
      <3>1. call'[c].at = "write" /\ call'[c].to = call[c].to /\ call'[c].about = call[c].about
        BY <2>2 DEF Becomes
      <3>2. N!Covers(c)'
        BY <1>0, <1>1, <1>3, <2>0, <3>1, SameTurnCovers DEF N!Telling
      <3> QED
        BY <1>0, <1>1, <1>2, <3>1, <3>2, RunCovers
    <2> QED
      BY <1>7, <2>1, <2>2, LookStep
  <1> QED
    BY <1>5, <1>6, <1>7

LEMMA ServerCovers ==
    ASSUME N!TypeOK, N!CallersFit, N!ConstantsApart, N!RunsCover,
           N!Cron \/ N!Boot \/ N!Stop \/ N!Tick \/ \E m \in Moves : N!Confirm(m)
    PROVE  N!RunsCover'
  <1>0. notices' = notices /\ failed' = failed
    BY DEF N!Cron, N!Boot, N!Stop, N!Tick, N!Confirm, N!runs
  <1>1. RowsStay
    BY <1>0, SameIfUnchanged, SameRowsStay
  <1>2. \A m : N!BothTold(m) => N!BothTold(m)'
    BY <1>1, ToldStays, AllTold, AllToldNext
  <1>3. ASSUME NEW j \in N!Jobs, N!startRun(j), clock \in {"nine", "late"},
               UNCHANGED <<clock, due, confirmed, todo>>
        PROVE  N!RunsCover'
    <2>1. call'[j].at = "targets" /\ \A i \in N!Jobs : i # j => call'[i] = call[i]
      BY <1>3, StartStep, Known DEF Becomes, N!Turn
    <2>2. \A i \in N!Jobs : i # j /\ N!Covers(i) => N!Covers(i)'
      BY <1>0, <1>1, <1>3, <2>1, CoversStay
    <2>3. \A i \in N!Running' : call'[i].at = "targets" \/ N!Covers(i)'
      BY <2>1, <2>2 DEF N!Running, N!RunsCover
    <2>4. j \in N!Running'
      BY <2>1 DEF N!Running
    <2> QED
      BY <1>3, <2>3, <2>4 DEF N!RunsCover
  <1>4. CASE N!Cron
    BY <1>3, <1>4, Known DEF N!Cron
  <1>5. CASE N!Boot
    <2>1. CASE N!isAtOrAfterNineKst
      BY <1>3, <1>5, <2>1, Known DEF N!Boot, N!isAtOrAfterNineKst, N!day
    <2>2. CASE ~N!isAtOrAfterNineKst
      <3>1. UNCHANGED <<call, clock, due, confirmed, todo, cronRan>> /\ clock \in {"early", "past"}
        BY <1>5, <2>2 DEF N!Boot, N!isAtOrAfterNineKst, N!day, N!TypeOK
      <3>2. N!Running = {} /\ ~cronRan
        BY <3>1 DEF N!RunsCover
      <3>3. N!Running' = {}
        BY <3>1, <3>2 DEF N!Running
      <3> QED
        BY <3>1, <3>2, <3>3 DEF N!RunsCover
    <2> QED
      BY <2>1, <2>2
  <1>6. CASE N!Stop
    <2>1. N!Running' = {}
      BY <1>6, StopStep, Known DEF N!Running, N!Idle, N!Turn
    <2> QED
      BY <1>6, <2>1, StopStep DEF N!RunsCover
  <1>7. CASE N!Tick
    <2>1. UNCHANGED <<call, todo, server, cronRan, confirmed>>
      BY <1>7 DEF N!Tick, N!runs
    <2>2. N!Running' = N!Running
      BY <2>1 DEF N!Running
    <2>3. CASE clock = "early" /\ clock' = "nine" /\ due' = confirmed
      BY <2>1, <2>2, <2>3 DEF N!RunsCover
    <2>4. CASE clock = "nine" /\ clock' = "late" /\ (server = "up" => cronRan) /\ UNCHANGED due
      <3>1. \A j \in N!Running : call'[j].at = "targets" \/ N!Covers(j)'
        BY <1>0, <1>1, <2>1, <2>4, CoversStay DEF N!RunsCover
      <3> QED
        BY <1>0, <1>2, <2>1, <2>2, <2>4, <3>1 DEF N!RunsCover
    <2> QED
      BY <1>7, <2>3, <2>4 DEF N!Tick
  <1>8. ASSUME NEW m \in Moves, N!Confirm(m) PROVE N!RunsCover'
    BY <1>0, <1>1, <1>8, QuietCover DEF N!Confirm, N!day, N!runs
  <1> QED
    BY <1>4, <1>5, <1>6, <1>7, <1>8

LEMMA CoverKept ==
    ASSUME N!TypeOK, N!CallersFit, N!ConstantsApart, N!RunsCover, [N!Next]_(N!vars)
    PROVE  N!RunsCover'
  <1>1. ASSUME SameNotices, \A j \in N!Jobs : call'[j] = call[j],
               UNCHANGED <<clock, server, cronRan, todo, due, failed, confirmed>>
        PROVE  N!RunsCover'
    BY <1>1, QuietCover, SameRowsStay
  <1> QED
    BY <1>1, CallerCovers, JobCovers, ServerCovers, HandlerSteps, OtherSteps, SameIfUnchanged DEF N!Next
-----------------------------------------------------------------------------
(* A review is told of once. *)
TellsSame(h) ==
    /\ call'[h].type = call[h].type /\ call'[h].about = call[h].about
    /\ call'[h].at \in N!Telling <=> call[h].at \in N!Telling
TellsNone(h) ==
    /\ call'[h].type # "REVIEW_WRITTEN"
    /\ call[h].type = "REVIEW_WRITTEN" =>
          \/ call[h].at \in N!Telling \/ call[h].about \in lost'
          \/ ~reviews'[call[h].about].live
SameReviewNotices == \A r : N!About("REVIEW_WRITTEN", r)' = N!About("REVIEW_WRITTEN", r)

LEMMA SameAbout == ASSUME SameNotices PROVE SameReviewNotices
  BY DEF SameNotices, SameReviewNotices, N!About

LEMMA ReviewNoticesAbout ==
    N!ReviewsTold => \A r : N!About("REVIEW_WRITTEN", r) # {} => r \in DOMAIN reviews
  BY DEF N!ReviewsTold, N!About

LEMMA QuietTold ==
    ASSUME N!ReviewsTold, SameReviewNotices, lost \subseteq lost', DOMAIN reviews' = DOMAIN reviews,
           \A q \in DOMAIN reviews : reviews'[q].move = reviews[q].move /\ (reviews'[q].live => reviews[q].live),
           \A h \in Handlers : TellsSame(h) \/ TellsNone(h)
    PROVE  N!ReviewsTold'
  <1>1. \A r, q \in DOMAIN reviews' :
          reviews'[r].live /\ reviews'[q].live /\ reviews'[r].move = reviews'[q].move => r = q
    BY DEF N!ReviewsTold
  <1>2. \A i \in DOMAIN notices' : notices'[i].type = "REVIEW_WRITTEN" => notices'[i].about \in DOMAIN reviews'
    <2> SUFFICES ASSUME NEW i \in DOMAIN notices', notices'[i].type = "REVIEW_WRITTEN"
                 PROVE  notices'[i].about \in DOMAIN reviews
      OBVIOUS
    <2>1. PICK r : r = notices'[i].about
      OBVIOUS
    <2>2. i \in N!About("REVIEW_WRITTEN", r)'
      BY <2>1 DEF N!About
    <2>3. N!About("REVIEW_WRITTEN", r) # {}
      BY <2>2 DEF SameReviewNotices
    <2> QED
      BY <2>1, <2>3, ReviewNoticesAbout
  <1>3. ASSUME NEW r \in DOMAIN reviews
        PROVE  /\ \A i, k \in N!About("REVIEW_WRITTEN", r)' : i = k
               /\ \A h, g \in Handlers : N!TellsOf(h, r)' /\ N!TellsOf(g, r)' => h = g
               /\ \A h \in Handlers : N!TellsOf(h, r)' =>
                    (call'[h].at \in N!Telling <=> N!About("REVIEW_WRITTEN", r)' # {})
               /\ reviews'[r].live /\ N!About("REVIEW_WRITTEN", r)' = {} =>
                    r \in lost' \/ \E h \in Handlers : N!TellsOf(h, r)'
    <2>1. N!About("REVIEW_WRITTEN", r)' = N!About("REVIEW_WRITTEN", r)
      BY DEF SameReviewNotices
    <2>2. \A h \in Handlers : N!TellsOf(h, r)' => N!TellsOf(h, r) /\ TellsSame(h)
      BY DEF N!TellsOf, TellsSame, TellsNone
    <2>3. \A h \in Handlers : TellsSame(h) /\ N!TellsOf(h, r) => N!TellsOf(h, r)'
      BY DEF N!TellsOf, TellsSame
    <2>4. \A i, k \in N!About("REVIEW_WRITTEN", r)' : i = k
      BY <2>1 DEF N!ReviewsTold
    <2>5. \A h, g \in Handlers : N!TellsOf(h, r)' /\ N!TellsOf(g, r)' => h = g
      BY <2>2 DEF N!ReviewsTold
    <2>6. \A h \in Handlers : N!TellsOf(h, r)' =>
                    (call'[h].at \in N!Telling <=> N!About("REVIEW_WRITTEN", r)' # {})
      BY <2>1, <2>2 DEF N!ReviewsTold, TellsSame
    <2>7. ASSUME reviews'[r].live, N!About("REVIEW_WRITTEN", r)' = {}, r \notin lost'
          PROVE  \E h \in Handlers : N!TellsOf(h, r)'
      <3>1. PICK h \in Handlers : N!TellsOf(h, r)
        BY <2>1, <2>7 DEF N!ReviewsTold
      <3>2. call[h].at \notin N!Telling
        BY <2>1, <2>7, <3>1 DEF N!ReviewsTold
      <3>3. ~TellsNone(h)
        BY <2>7, <3>1, <3>2 DEF TellsNone, N!TellsOf
      <3> QED
        BY <2>3, <3>1, <3>3
    <2> QED
      BY <2>4, <2>5, <2>6, <2>7
  <1> QED
    BY <1>1, <1>2, <1>3 DEF N!ReviewsTold

\* A notice is written of a review, once; or of something else.
LEMMA CreateTold ==
    ASSUME N!TypeOK, N!CallersFit, N!ConstantsApart, N!ReviewsTold, NEW c \in N!Callers, N!createNotification(c)
    PROVE  N!ReviewsTold'
  <1>1. PICK x : x = Len(notices) + 1
    OBVIOUS
  <1>2. PICK k : k = [at |-> "push", to |-> call[c].to, type |-> call[c].type,
                      about |-> call[c].about, n |-> Len(notices) + 1]
    OBVIOUS
  <1>3. Becomes(c, k) /\ call[c].at = "write"
    BY <1>2, CreateStep
  <1>4. call'[c].at = "push" /\ call'[c].type = call[c].type /\ call'[c].about = call[c].about
    BY <1>2, <1>3 DEF Becomes
  <1>5. \A h \in N!Callers : h # c => call'[h] = call[h]
    BY <1>3 DEF Becomes
  <1>6. reviews' = reviews /\ lost' = lost
    BY DEF N!createNotification
  <1>7. /\ x \notin DOMAIN notices /\ DOMAIN notices' = DOMAIN notices \cup {x}
        /\ \A i \in DOMAIN notices : notices'[i] = notices[i]
    <2>1. DOMAIN notices' = 1..Len(notices) + 1 /\ \A i \in DOMAIN notices : notices'[i] = notices[i]
      BY CreateStep
    <2> QED
      BY <1>1, <2>1, NoticesLen
  <1>8. notices'[x].type = call[c].type /\ notices'[x].about = call[c].about
    <2>1. notices'[Len(notices) + 1] = [to |-> call[c].to, type |-> call[c].type,
                                        about |-> call[c].about, read |-> FALSE]
      BY CreateStep
    <2> QED
      BY <1>1, <2>1
  <1>9. CASE call[c].type # "REVIEW_WRITTEN"
    <2>1. SameReviewNotices
      BY <1>7, <1>8, <1>9 DEF SameReviewNotices, N!About
    <2>2. \A h \in Handlers : TellsSame(h) \/ TellsNone(h)
      BY <1>4, <1>5, <1>9, Known DEF TellsSame, TellsNone
    <2> QED
      BY <1>6, <2>1, <2>2, QuietTold
  <1>10. CASE call[c].type = "REVIEW_WRITTEN"
    <2>1. PICK r : r = call[c].about
      OBVIOUS
    <2>2. c \in Handlers
      BY <1>3, <1>10 DEF N!CallersFit, N!RunsRemind, N!ReminderType, N!Callers
    <2>3. N!TellsOf(c, r) /\ r \in DOMAIN reviews
      BY <1>10, <2>1, <2>2 DEF N!TellsOf, N!CallersFit, N!CallsTell
    <2>4. N!About("REVIEW_WRITTEN", r) = {}
      BY <1>3, <2>2, <2>3 DEF N!ReviewsTold, N!Telling
    <2>5. N!About("REVIEW_WRITTEN", r)' = {x}
      BY <1>7, <1>8, <1>10, <2>1, <2>4 DEF N!About
    <2>6. \A q : q # r => N!About("REVIEW_WRITTEN", q)' = N!About("REVIEW_WRITTEN", q)
      BY <1>7, <1>8, <2>1 DEF N!About
    <2>7. \A q : \A h \in Handlers : N!TellsOf(h, q)' <=> N!TellsOf(h, q)
      BY <1>4, <1>5, Known DEF N!TellsOf
    <2>8. \A i \in DOMAIN notices' : notices'[i].type = "REVIEW_WRITTEN" => notices'[i].about \in DOMAIN reviews'
      BY <1>6, <1>7, <1>8, <2>1, <2>3 DEF N!ReviewsTold
    <2>9. ASSUME NEW q \in DOMAIN reviews
          PROVE  /\ \A i, l \in N!About("REVIEW_WRITTEN", q)' : i = l
                 /\ \A h, g \in Handlers : N!TellsOf(h, q)' /\ N!TellsOf(g, q)' => h = g
                 /\ \A h \in Handlers : N!TellsOf(h, q)' =>
                      (call'[h].at \in N!Telling <=> N!About("REVIEW_WRITTEN", q)' # {})
                 /\ reviews'[q].live /\ N!About("REVIEW_WRITTEN", q)' = {} =>
                      q \in lost' \/ \E h \in Handlers : N!TellsOf(h, q)'
      <3>1. \A h, g \in Handlers : N!TellsOf(h, q)' /\ N!TellsOf(g, q)' => h = g
        BY <2>7 DEF N!ReviewsTold
      <3>2. CASE q = r
        <4>1. \A h \in Handlers : N!TellsOf(h, q) => h = c
          BY <2>2, <2>3, <3>2 DEF N!ReviewsTold
        <4> QED
          BY <1>4, <2>5, <2>7, <3>1, <3>2, <4>1 DEF N!Telling
      <3>3. CASE q # r
        <4>1. \A h \in Handlers : N!TellsOf(h, q) => h # c
          BY <2>3, <3>3 DEF N!TellsOf
        <4>2. \A h \in Handlers : N!TellsOf(h, q) => call'[h] = call[h]
          BY <1>5, <4>1, Known
        <4>3. N!About("REVIEW_WRITTEN", q)' = N!About("REVIEW_WRITTEN", q)
          BY <2>6, <3>3
        <4>4. \A i, l \in N!About("REVIEW_WRITTEN", q)' : i = l
          BY <4>3 DEF N!ReviewsTold
        <4>5. \A h \in Handlers : N!TellsOf(h, q)' =>
                      (call'[h].at \in N!Telling <=> N!About("REVIEW_WRITTEN", q)' # {})
          BY <2>7, <4>2, <4>3 DEF N!ReviewsTold
        <4>6. reviews'[q].live /\ N!About("REVIEW_WRITTEN", q)' = {} =>
                      q \in lost' \/ \E h \in Handlers : N!TellsOf(h, q)'
          BY <1>6, <2>7, <4>3 DEF N!ReviewsTold
        <4> QED
          BY <3>1, <4>4, <4>5, <4>6
      <3> QED
        BY <3>2, <3>3
    <2>10. \A p, q \in DOMAIN reviews' :
          reviews'[p].live /\ reviews'[q].live /\ reviews'[p].move = reviews'[q].move => p = q
      BY <1>6 DEF N!ReviewsTold
    <2> QED
      BY <1>6, <2>8, <2>9, <2>10 DEF N!ReviewsTold
  <1> QED
    BY <1>9, <1>10

\* The insert: the review is new, its caller is to tell of it.
LEMMA InsertTold ==
    ASSUME N!TypeOK, N!CallersFit, N!ConstantsApart, N!ReviewsTold, NEW h \in Handlers, N!insertReview(h)
    PROVE  N!ReviewsTold'
  <1>0. /\ call[h].at = "insert" /\ call[h].about \in Moves /\ call[h].type = None /\ h \in N!Callers
        /\ lost' = lost /\ notices' = notices
    BY InsertReviewStep, Known DEF N!insertReview
  <1>1. SameReviewNotices
    BY <1>0, SameIfUnchanged, SameAbout
  <1>2. CASE Becomes(h, N!Idle) /\ reviews' = reviews
    <2>1. TellsNone(h)
      BY <1>0, <1>2 DEF TellsNone, Becomes, N!Idle, N!Turn, N!ConstantsApart, N!NotificationType
    <2>2. \A g \in Handlers : TellsSame(g) \/ TellsNone(g)
      BY <1>2, <2>1, Known DEF TellsSame, Becomes
    <2> QED
      BY <1>0, <1>1, <1>2, <2>2, QuietTold
  <1>3. CASE /\ N!LiveReviews(call[h].about) = {}
             /\ Becomes(h, N!Turn("context", None, "REVIEW_WRITTEN", Len(reviews) + 1))
             /\ Len(reviews') = Len(reviews) + 1 /\ DOMAIN reviews' = 1..Len(reviews) + 1
             /\ \A r \in DOMAIN reviews : reviews'[r] = reviews[r]
             /\ reviews'[Len(reviews) + 1] = [move |-> call[h].about, rating |-> 5, live |-> TRUE]
    <2>1. PICK x : x = Len(reviews) + 1
      OBVIOUS
    <2>2. x \notin DOMAIN reviews /\ DOMAIN reviews' = DOMAIN reviews \cup {x}
      BY <1>3, <2>1, NoticesLen
    <2>3. reviews'[x].move = call[h].about
      BY <1>3, <2>1
    <2>4. call'[h].at = "context" /\ call'[h].type = "REVIEW_WRITTEN" /\ call'[h].about = x
      BY <1>3, <2>1 DEF Becomes, N!Turn
    <2>5. \A g \in Handlers : g # h => call'[g] = call[g]
      BY <1>3, Known DEF Becomes
    <2>6. N!About("REVIEW_WRITTEN", x) = {}
      BY <2>2, ReviewNoticesAbout
    <2>7. \A p, q \in DOMAIN reviews' :
            reviews'[p].live /\ reviews'[q].live /\ reviews'[p].move = reviews'[q].move => p = q
      <3>1. \A p \in DOMAIN reviews : ~(reviews[p].live /\ reviews[p].move = call[h].about)
        BY <1>3 DEF N!LiveReviews
      <3>2. \A p, q \in DOMAIN reviews : reviews[p].live /\ reviews[q].live /\ reviews[p].move = reviews[q].move => p = q
        BY DEF N!ReviewsTold
      <3>3. \A p \in DOMAIN reviews : reviews'[p] = reviews[p]
        BY <1>3
      <3> QED
        BY <2>2, <2>3, <3>1, <3>2, <3>3
    <2>8. \A i \in DOMAIN notices' : notices'[i].type = "REVIEW_WRITTEN" => notices'[i].about \in DOMAIN reviews'
      BY <1>0, <2>2 DEF N!ReviewsTold
    <2>9. \A g \in Handlers : ~N!TellsOf(g, x)
      BY <2>2 DEF N!TellsOf, N!CallersFit, N!CallsTell
    <2>10. \A g \in Handlers : g # h => ~N!TellsOf(g, x)'
      BY <2>5, <2>9 DEF N!TellsOf
    <2>11. ASSUME NEW q \in DOMAIN reviews'
          PROVE  /\ \A i, l \in N!About("REVIEW_WRITTEN", q)' : i = l
                 /\ \A f, g \in Handlers : N!TellsOf(f, q)' /\ N!TellsOf(g, q)' => f = g
                 /\ \A g \in Handlers : N!TellsOf(g, q)' =>
                      (call'[g].at \in N!Telling <=> N!About("REVIEW_WRITTEN", q)' # {})
                 /\ reviews'[q].live /\ N!About("REVIEW_WRITTEN", q)' = {} =>
                      q \in lost' \/ \E g \in Handlers : N!TellsOf(g, q)'
      <3>1. N!About("REVIEW_WRITTEN", q)' = N!About("REVIEW_WRITTEN", q)
        BY <1>1 DEF SameReviewNotices
      <3>2. CASE q = x
        <4>1. N!About("REVIEW_WRITTEN", q)' = {}
          BY <2>6, <3>1, <3>2
        <4>2. N!TellsOf(h, q)'
          BY <2>4, <3>2 DEF N!TellsOf
        <4>3. \A f \in Handlers : N!TellsOf(f, q)' => f = h
          BY <2>10, <3>2
        <4> QED
          BY <2>4, <4>1, <4>2, <4>3 DEF N!Telling
      <3>3. CASE q # x
        <4>0. q \in DOMAIN reviews /\ reviews'[q] = reviews[q]
          BY <1>3, <2>2, <3>3
        <4>1. ~N!TellsOf(h, q)' /\ ~N!TellsOf(h, q)
          BY <1>0, <2>4, <3>3 DEF N!TellsOf, N!ConstantsApart, N!NotificationType
        <4>2. \A g \in Handlers : (N!TellsOf(g, q)' <=> N!TellsOf(g, q)) /\ (N!TellsOf(g, q) => call'[g] = call[g])
          BY <2>5, <4>1 DEF N!TellsOf
        <4>3. \A i, l \in N!About("REVIEW_WRITTEN", q)' : i = l
          BY <3>1, <4>0 DEF N!ReviewsTold
        <4>4. \A f, g \in Handlers : N!TellsOf(f, q)' /\ N!TellsOf(g, q)' => f = g
          BY <4>0, <4>2 DEF N!ReviewsTold
        <4>5. \A g \in Handlers : N!TellsOf(g, q)' =>
                      (call'[g].at \in N!Telling <=> N!About("REVIEW_WRITTEN", q)' # {})
          BY <3>1, <4>0, <4>2 DEF N!ReviewsTold
        <4>6. reviews'[q].live /\ N!About("REVIEW_WRITTEN", q)' = {} =>
                      q \in lost' \/ \E g \in Handlers : N!TellsOf(g, q)'
          BY <1>0, <3>1, <4>0, <4>2 DEF N!ReviewsTold
        <4> QED
          BY <4>3, <4>4, <4>5, <4>6
      <3> QED
        BY <3>2, <3>3
    <2> QED
      BY <2>7, <2>8, <2>11 DEF N!ReviewsTold
  <1> QED
    BY <1>2, <1>3, InsertReviewStep

LEMMA ToldKept ==
    ASSUME N!TypeOK, N!CallersFit, N!ConstantsApart, N!ReviewsTold, [N!Next]_(N!vars)
    PROVE  N!ReviewsTold'
  <1>0. \A h \in Handlers : call'[h] = call[h] => TellsSame(h)
    BY DEF TellsSame
  <1>10. \A h \in Handlers : call[h].type = "REVIEW_WRITTEN" =>
            call[h].at \in {"context", "write"} \cup N!Telling /\ call[h].about \in DOMAIN reviews
    BY DEF N!CallersFit, N!CallsTell
  <1>1. ASSUME SameReviewNotices, lost \subseteq lost', reviews' = reviews,
               \A h \in Handlers : TellsSame(h) \/ TellsNone(h)
        PROVE  N!ReviewsTold'
    BY <1>1, QuietTold
  <1>2. ASSUME NEW c \in N!Callers, N!publishNotification(c) \/ N!countUnreadByReceiver(c)
        PROVE  N!ReviewsTold'
    <2>1. UNCHANGED <<notices, reviews, lost>>
      BY <1>2 DEF N!publishNotification, N!countUnreadByReceiver
    <2>2. TellsSame(c) /\ \A d \in N!Callers : d # c => call'[d] = call[d]
      <3>1. CASE N!publishNotification(c)
        <4>1. PICK k : k = [at |-> "count", to |-> call[c].to, type |-> call[c].type,
                            about |-> call[c].about, n |-> call[c].n]
          OBVIOUS
        <4>2. Becomes(c, k) /\ call[c].at = "push"
          BY <3>1, <4>1, PublishStep
        <4> QED
          BY <4>1, <4>2 DEF Becomes, N!Telling, TellsSame
      <3>2. CASE N!countUnreadByReceiver(c)
        <4>1. PICK k : k = [at |-> "tell", to |-> call[c].to, type |-> call[c].type,
                            about |-> call[c].about, n |-> N!Unread(call[c].to)]
          OBVIOUS
        <4>2. Becomes(c, k) /\ call[c].at = "count"
          BY <3>2, <4>1, CountStep
        <4> QED
          BY <4>1, <4>2 DEF Becomes, N!Telling, TellsSame
      <3> QED
        BY <1>2, <3>1, <3>2
    <2> QED
      BY <1>0, <1>1, <2>1, <2>2, SameIfUnchanged, SameAbout, Known
  <1>3. ASSUME NEW c \in N!Callers, N!publishUnreadCount(c) \/ N!Fail(c)
        PROVE  N!ReviewsTold'
    <2>1. UNCHANGED <<notices, reviews>> /\ lost \subseteq lost'
      BY <1>3 DEF N!publishUnreadCount, N!Fail
    <2>2. \A d \in N!Callers : d # c => call'[d] = call[d]
      BY <1>3, TellStep, FailStep DEF Becomes, N!Callers
    <2>3. c \in Handlers => TellsNone(c)
      <3>1. CASE N!publishUnreadCount(c)
        BY <3>1, TellStep, AfterIs DEF Becomes, N!Telling, TellsNone, N!Idle, N!Turn, N!ConstantsApart, N!NotificationType
      <3>2. CASE N!Fail(c)
        <4>1. c \in Handlers => call'[c] = N!Idle /\ (call[c].type = "REVIEW_WRITTEN" =>
                  call[c].at = "count" \/ call[c].about \in lost')
          <5>1. c \in Handlers => call'[c] = N!Idle
            BY <3>2, FailStep DEF Becomes
          <5>2. call[c].type = "REVIEW_WRITTEN" /\ call[c].at \in {"context", "write"} => call[c].about \in lost'
            BY <3>2 DEF N!Fail
          <5>3. call[c].at \in {"targets", "look", "context", "write", "count"}
            BY <3>2 DEF N!Fail
          <5> QED
            BY <1>10, <5>1, <5>2, <5>3 DEF N!Telling
        <4> QED
          BY <4>1 DEF N!Telling, TellsNone, N!Idle, N!Turn, N!ConstantsApart, N!NotificationType
      <3> QED
        BY <1>3, <3>1, <3>2
    <2> QED
      BY <1>0, <1>1, <2>1, <2>2, <2>3, SameIfUnchanged, SameAbout, Known
  <1>4. ASSUME NEW j \in N!Jobs,
               \/ N!findConfirmedMovesOnDate(j) \/ N!runMoveDayReminderJob(j) \/ N!createMoveDayReminderIfAbsent(j)
        PROVE  N!ReviewsTold'
    <2>1. UNCHANGED <<notices, reviews, lost>>
      BY <1>4 DEF N!findConfirmedMovesOnDate, N!runMoveDayReminderJob, N!createMoveDayReminderIfAbsent
    <2>2. \A d \in Handlers : call'[d] = call[d]
      BY <1>4, Known DEF N!findConfirmedMovesOnDate, N!runMoveDayReminderJob, N!createMoveDayReminderIfAbsent,
         N!ConstantsApart, N!TypeOK
    <2> QED
      BY <1>0, <1>1, <2>1, <2>2, SameIfUnchanged, SameAbout
  <1>5. ASSUME N!Cron \/ N!Boot \/ N!Tick \/ \E m \in Moves : N!Confirm(m) PROVE N!ReviewsTold'
    <2>1. UNCHANGED <<notices, reviews, lost>>
      BY <1>5 DEF N!Cron, N!Boot, N!Tick, N!Confirm
    <2>2. \A d \in Handlers : call'[d] = call[d]
      BY <1>5, Known DEF N!Cron, N!Boot, N!Tick, N!Confirm, N!startRun, N!ConstantsApart, N!TypeOK
    <2> QED
      BY <1>0, <1>1, <2>1, <2>2, SameIfUnchanged, SameAbout
  <1>6. CASE N!Stop
    <2>1. UNCHANGED <<notices, reviews>> /\ lost \subseteq lost'
      BY <1>6 DEF N!Stop
    <2>2. \A h \in Handlers : call[h].type = "REVIEW_WRITTEN" /\ call[h].at \in {"context", "write"} =>
             call[h].about \in lost'
      BY <1>6 DEF N!Stop
    <2>3. \A h \in Handlers : call'[h].type # "REVIEW_WRITTEN"
      BY <1>6, StopStep, Known DEF N!Idle, N!Turn, N!ConstantsApart, N!NotificationType
    <2>4. \A h \in Handlers : TellsNone(h)
      BY <1>10, <2>2, <2>3 DEF TellsNone
    <2> QED
      BY <1>1, <2>1, <2>4, SameIfUnchanged, SameAbout
  <1>7. ASSUME NEW h \in Handlers,
               \/ \E m \in Moves : N!createReview(h, m)
               \/ N!findReviewWrittenNotificationContext(h)
               \/ N!notifyCommunityCommentOrReply(h)
               \/ \E i \in DOMAIN notices : N!markNotificationAsRead(h, i)
        PROVE  N!ReviewsTold'
    <2>1. reviews' = reviews /\ lost' = lost /\ SameReviewNotices
      BY <1>7, HandlerSteps, SameAbout DEF N!createReview, N!findReviewWrittenNotificationContext,
         N!notifyCommunityCommentOrReply, N!markNotificationAsRead
    <2>2. \A d \in Handlers : d # h => call'[d] = call[d]
      <3>1. PICK k : Becomes(h, k)
        BY <1>7, CreateReviewStep, ContextStep, CommunityStep, MarkStep
      <3> QED
        BY <3>1, Known DEF Becomes
    <2>3. TellsSame(h) \/ TellsNone(h)
      <3>1. call[h].at = "idle" /\ call'[h].type # "REVIEW_WRITTEN" => TellsNone(h)
        BY <1>10 DEF TellsNone, N!Telling
      <3>2. ASSUME NEW m \in Moves, N!createReview(h, m) PROVE TellsNone(h)
        <4>1. call[h].at = "idle" /\ call'[h] = N!Turn("insert", None, None, m)
          BY <3>2, CreateReviewStep DEF Becomes
        <4>2. call'[h].type # "REVIEW_WRITTEN"
          BY <4>1 DEF N!Turn, N!ConstantsApart, N!NotificationType
        <4> QED
          BY <3>1, <4>1, <4>2
      <3>3. ASSUME NEW i \in DOMAIN notices, N!markNotificationAsRead(h, i)
            PROVE  TellsNone(h) \/ TellsSame(h)
        <4>1. call[h].at = "idle" /\ call'[h] = N!Turn("count", notices[i].to, None, None)
          BY <3>3, MarkStep DEF Becomes
        <4>2. call'[h].type # "REVIEW_WRITTEN"
          BY <4>1 DEF N!Turn, N!ConstantsApart, N!NotificationType
        <4> QED
          BY <3>1, <4>1, <4>2
      <3>4. CASE N!notifyCommunityCommentOrReply(h)
        <4>1. PICK u \in N!Users, y \in {"COMMUNITY_COMMENT", "COMMUNITY_REPLY"} :
                Becomes(h, N!Turn("write", u, y, None))
          BY <3>4, CommunityStep
        <4>2. call'[h].type # "REVIEW_WRITTEN"
          BY <4>1 DEF Becomes, N!Turn
        <4> QED
          BY <3>1, <3>4, <4>2, CommunityStep
      <3>5. CASE N!findReviewWrittenNotificationContext(h)
        <4>1. CASE ~reviews[call[h].about].live /\ Becomes(h, N!Idle)
          BY <2>1, <4>1 DEF Becomes, N!Idle, N!Turn, N!ConstantsApart, N!NotificationType, TellsNone
        <4>2. CASE Becomes(h, N!Turn("write", "mover", "REVIEW_WRITTEN", call[h].about))
          BY <3>5, <4>2, ContextStep DEF Becomes, N!Turn, N!Telling, TellsSame
        <4> QED
          BY <3>5, <4>1, <4>2, ContextStep
      <3> QED
        BY <1>7, <3>2, <3>3, <3>4, <3>5
    <2> QED
      BY <1>0, <1>1, <2>1, <2>2, <2>3
  <1>8. ASSUME NEW r \in DOMAIN reviews, N!updateReview(r) \/ N!deleteReview(r) \/ N!deleteAdminReview(r)
        PROVE  N!ReviewsTold'
    BY <1>0, <1>8, ReviewStep, QuietTold, SameIfUnchanged, SameAbout
  <1>9. ASSUME \/ \E s \in Conns :
                    \/ \E u \in N!Users : N!subscribe(s, u)
                    \/ N!close(s) \/ N!getNotificationsForReceiver(s)
               \/ UNCHANGED N!vars
        PROVE  N!ReviewsTold'
    <2>1. UNCHANGED <<notices, reviews, lost, call>>
      BY <1>9 DEF N!subscribe, N!close, N!getNotificationsForReceiver, N!vars
    <2> QED
      BY <1>0, <1>1, <2>1, SameIfUnchanged, SameAbout
  <1> QED
    BY <1>2, <1>3, <1>4, <1>5, <1>6, <1>7, <1>8, <1>9, CreateTold, InsertTold DEF N!Next

LEMMA AtMostOne ==
    ASSUME NEW S, \A x, y \in S : x = y
    PROVE  Cardinality(S) <= 1 /\ (Cardinality(S) = 0 <=> S = {})
  <1>1. CASE S = {}
    BY <1>1, FS_EmptySet
  <1>2. CASE S # {}
    <2>1. PICK x : x \in S
      BY <1>2
    <2>2. S = {x}
      BY <2>1
    <2> QED
      <3>1. Cardinality({x}) = 1
        BY FS_Singleton
      <3> QED
        BY <2>1, <2>2, <3>1
  <1> QED
    BY <1>1, <1>2

LEMMA ToldOnce == N!ReviewsTold => N!OneReviewToldOnce
  <1> SUFFICES ASSUME N!ReviewsTold PROVE N!OneReviewToldOnce
    OBVIOUS
  <1>1. \A m \in Moves : Cardinality(N!LiveReviews(m)) <= 1
    BY AtMostOne DEF N!ReviewsTold, N!LiveReviews
  <1>2. \A r \in DOMAIN reviews : /\ Cardinality(N!About("REVIEW_WRITTEN", r)) <= 1
                                  /\ Cardinality(N!About("REVIEW_WRITTEN", r)) = 0 <=> N!About("REVIEW_WRITTEN", r) = {}
    BY AtMostOne DEF N!ReviewsTold
  <1> QED
    BY <1>1, <1>2, SameCardinality DEF N!OneReviewToldOnce, N!ReviewsTold, N!TellsOf
-----------------------------------------------------------------------------
(* The 09:00 run is started once. *)
LEMMA CronKept ==
    ASSUME N!TypeOK, N!CallersFit, N!ConstantsApart, N!CronStartsIdle, [N!Next]_(N!vars)
    PROVE  N!CronStartsIdle'
  <1>1. CASE cronRan' = cronRan /\ (call["cron"].at = "idle" => call'["cron"] = call["cron"])
    BY <1>1 DEF N!CronStartsIdle
  <1>2. ASSUME NEW c \in N!Callers,
               \/ N!createNotification(c) \/ N!publishNotification(c)
               \/ N!countUnreadByReceiver(c) \/ N!publishUnreadCount(c) \/ N!Fail(c)
        PROVE  N!CronStartsIdle'
    <2>1. cronRan' = cronRan /\ call[c].at # "idle" /\ \A d \in N!Callers : d # c => call'[d] = call[d]
      BY <1>2 DEF N!createNotification, N!publishNotification, N!countUnreadByReceiver, N!publishUnreadCount, N!Fail, N!day, N!TypeOK
    <2> QED
      BY <1>1, <2>1, Known
  <1>3. ASSUME NEW c \in N!Jobs,
               N!findConfirmedMovesOnDate(c) \/ N!runMoveDayReminderJob(c) \/ N!createMoveDayReminderIfAbsent(c)
        PROVE  N!CronStartsIdle'
    <2>1. cronRan' = cronRan /\ call[c].at # "idle" /\ \A d \in N!Callers : d # c => call'[d] = call[d]
      BY <1>3 DEF N!findConfirmedMovesOnDate, N!runMoveDayReminderJob, N!createMoveDayReminderIfAbsent, N!day, N!TypeOK
    <2> QED
      BY <1>1, <2>1, Known
  <1>4. CASE N!Cron
    BY <1>4 DEF N!Cron, N!CronStartsIdle
  <1>5. CASE N!Boot
    <2>1. cronRan' = cronRan /\ call'["cron"] = call["cron"]
      BY <1>5, Known DEF N!Boot, N!startRun, N!day, N!TypeOK
    <2> QED
      BY <1>1, <2>1
  <1>6. CASE N!Stop
    BY <1>6, StopStep, Known DEF N!CronStartsIdle, N!Idle, N!Turn
  <1>7. ASSUME NEW h \in Handlers,
               \/ \E m \in Moves : N!createReview(h, m)
               \/ N!insertReview(h) \/ N!findReviewWrittenNotificationContext(h)
               \/ N!notifyCommunityCommentOrReply(h)
               \/ \E i \in DOMAIN notices : N!markNotificationAsRead(h, i)
        PROVE  N!CronStartsIdle'
    BY <1>1, <1>7, HandlerSteps, Known
  <1>8. CASE N!Tick \/ \E m \in Moves : N!Confirm(m)
    BY <1>1, <1>8 DEF N!Tick, N!Confirm, N!day
  <1>9. CASE UNCHANGED <<call, cronRan>>
    BY <1>1, <1>9
  <1> QED
    BY <1>2, <1>3, <1>4, <1>5, <1>6, <1>7, <1>8, <1>9, OtherSteps DEF N!Next

-----------------------------------------------------------------------------
(* Streams and what their clients know. *)
LEMMA TellingTo ==
    ASSUME N!CallersFit, NEW c \in N!Callers, call[c].at \in {"write"} \cup N!Telling
    PROVE  call[c].to \in N!Users
  BY DEF N!CallersFit, N!RunsRemind, N!CallsTell, N!Callers

\* What a push changes of a client.
ClientsKeep ==
    \A s \in Conns : /\ client'[s].user = client[s].user /\ client'[s].loaded = client[s].loaded
                     /\ client[s].knows \subseteq client'[s].knows
                     /\ client[s].user = None => client'[s] = client[s]

LEMMA QuietStreams ==
    ASSUME N!StreamsFit, streams' = streams, ClientsKeep PROVE N!StreamsFit'
  BY DEF N!StreamsFit, ClientsKeep

LEMMA PublishClients ==
    ASSUME N!TypeOK, N!CallersFit, N!ConstantsApart, N!StreamsFit, NEW c \in N!Callers, N!publishNotification(c)
    PROVE  /\ ClientsKeep /\ streams' = streams
           /\ \A s \in Conns : client'[s].count = client[s].count
           /\ \A s \in Conns : client[s].user = call[c].to => call[c].n \in client'[s].knows
  <1>1. call[c].to \in N!Users /\ call[c].to # None
    BY TellingTo DEF N!publishNotification, N!Telling, N!ConstantsApart
  <1>2. \A s \in Conns : s \in streams[call[c].to] <=> client[s].user = call[c].to
    BY <1>1 DEF N!StreamsFit
  <1>3. \A s \in Conns : client'[s] = IF s \in streams[call[c].to]
                                  THEN [client[s] EXCEPT !.knows = @ \cup {call[c].n}]
                                  ELSE client[s]
    BY DEF N!publishNotification
  <1>4. \A s \in Conns : client[s] \in [user : N!Users \cup {None}, loaded : BOOLEAN, knows : SUBSET Nat,
                                        count : Nat \cup {None}]
    BY DEF N!TypeOK
  <1>5. ASSUME NEW s \in Conns
        PROVE  /\ client'[s].user = client[s].user /\ client'[s].loaded = client[s].loaded
               /\ client[s].knows \subseteq client'[s].knows /\ client'[s].count = client[s].count
               /\ client[s].user = call[c].to => call[c].n \in client'[s].knows
               /\ client[s].user = None => client'[s] = client[s]
    <2>1. CASE s \in streams[call[c].to]
      <3>1. client[s].user = call[c].to
        BY <1>2, <2>1
      <3>2. client'[s] = [client[s] EXCEPT !.knows = client[s].knows \cup {call[c].n}]
        BY <1>3, <2>1
      <3>3. /\ client'[s].user = client[s].user /\ client'[s].loaded = client[s].loaded
            /\ client'[s].count = client[s].count
        BY <1>4, <3>2
      <3>4. client'[s].knows = client[s].knows \cup {call[c].n}
        BY <1>4, <3>2
      <3> QED
        BY <1>1, <3>1, <3>3, <3>4
    <2>2. CASE s \notin streams[call[c].to]
      BY <1>2, <1>3, <2>2
    <2> QED
      BY <2>1, <2>2
  <1>6. streams' = streams
    BY DEF N!publishNotification
  <1> QED
    BY <1>5, <1>6 DEF ClientsKeep

LEMMA TellClients ==
    ASSUME N!TypeOK, N!CallersFit, N!ConstantsApart, N!StreamsFit, NEW c \in N!Callers, N!publishUnreadCount(c)
    PROVE  /\ ClientsKeep /\ streams' = streams
           /\ \A s \in Conns : client'[s].count = IF client[s].user = call[c].to THEN call[c].n ELSE client[s].count
  <1>1. call[c].to \in N!Users /\ call[c].to # None
    BY TellingTo DEF N!publishUnreadCount, N!Telling, N!ConstantsApart
  <1>2. \A s \in Conns : s \in streams[call[c].to] <=> client[s].user = call[c].to
    BY <1>1 DEF N!StreamsFit
  <1>3. \A s \in Conns : client'[s] = IF s \in streams[call[c].to]
                                  THEN [client[s] EXCEPT !.count = call[c].n]
                                  ELSE client[s]
    BY DEF N!publishUnreadCount
  <1>4. \A s \in Conns : client[s] \in [user : N!Users \cup {None}, loaded : BOOLEAN, knows : SUBSET Nat,
                                        count : Nat \cup {None}]
    BY DEF N!TypeOK
  <1>5. ASSUME NEW s \in Conns
        PROVE  /\ client'[s].user = client[s].user /\ client'[s].loaded = client[s].loaded
               /\ client[s].knows \subseteq client'[s].knows
               /\ client'[s].count = IF client[s].user = call[c].to THEN call[c].n ELSE client[s].count
               /\ client[s].user = None => client'[s] = client[s]
    <2>1. CASE s \in streams[call[c].to]
      BY <1>1, <1>2, <1>3, <1>4, <2>1
    <2>2. CASE s \notin streams[call[c].to]
      BY <1>2, <1>3, <2>2
    <2> QED
      BY <2>1, <2>2
  <1>6. streams' = streams
    BY DEF N!publishUnreadCount
  <1> QED
    BY <1>5, <1>6 DEF ClientsKeep

LEMMA LoadClients ==
    ASSUME N!TypeOK, NEW s \in Conns, N!getNotificationsForReceiver(s)
    PROVE  /\ \A d \in Conns : d # s => client'[d] = client[d]
           /\ client[s].user # None /\ client'[s].user = client[s].user
           /\ client'[s].count = client[s].count
           /\ client'[s].knows = client[s].knows \cup N!findLatestByReceiver(client[s].user)
  <1>1. client[s] \in [user : N!Users \cup {None}, loaded : BOOLEAN, knows : SUBSET Nat, count : Nat \cup {None}]
    BY DEF N!TypeOK
  <1> DEFINE F == N!findLatestByReceiver(client[s].user)
  <1>2. client' = [client EXCEPT ![s].loaded = TRUE, ![s].knows = @ \cup F] /\ client[s].user # None
    BY DEF N!getNotificationsForReceiver
  <1> HIDE DEF F
  <1>3. client'[s].user = client[s].user /\ client'[s].count = client[s].count
        /\ client'[s].knows = client[s].knows \cup F
    BY <1>1, <1>2 DEF N!TypeOK
  <1>4. \A d \in Conns : d # s => client'[d] = client[d]
    BY <1>2 DEF N!TypeOK
  <1> QED
    BY <1>2, <1>3, <1>4 DEF F

LEMMA OpenClose ==
    ASSUME N!TypeOK, NEW s \in Conns,
           (\E u \in N!Users : N!subscribe(s, u)) \/ N!close(s)
    PROVE  /\ \A d \in Conns : d # s => client'[d] = client[d] /\ \A u \in N!Users : d \in streams'[u] <=> d \in streams[u]
           /\ client'[s].loaded = FALSE /\ client'[s].count = None
           /\ UNCHANGED <<notices, call, counts>>
  <1>1. ASSUME NEW u \in N!Users, N!subscribe(s, u)
        PROVE  /\ \A d \in Conns : d # s => client'[d] = client[d] /\ \A v \in N!Users : d \in streams'[v] <=> d \in streams[v]
               /\ client'[s].loaded = FALSE /\ client'[s].count = None
    BY <1>1 DEF N!subscribe, N!NoClient, N!TypeOK
  <1>2. CASE N!close(s)
    BY <1>2 DEF N!close, N!Cleanup, N!NoClient, N!TypeOK
  <1>3. UNCHANGED <<notices, call, counts>>
    BY DEF N!subscribe, N!close
  <1> QED
    BY <1>1, <1>2, <1>3

LEMMA StreamsKept ==
    ASSUME N!TypeOK, N!CallersFit, N!ConstantsApart, N!StreamsFit, [N!Next]_(N!vars)
    PROVE  N!StreamsFit'
  <1>1. CASE UNCHANGED <<streams, client>>
    BY <1>1 DEF N!StreamsFit
  <1>2. ASSUME NEW c \in N!Callers,
               \/ N!createNotification(c) \/ N!publishNotification(c)
               \/ N!countUnreadByReceiver(c) \/ N!publishUnreadCount(c) \/ N!Fail(c)
        PROVE  N!StreamsFit'
    BY <1>1, <1>2, PublishClients, TellClients, QuietStreams DEF N!createNotification, N!countUnreadByReceiver, N!Fail, N!sockets
  <1>3. ASSUME \/ \E j \in N!Jobs :
                    N!findConfirmedMovesOnDate(j) \/ N!runMoveDayReminderJob(j) \/ N!createMoveDayReminderIfAbsent(j)
               \/ N!Cron \/ N!Boot \/ N!Tick \/ \E m \in Moves : N!Confirm(m)
        PROVE  UNCHANGED <<streams, client>>
    BY <1>3 DEF N!findConfirmedMovesOnDate, N!runMoveDayReminderJob, N!createMoveDayReminderIfAbsent,
       N!Cron, N!Boot, N!Tick, N!Confirm, N!sockets
  <1>4. CASE N!Stop
    <2>1. N!NoClient.user = None /\ \A u \in N!Users : u # None
      BY DEF N!NoClient, N!ConstantsApart
    <2> QED
      BY <1>4, <2>1, StopStep DEF N!StreamsFit
  <1>5. ASSUME NEW r \in DOMAIN reviews, N!updateReview(r) \/ N!deleteReview(r) \/ N!deleteAdminReview(r)
        PROVE  UNCHANGED <<streams, client>>
    BY <1>5, ReviewStep
  <1>6. ASSUME NEW s \in Conns, NEW u \in N!Users, N!subscribe(s, u) PROVE N!StreamsFit'
    <2>1. /\ client[s].user = None
          /\ client' = [client EXCEPT ![s] = [N!NoClient EXCEPT !.user = u]]
          /\ streams' = [streams EXCEPT ![u] = @ \cup {s}]
      BY <1>6 DEF N!subscribe
    <2>2. client'[s].user = u /\ u # None
      BY <2>1 DEF N!TypeOK, N!NoClient, N!ConstantsApart
    <2>3. \A v \in N!Users : s \notin streams[v]
      BY <2>1 DEF N!StreamsFit, N!ConstantsApart
    <2>4. \A v \in N!Users : s \in streams'[v] <=> v = u
      BY <2>1, <2>3 DEF N!TypeOK
    <2>5. ASSUME NEW d \in Conns
          PROVE  /\ \A v \in N!Users : d \in streams'[v] <=> client'[d].user = v
                 /\ client'[d].user = None => client'[d] = N!NoClient
      <3>1. CASE d = s
        BY <2>2, <2>4, <3>1
      <3>2. CASE d # s
        <4>1. client'[d] = client[d] /\ \A v \in N!Users : d \in streams'[v] <=> d \in streams[v]
          BY <1>6, <3>2, OpenClose
        <4>2. client[d].user = None => client[d] = N!NoClient
          BY DEF N!StreamsFit
        <4>3. \A v \in N!Users : d \in streams[v] <=> client[d].user = v
          BY DEF N!StreamsFit
        <4> QED
          BY <4>1, <4>2, <4>3
      <3> QED
        BY <3>1, <3>2
    <2> QED
      BY <2>5 DEF N!StreamsFit
  <1>7. ASSUME NEW s \in Conns, N!close(s) PROVE N!StreamsFit'
    <2>1. /\ client' = [client EXCEPT ![s] = N!NoClient]
          /\ streams' = [streams EXCEPT ![client[s].user] = @ \ {s}] /\ client[s].user # None
      BY <1>7 DEF N!close, N!Cleanup
    <2>2. client'[s] = N!NoClient /\ N!NoClient.user = None
      BY <2>1 DEF N!TypeOK, N!NoClient
    <2>3. \A v \in N!Users : s \notin streams'[v]
      BY <2>1 DEF N!TypeOK, N!StreamsFit
    <2>4. ASSUME NEW d \in Conns
          PROVE  /\ \A v \in N!Users : d \in streams'[v] <=> client'[d].user = v
                 /\ client'[d].user = None => client'[d] = N!NoClient
      <3>1. CASE d = s
        BY <2>2, <2>3, <3>1 DEF N!ConstantsApart
      <3>2. CASE d # s
        <4>1. client'[d] = client[d] /\ \A v \in N!Users : d \in streams'[v] <=> d \in streams[v]
          BY <1>7, <3>2, OpenClose
        <4>2. client[d].user = None => client[d] = N!NoClient
          BY DEF N!StreamsFit
        <4>3. \A v \in N!Users : d \in streams[v] <=> client[d].user = v
          BY DEF N!StreamsFit
        <4> QED
          BY <4>1, <4>2, <4>3
      <3> QED
        BY <3>1, <3>2
    <2> QED
      BY <2>4 DEF N!StreamsFit
  <1>8. ASSUME NEW s \in Conns, N!getNotificationsForReceiver(s) PROVE N!StreamsFit'
    <2>1. streams' = streams
      BY <1>8 DEF N!getNotificationsForReceiver
    <2> QED
      BY <1>8, <2>1, LoadClients DEF N!StreamsFit
  <1>9. CASE UNCHANGED N!vars
    BY <1>1, <1>9 DEF N!vars
  <1> QED
    BY <1>1, <1>2, <1>3, <1>4, <1>5, <1>6, <1>7, <1>8, <1>9, HandlerSteps DEF N!Next

-----------------------------------------------------------------------------
(* No notice is missed. *)
LEMMA LatestOf ==
    ASSUME NEW s, NEW u, u = client'[s].user
    PROVE  N!findLatestByReceiver(client[s].user)' = N!findLatestByReceiver(u)'
  BY DEF N!findLatestByReceiver

\* A step that writes no notice, takes nothing from a client and ends no push.
LEMMA QuietMissed ==
    ASSUME N!NothingMissed,
           \A u : N!findLatestByReceiver(u)' \subseteq N!findLatestByReceiver(u),
           \A c \in N!Callers : call[c].at = "push" => call'[c] = call[c],
           \A s \in Conns : client'[s].loaded =>
              \/ client[s].loaded /\ client'[s].user = client[s].user /\ client[s].knows \subseteq client'[s].knows
              \/ N!findLatestByReceiver(client'[s].user) \subseteq client'[s].knows
    PROVE  N!NothingMissed'
  <1> SUFFICES ASSUME NEW s \in Conns, client'[s].loaded,
                      NEW i \in N!findLatestByReceiver(client[s].user)', i \notin client'[s].knows
               PROVE  \E c \in N!Callers : call'[c].at = "push" /\ call'[c].n = i
    BY DEF N!NothingMissed
  <1>1. PICK u : u = client'[s].user
    OBVIOUS
  <1>2. i \in N!findLatestByReceiver(u)
    BY <1>1, LatestOf
  <1>3. client[s].loaded /\ client[s].user = u /\ i \notin client[s].knows
    BY <1>1, <1>2
  <1>4. PICK c \in N!Callers : call[c].at = "push" /\ call[c].n = i
    BY <1>2, <1>3 DEF N!NothingMissed
  <1> QED
    BY <1>4

LEMMA SameLatest ==
    ASSUME SameNotices, NEW u
    PROVE  N!findLatestByReceiver(u)' = N!findLatestByReceiver(u)
  <1>1. \A i : {k \in DOMAIN notices' : k > i /\ notices'[k].to = u} = {k \in DOMAIN notices : k > i /\ notices[k].to = u}
    BY DEF SameNotices
  <1> QED
    BY <1>1 DEF N!findLatestByReceiver, SameNotices

\* One more notice pushes others off the list, and brings itself.
LEMMA LatestShrink ==
    ASSUME N!TypeOK, N!ConstantsApart, NEW x, x \notin DOMAIN notices, DOMAIN notices' = DOMAIN notices \cup {x},
           \A i \in DOMAIN notices : notices'[i] = notices[i], N!TypeOK', NEW u
    PROVE  N!findLatestByReceiver(u)' \subseteq N!findLatestByReceiver(u) \cup {x}
  <1> SUFFICES ASSUME NEW i \in N!findLatestByReceiver(u)', i # x
               PROVE  i \in N!findLatestByReceiver(u)
    OBVIOUS
  <1> DEFINE A == {k \in DOMAIN notices : k > i /\ notices[k].to = u}
             B == {k \in DOMAIN notices' : k > i /\ notices'[k].to = u}
  <1>1. i \in DOMAIN notices /\ notices[i].to = u /\ Cardinality(B) < ListLimit
    BY SameCardinality DEF N!findLatestByReceiver
  <1>2. A \subseteq B
    OBVIOUS
  <1>3. IsFiniteSet(B)
    <2>1. Len(notices) \in Nat /\ DOMAIN notices = 1..Len(notices)
      BY NoticesLen
    <2>2. IsFiniteSet(DOMAIN notices)
      BY <2>1, FS_Interval
    <2>3. IsFiniteSet(DOMAIN notices')
      BY <2>2, FS_AddElement
    <2> QED
      BY <2>3, FS_Subset
  <1>4. Cardinality(A) <= Cardinality(B) /\ Cardinality(A) \in Nat /\ Cardinality(B) \in Nat
    BY <1>2, <1>3, FS_Subset, FS_CardinalityType
  <1>5. Cardinality(A) < ListLimit
    BY <1>1, <1>4 DEF N!ConstantsApart
  <1> QED
    BY <1>1, <1>5, SameCardinality DEF N!findLatestByReceiver

LEMMA CreateMissed ==
    ASSUME N!TypeOK, N!TypeOK', N!CallersFit, N!ConstantsApart, N!NothingMissed, NEW c \in N!Callers, N!createNotification(c)
    PROVE  N!NothingMissed'
  <1>1. PICK x : x = Len(notices) + 1
    OBVIOUS
  <1>2. PICK k : k = [at |-> "push", to |-> call[c].to, type |-> call[c].type,
                      about |-> call[c].about, n |-> Len(notices) + 1]
    OBVIOUS
  <1>3. Becomes(c, k) /\ call[c].at = "write" /\ client' = client
    BY <1>2, CreateStep DEF N!createNotification, N!sockets
  <1>4. call'[c].at = "push" /\ call'[c].n = x /\ \A d \in N!Callers : d # c => call'[d] = call[d]
    BY <1>1, <1>2, <1>3 DEF Becomes
  <1>5. /\ x \notin DOMAIN notices /\ DOMAIN notices' = DOMAIN notices \cup {x}
        /\ \A i \in DOMAIN notices : notices'[i] = notices[i]
    <2>1. DOMAIN notices' = 1..Len(notices) + 1 /\ \A i \in DOMAIN notices : notices'[i] = notices[i]
      BY CreateStep
    <2> QED
      BY <1>1, <2>1, NoticesLen
  <1> SUFFICES ASSUME NEW s \in Conns, client'[s].loaded,
                      NEW i \in N!findLatestByReceiver(client[s].user)', i \notin client'[s].knows
               PROVE  \E d \in N!Callers : call'[d].at = "push" /\ call'[d].n = i
    BY DEF N!NothingMissed
  <1>6. PICK u : u = client'[s].user
    OBVIOUS
  <1>7. i = x \/ i \in N!findLatestByReceiver(u)
    BY <1>5, <1>6, LatestOf, LatestShrink
  <1>8. CASE i = x
    BY <1>4, <1>8
  <1>9. CASE i \in N!findLatestByReceiver(u)
    <2>1. PICK d \in N!Callers : call[d].at = "push" /\ call[d].n = i
      BY <1>3, <1>6, <1>9 DEF N!NothingMissed
    <2> QED
      BY <1>3, <1>4, <2>1
  <1> QED
    BY <1>7, <1>8, <1>9

LEMMA PublishMissed ==
    ASSUME N!TypeOK, N!CallersFit, N!ConstantsApart, N!StreamsFit, N!NothingMissed, NEW c \in N!Callers, N!publishNotification(c)
    PROVE  N!NothingMissed'
  <1>1. PICK k : k = [at |-> "count", to |-> call[c].to, type |-> call[c].type,
                      about |-> call[c].about, n |-> call[c].n]
    OBVIOUS
  <1>2. Becomes(c, k) /\ call[c].at = "push" /\ notices' = notices
    BY <1>1, PublishStep DEF N!publishNotification
  <1>3. \A d \in N!Callers : d # c => call'[d] = call[d]
    BY <1>2 DEF Becomes
  <1>4. notices[call[c].n].to = call[c].to
    BY <1>2 DEF N!CallersFit
  <1> SUFFICES ASSUME NEW s \in Conns, client'[s].loaded,
                      NEW i \in N!findLatestByReceiver(client[s].user)', i \notin client'[s].knows
               PROVE  \E d \in N!Callers : call'[d].at = "push" /\ call'[d].n = i
    BY DEF N!NothingMissed
  <1>5. PICK u : u = client[s].user
    OBVIOUS
  <1>6. client[s].loaded /\ u = client'[s].user /\ i \notin client[s].knows
    BY <1>5, PublishClients DEF ClientsKeep
  <1>7. i \in N!findLatestByReceiver(u)
    BY <1>2, <1>6, LatestOf, SameIfUnchanged, SameLatest
  <1>8. PICK d \in N!Callers : call[d].at = "push" /\ call[d].n = i
    BY <1>5, <1>6, <1>7 DEF N!NothingMissed
  <1>9. d # c
    <2>1. notices[i].to = u
      BY <1>7 DEF N!findLatestByReceiver
    <2>2. d = c => u = call[c].to /\ i = call[c].n
      BY <1>4, <1>8, <2>1
    <2> QED
      BY <1>5, <2>2, PublishClients
  <1> QED
    BY <1>3, <1>8, <1>9

LEMMA MissedKept ==
    ASSUME N!TypeOK, N!TypeOK', N!CallersFit, N!ConstantsApart, N!CronStartsIdle, N!StreamsFit, N!NothingMissed, [N!Next]_(N!vars)
    PROVE  N!NothingMissed'
  <1>0. \A s \in Conns : client[s].loaded => client[s].user # None
    BY DEF N!StreamsFit, N!NoClient
  <1>1. ASSUME SameNotices, \A c \in N!Callers : call[c].at = "push" => call'[c] = call[c],
               client' = client \/ ClientsKeep
        PROVE  N!NothingMissed'
    <2>1. \A u : N!findLatestByReceiver(u)' \subseteq N!findLatestByReceiver(u)
      BY <1>1, SameLatest
    <2>2. \A s \in Conns : client'[s].loaded =>
             client[s].loaded /\ client'[s].user = client[s].user /\ client[s].knows \subseteq client'[s].knows
      BY <1>1 DEF ClientsKeep
    <2> QED
      BY <1>1, <2>1, <2>2, QuietMissed
  <1>2. ASSUME NEW c \in N!Callers, N!countUnreadByReceiver(c) \/ N!publishUnreadCount(c) \/ N!Fail(c)
        PROVE  N!NothingMissed'
    <2>1. notices' = notices /\ call[c].at # "push" /\ \A d \in N!Callers : d # c => call'[d] = call[d]
      BY <1>2 DEF N!countUnreadByReceiver, N!publishUnreadCount, N!Fail, N!TypeOK
    <2>2. client' = client \/ ClientsKeep
      BY <1>2, TellClients DEF N!countUnreadByReceiver, N!Fail, N!sockets
    <2> QED
      BY <1>1, <2>1, <2>2, SameIfUnchanged
  <1>3. ASSUME NEW c \in N!Jobs,
               N!findConfirmedMovesOnDate(c) \/ N!runMoveDayReminderJob(c) \/ N!createMoveDayReminderIfAbsent(c)
        PROVE  N!NothingMissed'
    <2>1. /\ notices' = notices /\ client' = client /\ call[c].at # "push"
          /\ \A d \in N!Callers : d # c => call'[d] = call[d]
      BY <1>3 DEF N!findConfirmedMovesOnDate, N!runMoveDayReminderJob, N!createMoveDayReminderIfAbsent, N!sockets, N!TypeOK
    <2> QED
      BY <1>1, <2>1, SameIfUnchanged
  <1>4. ASSUME NEW j \in N!Jobs, N!startRun(j), call[j].at = "idle", notices' = notices, client' = client
        PROVE  N!NothingMissed'
    <2>1. \A d \in N!Callers : d # j => call'[d] = call[d]
      BY <1>4, StartStep DEF Becomes
    <2> QED
      BY <1>1, <1>4, <2>1, SameIfUnchanged
  <1>5. CASE N!Cron
    BY <1>4, <1>5, Known DEF N!Cron, N!CronStartsIdle, N!sockets
  <1>6. CASE N!Boot
    <2>1. call["boot"].at = "idle" /\ notices' = notices /\ client' = client
      BY <1>6, Known DEF N!Boot, N!sockets, N!CallersFit, N!Idle, N!Turn
    <2>2. N!startRun("boot") \/ call' = call
      BY <1>6 DEF N!Boot
    <2> QED
      BY <1>1, <1>4, <2>1, <2>2, Known, SameIfUnchanged
  <1>7. CASE N!Stop
    BY <1>7, StopStep DEF N!NothingMissed, N!NoClient
  <1>8. CASE N!Tick \/ \E m \in Moves : N!Confirm(m)
    <2>1. UNCHANGED <<notices, client, call>>
      BY <1>8 DEF N!Tick, N!Confirm, N!sockets
    <2> QED
      BY <1>1, <2>1, SameIfUnchanged
  <1>9. ASSUME NEW h \in Handlers,
               \/ \E m \in Moves : N!createReview(h, m)
               \/ N!insertReview(h) \/ N!findReviewWrittenNotificationContext(h)
               \/ N!notifyCommunityCommentOrReply(h)
               \/ \E i \in DOMAIN notices : N!markNotificationAsRead(h, i)
        PROVE  N!NothingMissed'
    <2>1. SameNotices /\ client' = client
      BY <1>9, HandlerSteps
    <2>2. PICK k : Becomes(h, k)
      BY <1>9, CreateReviewStep, InsertReviewStep, ContextStep, CommunityStep, MarkStep
    <2>3. call[h].at # "push"
      BY <1>9, CreateReviewStep, InsertReviewStep, ContextStep, CommunityStep, MarkStep
    <2> QED
      BY <1>1, <2>1, <2>2, <2>3 DEF Becomes
  <1>10. ASSUME NEW r \in DOMAIN reviews, N!updateReview(r) \/ N!deleteReview(r) \/ N!deleteAdminReview(r)
        PROVE  N!NothingMissed'
    BY <1>1, <1>10, ReviewStep, SameIfUnchanged
  <1>11. ASSUME NEW s \in Conns, (\E u \in N!Users : N!subscribe(s, u)) \/ N!close(s)
         PROVE  N!NothingMissed'
    <2>1. \A d \in Conns : client'[d].loaded => client'[d] = client[d]
      BY <1>11, OpenClose
    <2> QED
      BY <1>11, <2>1, OpenClose, QuietMissed, SameIfUnchanged, SameLatest
  <1>12. ASSUME NEW s \in Conns, N!getNotificationsForReceiver(s) PROVE N!NothingMissed'
    <2>1. notices' = notices /\ call' = call
      BY <1>12 DEF N!getNotificationsForReceiver
    <2>2. N!findLatestByReceiver(client'[s].user) \subseteq client'[s].knows
      BY <1>12, LoadClients
    <2>3. \A d \in Conns : d # s => client'[d] = client[d]
      BY <1>12, LoadClients
    <2> QED
      BY <2>1, <2>2, <2>3, QuietMissed, SameIfUnchanged, SameLatest
  <1>13. CASE UNCHANGED N!vars
    <2>1. UNCHANGED <<notices, client, call>>
      BY <1>13 DEF N!vars
    <2> QED
      BY <1>1, <2>1, SameIfUnchanged
  <1> QED
    BY <1>2, <1>3, <1>5, <1>6, <1>7, <1>8, <1>9, <1>10, <1>11, <1>12, <1>13, CreateMissed, PublishMissed DEF N!Next

-----------------------------------------------------------------------------
(* The count settles. *)
LEMMA SendingOf ==
    /\ \A u : N!Sending(u) = {c \in N!Callers : call[c].to = u /\ call[c].at \in N!Telling}
    /\ \A u : N!Sending(u)' = {c \in N!Callers : call'[c].to = u /\ call'[c].at \in N!Telling}
  BY DEF N!Sending, N!Telling

\* CountsRight of one user.
Right(u) ==
    /\ N!Sending(u) # {} => N!Unread(u) \in counts[u]
    /\ \A c \in N!Sending(u) : call[c].at = "tell" => call[c].n \in counts[u]
    /\ N!Sending(u) = {} => \A s \in streams[u] : client[s].count \in counts[u] \cup {None}

LEMMA AllRight ==
    /\ N!CountsRight <=> \A u \in N!Users : Right(u)
    /\ N!CountsRight' <=> \A u \in N!Users : Right(u)'
  BY DEF N!CountsRight, Right

LEMMA QuietRight ==
    ASSUME NEW u, Right(u), counts'[u] = counts[u],
           N!Unread(u)' = N!Unread(u), N!Sending(u)' = N!Sending(u),
           \A c \in N!Sending(u) : call'[c].at = "tell" => call[c].at = "tell" /\ call'[c].n = call[c].n,
           \A s \in streams'[u] :
              client'[s].count = None \/ (s \in streams[u] /\ client'[s].count = client[s].count)
    PROVE  Right(u)'
  BY DEF Right

LEMMA QuietCounts ==
    ASSUME N!CountsRight, counts' = counts,
           \A u \in N!Users :
              /\ N!Unread(u)' = N!Unread(u) /\ N!Sending(u)' = N!Sending(u)
              /\ \A c \in N!Sending(u) : call'[c].at = "tell" => call[c].at = "tell" /\ call'[c].n = call[c].n
              /\ \A s \in streams'[u] :
                    client'[s].count = None \/ (s \in streams[u] /\ client'[s].count = client[s].count)
    PROVE  N!CountsRight'
  BY AllRight, QuietRight

LEMMA SameUnread == ASSUME notices' = notices, NEW u PROVE N!Unread(u)' = N!Unread(u)
  BY DEF N!Unread

\* A step of a caller that sends nothing before it and nothing after it.
LEMMA IdleCounts ==
    ASSUME N!CountsRight, UNCHANGED <<notices, streams, client, counts>>,
           \A c \in N!Callers : call'[c] = call[c] \/ (call[c].at \notin N!Telling /\ call'[c].at \notin N!Telling)
    PROVE  N!CountsRight'
  <1>1. \A u : N!Sending(u)' = N!Sending(u)
    BY SendingOf
  <1>2. \A u : \A c \in N!Sending(u) : call'[c] = call[c]
    BY SendingOf
  <1> QED
    BY <1>1, <1>2, SameUnread, QuietCounts

\* One user's rows are written and a caller turns to its count.
LEMMA WrittenCounts ==
    ASSUME N!TypeOK, N!CountsRight, NEW c \in N!Callers, NEW u \in N!Users, N!Overlap(u),
           notices' \in Seq([to : N!Users, type : N!NotificationType, about : N!Subjects, read : BOOLEAN]),
           UNCHANGED <<streams, client>>,
           call[c].at \notin N!Telling, call'[c].at \in {"push", "count"}, call'[c].to = u,
           \A d \in N!Callers : d # c => call'[d] = call[d],
           \A v \in N!Users : v # u => N!Unread(v)' = N!Unread(v)
    PROVE  N!CountsRight'
  <1> SUFFICES ASSUME NEW v \in N!Users PROVE Right(v)'
    BY AllRight
  <1>0. Right(v)
    BY AllRight
  <1>1. CASE v = u
    <2>1. c \in N!Sending(u)' /\ c \notin N!Sending(u)
      BY SendingOf DEF N!Telling
    <2>2. \A d \in N!Sending(u)' : d = c \/ (d \in N!Sending(u) /\ call'[d] = call[d])
      BY SendingOf
    <2>3. call'[c].at # "tell"
      OBVIOUS
    <2>4. ASSUME NEW d \in N!Sending(u)', call'[d].at = "tell" PROVE call'[d].n \in counts'[u]
      <3>1. d \in N!Sending(u) /\ call'[d] = call[d]
        BY <2>2, <2>3, <2>4
      <3>2. call[d].n \in counts[u]
        BY <1>0, <1>1, <2>4, <3>1 DEF Right
      <3> QED
        BY <3>1, <3>2, OverlapStep
    <2> QED
      BY <1>1, <2>1, <2>4, OverlapStep DEF Right
  <1>2. CASE v # u
    <2>1. N!Sending(v)' = N!Sending(v) /\ \A d \in N!Sending(v) : call'[d] = call[d]
      BY <1>2, SendingOf
    <2> QED
      BY <1>0, <1>2, <2>1, OverlapStep, QuietRight
  <1> QED
    BY <1>1, <1>2

LEMMA CreateCounts ==
    ASSUME N!TypeOK, N!CallersFit, N!ConstantsApart, N!CountsRight, NEW c \in N!Callers, N!createNotification(c)
    PROVE  N!CountsRight'
  <1>1. PICK x : x = Len(notices) + 1
    OBVIOUS
  <1>2. PICK k : k = [at |-> "push", to |-> call[c].to, type |-> call[c].type,
                      about |-> call[c].about, n |-> Len(notices) + 1]
    OBVIOUS
  <1>3. Becomes(c, k) /\ call[c].at = "write" /\ call[c].to \in N!Users
    BY <1>2, CreateStep
  <1>4. call'[c].at = "push" /\ call'[c].to = call[c].to /\ \A d \in N!Callers : d # c => call'[d] = call[d]
    BY <1>2, <1>3 DEF Becomes
  <1>5. /\ DOMAIN notices' = DOMAIN notices \cup {x}
        /\ \A i \in DOMAIN notices : notices'[i] = notices[i]
    <2>1. DOMAIN notices' = 1..Len(notices) + 1 /\ \A i \in DOMAIN notices : notices'[i] = notices[i]
      BY CreateStep
    <2> QED
      BY <1>1, <2>1, NoticesLen
  <1>6. notices'[x].to = call[c].to
    <2>1. notices'[Len(notices) + 1] = [to |-> call[c].to, type |-> call[c].type,
                                        about |-> call[c].about, read |-> FALSE]
      BY CreateStep
    <2> QED
      BY <1>1, <2>1
  <1>7. ASSUME NEW v \in N!Users, v # call[c].to PROVE N!Unread(v)' = N!Unread(v)
    <2>1. {i \in DOMAIN notices' : notices'[i].to = v /\ ~notices'[i].read}
            = {i \in DOMAIN notices : notices[i].to = v /\ ~notices[i].read}
      BY <1>5, <1>6, <1>7
    <2> QED
      BY <2>1 DEF N!Unread
  <1>8. streams' = streams /\ client' = client
    BY DEF N!createNotification, N!sockets
  <1>9. PICK u \in N!Users : u = call[c].to /\ N!Overlap(u)
    BY WritesOf
  <1> QED
    BY <1>3, <1>4, <1>7, <1>8, <1>9, CreateStep, WrittenCounts DEF N!Telling

LEMMA MarkCounts ==
    ASSUME N!TypeOK, N!CallersFit, N!ConstantsApart, N!CountsRight, NEW h \in Handlers, NEW i \in DOMAIN notices,
           N!markNotificationAsRead(h, i)
    PROVE  N!CountsRight'
  <1>1. PICK u \in N!Users : u = notices[i].to /\ N!Overlap(u)
    BY WritesOf
  <1>3. call[h].at = "idle" /\ Becomes(h, N!Turn("count", u, None, None))
    BY <1>1, MarkStep
  <1>4. call'[h].at = "count" /\ call'[h].to = u /\ \A d \in N!Callers : d # h => call'[d] = call[d]
    BY <1>3 DEF Becomes, N!Turn
  <1>5. ASSUME NEW v \in N!Users, v # u PROVE N!Unread(v)' = N!Unread(v)
    <2>1. DOMAIN notices' = DOMAIN notices /\ \A k \in DOMAIN notices : k # i => notices'[k] = notices[k]
      BY MarkStep
    <2>2. notices'[i].to = u
      BY <1>1, MarkStep
    <2>3. {k \in DOMAIN notices' : notices'[k].to = v /\ ~notices'[k].read}
            = {k \in DOMAIN notices : notices[k].to = v /\ ~notices[k].read}
      BY <1>1, <1>5, <2>1, <2>2
    <2> QED
      BY <2>3 DEF N!Unread
  <1>6. streams' = streams /\ client' = client
    BY DEF N!markNotificationAsRead, N!sockets
  <1> QED
    BY <1>1, <1>3, <1>4, <1>5, <1>6, Known, MarkStep, WrittenCounts DEF N!Telling

LEMMA TellCounts ==
    ASSUME N!TypeOK, N!CallersFit, N!ConstantsApart, N!StreamsFit, N!CountsRight, NEW c \in N!Callers, N!publishUnreadCount(c)
    PROVE  N!CountsRight'
  <1>1. PICK u : u = call[c].to
    OBVIOUS
  <1>2. u \in N!Users /\ call[c].at = "tell" /\ notices' = notices /\ counts' = counts
    BY <1>1, TellingTo DEF N!publishUnreadCount, N!Telling
  <1>3. call'[c].at \notin N!Telling /\ \A d \in N!Callers : d # c => call'[d] = call[d]
    <2>1. Becomes(c, N!After(c))
      BY TellStep
    <2>2. N!After(c).at \notin N!Telling
      BY <1>2, AfterIs DEF N!Telling, N!Reminder, N!NextMove, N!Idle, N!Turn, N!Callers, N!Users
    <2> QED
      BY <2>1, <2>2 DEF Becomes
  <1>4. c \in N!Sending(u) /\ \A v : N!Sending(v)' = N!Sending(v) \ {c}
    BY <1>1, <1>2, <1>3, SendingOf DEF N!Telling
  <1>5. \A v : N!Unread(v)' = N!Unread(v)
    BY <1>2, SameUnread
  <1> SUFFICES ASSUME NEW v \in N!Users PROVE Right(v)'
    BY AllRight
  <1>6. Right(v)
    BY AllRight
  <1>7. N!Sending(v)' # {} => N!Unread(v)' \in counts'[v]
    BY <1>2, <1>4, <1>5, <1>6 DEF Right
  <1>8. \A d \in N!Sending(v)' : call'[d].at = "tell" => call'[d].n \in counts'[v]
    BY <1>2, <1>3, <1>4, <1>6, SendingOf DEF Right
  <1>9. ASSUME N!Sending(v)' = {}, NEW s \in streams'[v]
        PROVE  client'[s].count \in counts'[v] \cup {None}
    <2>1. s \in Conns /\ s \in streams[v] /\ client[s].user = v
      BY <1>9, TellClients DEF N!StreamsFit, N!TypeOK
    <2>2. client'[s].count = IF client[s].user = call[c].to THEN call[c].n ELSE client[s].count
      BY <2>1, TellClients
    <2>3. CASE v = u
      BY <1>1, <1>2, <1>4, <1>6, <2>1, <2>2, <2>3 DEF Right
    <2>4. CASE v # u
      <3>1. N!Sending(v) = {}
        BY <1>1, <1>4, <1>9, <2>4, SendingOf
      <3> QED
        BY <1>1, <1>2, <1>6, <2>1, <2>2, <2>4, <3>1 DEF Right
    <2> QED
      BY <2>3, <2>4
  <1> QED
    BY <1>7, <1>8, <1>9 DEF Right

\* A count that fails leaves the clients what they show.
LEMMA FailCounts ==
    ASSUME N!TypeOK, N!CallersFit, N!ConstantsApart, N!CountsRight, NEW c \in N!Callers, N!Fail(c)
    PROVE  N!CountsRight'
  <1>1. PICK k : Becomes(c, k) /\ k \in {N!Idle, N!NextMove}
    BY FailStep DEF N!Callers
  <1>2. call'[c].at \notin N!Telling /\ \A d \in N!Callers : d # c => call'[d] = call[d]
    BY <1>1 DEF Becomes, N!Idle, N!NextMove, N!Turn, N!Telling
  <1>3. UNCHANGED <<notices, streams, client>>
    BY DEF N!Fail, N!sockets
  <1>4. CASE call[c].at # "count"
    <2>1. counts' = counts /\ call[c].at \notin N!Telling
      BY <1>4 DEF N!Fail, N!Telling
    <2> QED
      BY <1>2, <1>3, <2>1, IdleCounts
  <1>5. CASE call[c].at = "count"
    <2>1. PICK u \in N!Users : u = call[c].to
      BY <1>5, TellingTo DEF N!Telling
    <2>2. PICK S : S = {client[s].count : s \in streams[u]} \ {None}
      OBVIOUS
    <2>3. counts' = [counts EXCEPT ![u] = @ \cup S] /\ counts \in [N!Users -> SUBSET Nat]
      BY <1>5, <2>1, <2>2 DEF N!Fail, N!TypeOK
    <2>4. /\ counts'[u] = counts[u] \cup S
          /\ \A v \in N!Users : v # u => counts'[v] = counts[v]
      BY <2>3
    <2>5. c \in N!Sending(u) /\ \A v : N!Sending(v)' = N!Sending(v) \ {c}
      BY <1>2, <1>5, <2>1, SendingOf DEF N!Telling
    <2> SUFFICES ASSUME NEW v \in N!Users PROVE Right(v)'
      BY AllRight
    <2>6. Right(v) /\ N!Unread(v)' = N!Unread(v)
      BY <1>3, AllRight, SameUnread
    <2>7. \A d \in N!Sending(v)' : d \in N!Sending(v) /\ call'[d] = call[d]
      BY <1>2, <2>5, SendingOf
    <2>8. CASE v = u
      <3>1. N!Unread(v)' \in counts'[v]
        BY <2>4, <2>5, <2>6, <2>8 DEF Right
      <3>2. \A d \in N!Sending(v)' : call'[d].at = "tell" => call'[d].n \in counts'[v]
        BY <2>4, <2>6, <2>7, <2>8 DEF Right
      <3>3. \A s \in streams'[v] : client'[s].count \in counts'[v] \cup {None}
        BY <1>3, <2>2, <2>4, <2>8
      <3> QED
        BY <3>1, <3>2, <3>3 DEF Right
    <2>9. CASE v # u
      <3>1. N!Sending(v)' = N!Sending(v)
        BY <2>1, <2>5, <2>9, SendingOf
      <3> QED
        BY <1>3, <2>4, <2>6, <2>7, <2>9, <3>1, QuietRight
    <2> QED
      BY <2>8, <2>9
  <1> QED
    BY <1>4, <1>5

LEMMA CountsKept ==
    ASSUME N!TypeOK, N!CallersFit, N!ConstantsApart, N!CronStartsIdle, N!StreamsFit, N!CountsRight, [N!Next]_(N!vars)
    PROVE  N!CountsRight'
  <1>1. ASSUME NEW c \in N!Callers, N!publishNotification(c) PROVE N!CountsRight'
    <2>1. PICK k : k = [at |-> "count", to |-> call[c].to, type |-> call[c].type,
                        about |-> call[c].about, n |-> call[c].n]
      OBVIOUS
    <2>2. Becomes(c, k) /\ call[c].at = "push" /\ notices' = notices /\ counts' = counts
      BY <1>1, <2>1, PublishStep DEF N!publishNotification
    <2>3. call'[c].at = "count" /\ call'[c].to = call[c].to /\ \A d \in N!Callers : d # c => call'[d] = call[d]
      BY <2>1, <2>2 DEF Becomes
    <2>4. \A u : N!Sending(u)' = N!Sending(u)
      BY <2>2, <2>3, SendingOf DEF N!Telling
    <2>5. \A u : \A d \in N!Sending(u) : call'[d].at = "tell" => call[d].at = "tell" /\ call'[d].n = call[d].n
      BY <2>3, SendingOf
    <2>6. \A u \in N!Users : \A s \in streams'[u] : s \in streams[u] /\ client'[s].count = client[s].count
      BY <1>1, PublishClients DEF N!TypeOK
    <2> QED
      BY <2>2, <2>4, <2>5, <2>6, SameUnread, QuietCounts
  <1>2. ASSUME NEW c \in N!Callers, N!countUnreadByReceiver(c) PROVE N!CountsRight'
    <2>1. PICK k : k = [at |-> "tell", to |-> call[c].to, type |-> call[c].type,
                        about |-> call[c].about, n |-> N!Unread(call[c].to)]
      OBVIOUS
    <2>2. /\ Becomes(c, k) /\ call[c].at = "count"
          /\ notices' = notices /\ counts' = counts /\ streams' = streams /\ client' = client
      BY <1>2, <2>1, CountStep DEF N!countUnreadByReceiver, N!sockets
    <2>3. /\ call'[c].at = "tell" /\ call'[c].to = call[c].to /\ call'[c].n = N!Unread(call[c].to)
          /\ \A d \in N!Callers : d # c => call'[d] = call[d]
      BY <2>1, <2>2 DEF Becomes
    <2>4. \A u : N!Sending(u)' = N!Sending(u) /\ N!Unread(u)' = N!Unread(u)
      BY <2>2, <2>3, SendingOf, SameUnread DEF N!Telling
    <2>5. \A u : \A d \in N!Sending(u) : d # c => call'[d] = call[d]
      BY <2>3, SendingOf
    <2>6. \A u : c \in N!Sending(u) => call'[c].n = N!Unread(u)
      BY <2>3, SendingOf
    <2>7. ASSUME NEW u \in N!Users PROVE Right(u)'
      <3>1. Right(u)
        BY AllRight
      <3> QED
        BY <2>2, <2>4, <2>5, <2>6, <3>1 DEF Right
    <2> QED
      BY <2>7, AllRight
  <1>3. ASSUME NEW c \in N!Callers, N!Fail(c) PROVE N!CountsRight'
    BY <1>3, FailCounts
  <1>4. ASSUME NEW c \in N!Jobs,
               N!findConfirmedMovesOnDate(c) \/ N!runMoveDayReminderJob(c) \/ N!createMoveDayReminderIfAbsent(c)
        PROVE  N!CountsRight'
    <2>1. /\ UNCHANGED <<notices, streams, client, counts>> /\ call[c].at \notin N!Telling
          /\ \A d \in N!Callers : d # c => call'[d] = call[d]
      BY <1>4 DEF N!findConfirmedMovesOnDate, N!runMoveDayReminderJob, N!createMoveDayReminderIfAbsent, N!sockets, N!TypeOK, N!Telling
    <2>2. PICK k : Becomes(c, k) /\ k.at \notin N!Telling
      <3>1. /\ N!Idle.at \notin N!Telling /\ N!NextMove.at \notin N!Telling
            /\ \A m, u : N!Reminder(m, u).at \notin N!Telling
        BY DEF N!Reminder, N!NextMove, N!Idle, N!Turn, N!Telling
      <3>2. CASE N!findConfirmedMovesOnDate(c)
        BY <3>1, <3>2, JobSteps
      <3>3. CASE N!runMoveDayReminderJob(c)
        <4>1. CASE Becomes(c, N!Idle)
          BY <3>1, <4>1
        <4>2. CASE \E m \in Moves : Becomes(c, N!Reminder(m, "customer"))
          BY <3>1, <4>2
        <4> QED
          BY <3>3, <4>1, <4>2, JobSteps
      <3>4. CASE N!createMoveDayReminderIfAbsent(c)
        <4>1. CASE Becomes(c, N!After(c))
          BY <3>1, <3>4, <4>1, LookStep, AfterIs, Known DEF N!Users
        <4>2. PICK k : k = [at |-> "write", to |-> call[c].to, type |-> call[c].type,
                            about |-> call[c].about, n |-> call[c].n]
          OBVIOUS
        <4>3. k.at \notin N!Telling
          BY <4>2 DEF N!Telling
        <4> QED
          BY <3>4, <4>1, <4>2, <4>3, LookStep
      <3> QED
        BY <1>4, <3>2, <3>3, <3>4
    <2> QED
      BY <2>1, <2>2, IdleCounts DEF Becomes
  <1>5. ASSUME NEW j \in N!Jobs, N!startRun(j), call[j].at = "idle", UNCHANGED <<notices, streams, client, counts>>
        PROVE  N!CountsRight'
    <2>1. call'[j].at \notin N!Telling /\ \A d \in N!Callers : d # j => call'[d] = call[d]
      BY <1>5, StartStep DEF Becomes, N!Turn, N!Telling
    <2> QED
      BY <1>5, <2>1, IdleCounts DEF N!Telling
  <1>6. CASE N!Cron
    BY <1>5, <1>6, Known DEF N!Cron, N!CronStartsIdle, N!sockets
  <1>7. CASE N!Boot
    <2>1. call["boot"].at = "idle" /\ UNCHANGED <<notices, streams, client, counts>>
      BY <1>7, Known DEF N!Boot, N!sockets, N!CallersFit, N!Idle, N!Turn
    <2>2. N!startRun("boot") \/ call' = call
      BY <1>7 DEF N!Boot
    <2> QED
      BY <1>5, <2>1, <2>2, Known, IdleCounts
  <1>8. CASE N!Stop
    <2>1. \A u : N!Sending(u)' = {}
      BY <1>8, StopStep, SendingOf DEF N!Idle, N!Turn, N!Telling
    <2> QED
      BY <1>8, <2>1, StopStep DEF N!CountsRight
  <1>9. CASE UNCHANGED <<notices, call, streams, client, counts>>
    BY <1>9, IdleCounts
  <1>10. ASSUME N!Tick \/ \E m \in Moves : N!Confirm(m)
         PROVE  UNCHANGED <<notices, call, streams, client, counts>>
    BY <1>10 DEF N!Tick, N!Confirm, N!sockets
  <1>11. ASSUME NEW h \in Handlers,
               \/ \E m \in Moves : N!createReview(h, m)
               \/ N!insertReview(h) \/ N!findReviewWrittenNotificationContext(h)
               \/ N!notifyCommunityCommentOrReply(h)
         PROVE  N!CountsRight'
    <2>1. UNCHANGED <<notices, streams, client, counts>>
      BY <1>11 DEF N!createReview, N!insertReview, N!findReviewWrittenNotificationContext, N!notifyCommunityCommentOrReply, N!sockets
    <2>2. \A a, t, y, s : N!Turn(a, t, y, s).at = a
      BY DEF N!Turn
    <2>3. N!Idle.at = "idle"
      BY DEF N!Idle, N!Turn
    <2>4. PICK k : Becomes(h, k) /\ k.at \in {"idle", "insert", "context", "write"}
      <3>1. CASE \E m \in Moves : N!createReview(h, m)
        BY <2>2, <3>1, CreateReviewStep
      <3>2. CASE N!insertReview(h)
        <4>1. Becomes(h, N!Idle) \/ Becomes(h, N!Turn("context", None, "REVIEW_WRITTEN", Len(reviews) + 1))
          BY <3>2, InsertReviewStep
        <4> QED
          BY <2>2, <2>3, <4>1
      <3>3. CASE N!findReviewWrittenNotificationContext(h)
        BY <2>2, <2>3, <3>3, ContextStep
      <3>4. CASE N!notifyCommunityCommentOrReply(h)
        BY <2>2, <3>4, CommunityStep
      <3> QED
        BY <1>11, <3>1, <3>2, <3>3, <3>4
    <2>5. call[h].at \in {"idle", "insert", "context"}
      BY <1>11, CreateReviewStep, InsertReviewStep, ContextStep, CommunityStep
    <2> QED
      BY <2>1, <2>4, <2>5, IdleCounts DEF Becomes, N!Telling
  <1>12. ASSUME NEW r \in DOMAIN reviews, N!updateReview(r) \/ N!deleteReview(r) \/ N!deleteAdminReview(r)
         PROVE  N!CountsRight'
    BY <1>9, <1>12, ReviewStep
  <1>13. ASSUME NEW s \in Conns, (\E u \in N!Users : N!subscribe(s, u)) \/ N!close(s)
         PROVE  N!CountsRight'
    <2>1. notices' = notices /\ call' = call /\ counts' = counts
      BY <1>13, OpenClose
    <2>2. \A u : N!Sending(u)' = N!Sending(u)
      BY <2>1 DEF N!Sending
    <2>3. \A u \in N!Users : \A d \in streams'[u] :
             client'[d].count = None \/ (d \in streams[u] /\ client'[d].count = client[d].count)
      <3>1. \A u \in N!Users : streams'[u] \subseteq Conns
        <4>1. streams \in [N!Users -> SUBSET Conns]
          BY DEF N!TypeOK
        <4>2. ASSUME NEW u \in N!Users, N!subscribe(s, u)
              PROVE  \A v \in N!Users : streams'[v] \subseteq streams[v] \cup {s}
          BY <4>1, <4>2 DEF N!subscribe
        <4>3. CASE N!close(s)
          BY <4>1, <4>3 DEF N!close, N!Cleanup
        <4> QED
          BY <1>13, <4>1, <4>2, <4>3
      <3>2. \A d \in Conns : d # s => client'[d] = client[d] /\ \A u \in N!Users : d \in streams'[u] <=> d \in streams[u]
        BY <1>13, OpenClose
      <3> QED
        BY <1>13, <3>1, <3>2, OpenClose
    <2> QED
      BY <2>1, <2>2, <2>3, SameUnread, QuietCounts
  <1>14. ASSUME NEW s \in Conns, N!getNotificationsForReceiver(s) PROVE N!CountsRight'
    <2>1. notices' = notices /\ call' = call /\ counts' = counts /\ streams' = streams
      BY <1>14 DEF N!getNotificationsForReceiver
    <2>2. \A u : N!Sending(u)' = N!Sending(u)
      BY <2>1 DEF N!Sending
    <2>3. \A u \in N!Users : \A d \in streams[u] : d \in Conns /\ client'[d].count = client[d].count
      BY <1>14, LoadClients DEF N!TypeOK
    <2> QED
      BY <2>1, <2>2, <2>3, SameUnread, QuietCounts
  <1>15. CASE UNCHANGED N!vars
    BY <1>9, <1>15 DEF N!vars
  <1> QED
    BY <1>1, <1>2, <1>3, <1>4, <1>6, <1>7, <1>8, <1>9, <1>10, <1>11, <1>12, <1>13, <1>14, <1>15,
       CreateCounts, MarkCounts, TellCounts DEF N!Next

LEMMA Settles ==
    ASSUME N!TypeOK, N!ConstantsApart, N!StreamsFit, N!CountsRight PROVE N!CountSettles
  <1> SUFFICES ASSUME NEW s \in Conns, client[s].user # None, client[s].count # None,
                      N!Sending(client[s].user) = {}
               PROVE  client[s].count \in counts[client[s].user]
    BY DEF N!CountSettles
  <1>1. PICK u : u = client[s].user
    OBVIOUS
  <1>2. u \in N!Users /\ s \in streams[u]
    BY <1>1 DEF N!TypeOK, N!StreamsFit
  <1> QED
    BY <1>1, <1>2 DEF N!CountsRight

-----------------------------------------------------------------------------
(* The invariant. *)
LEMMA Reminded == ASSUME N!RunsCover PROVE N!EveryMoveReminded
  <1> SUFFICES ASSUME clock = "late", server = "up", N!Running = {}, NEW m \in due \ failed
               PROVE  /\ N!About("CUSTOMER_MOVE_DAY_REMINDER", m) # {}
                      /\ N!About("MOVER_MOVE_DAY_REMINDER", m) # {}
    BY DEF N!EveryMoveReminded
  <1>1. N!BothTold(m)
    BY DEF N!RunsCover
  <1> QED
    BY <1>1, AllTold DEF N!Told, N!ReminderType

LEMMA InitInv == ASSUME N!ConstantsApart, N!Init PROVE N!Inv
  <1>1. N!Idle \in N!Calls /\ N!Idle.at = "idle" /\ N!Idle.type = None /\ N!Idle.to = None
    BY NewCalls DEF N!Idle, N!Turn
  <1>2. \A c \in N!Callers : call[c] = N!Idle
    BY DEF N!Init
  <1>3. Len(notices) = 0 /\ DOMAIN notices = {} /\ DOMAIN reviews = {}
    BY DEF N!Init
  <1>4. N!TypeOK
    <2>1. call \in [N!Callers -> N!Calls] /\ todo \in [N!Jobs -> SUBSET Moves] /\ streams \in [N!Users -> SUBSET Conns]
      BY <1>1 DEF N!Init
    <2>2. N!NoClient \in [user : N!Users \cup {None}, loaded : BOOLEAN, knows : SUBSET Nat, count : Nat \cup {None}]
      BY DEF N!NoClient
    <2>3. client \in [Conns -> [user : N!Users \cup {None}, loaded : BOOLEAN, knows : SUBSET Nat,
                               count : Nat \cup {None}]]
      BY <2>2 DEF N!Init
    <2>4. /\ reviews \in Seq([move : Moves, rating : 1..5, live : BOOLEAN])
          /\ notices \in Seq([to : N!Users, type : N!NotificationType, about : N!Subjects, read : BOOLEAN])
      BY DEF N!Init
    <2> QED
      BY <2>1, <2>3, <2>4 DEF N!Init, N!TypeOK
  <1>5. N!CallersFit
    <2>1. \A c : Fits(c, N!Idle)
      BY TurnsFit
    <2> QED
      BY <1>2, <2>1, FitsAll
  <1>6. N!Running = {} /\ N!Reminders = {}
    BY <1>1, <1>2, <1>3, Known DEF N!Running, N!Reminders
  <1>7. N!RemindersApart /\ N!OnceAlone /\ N!CronStartsIdle /\ N!RunsApart /\ N!AtMostTwice
    BY <1>1, <1>2, <1>6, Known DEF N!RemindersApart, N!OnceAlone, N!CronStartsIdle, N!RunsApart,
       N!AtMostTwice
  <1>8. N!RunsCover
    BY <1>6 DEF N!RunsCover, N!Init
  <1>9. N!ReviewsTold
    BY <1>3 DEF N!ReviewsTold
  <1>10. N!StreamsFit /\ N!NothingMissed
    BY DEF N!StreamsFit, N!NothingMissed, N!Init, N!NoClient, N!ConstantsApart
  <1>11. N!CountsRight
    BY <1>1, <1>2, SendingOf DEF N!CountsRight, N!Telling, N!Init
  <1> QED
    BY <1>4, <1>5, <1>7, <1>8, <1>9, <1>10, <1>11 DEF N!Inv

LEMMA NextInv == ASSUME N!ConstantsApart, N!Inv, [N!Next]_(N!vars) PROVE N!Inv'
  <1>1. N!TypeOK'
    BY TypesKept DEF N!Inv
  <1> QED
    BY <1>1, FitKept, CronKept, RemindersKept, TwoKept, CoverKept, ToldKept, StreamsKept, MissedKept, CountsKept DEF N!Inv

-----------------------------------------------------------------------------
\* A behaviour of DailyJobs is one of each of its two systems.
LEMMA DailyRefines == DailySpec => Spec /\ N!Spec
  <1>1. DailyInit => Init /\ N!Init
    BY DEF DailyInit
  <1>2. [DailyNext]_<<system, vars, noticeVars>> => [Next]_vars /\ [N!Next]_(N!vars)
    BY DEF DailyNext, vars, noticeVars, N!vars
  <1> QED
    BY <1>1, <1>2, PTL DEF DailySpec, Spec, N!Spec

\* The inductive invariant of notices, reminders and reviews holds.
THEOREM NoticesInvHolds == DailySpec => []N!Inv
  <1>1. N!Init => N!Inv
    BY InitInv, NoticesConstants
  <1>2. N!Inv /\ [N!Next]_(N!vars) => N!Inv'
    BY NextInv, NoticesConstants
  <1> QED
    BY <1>1, <1>2, DailyRefines, PTL DEF N!Spec

\* Whatever stops and starts the server, errors and other callers come between
\* the look and the insert of a reminder, nobody is reminded twice of a move by
\* one run after another, and no more than twice by two at work together.
THEOREM RemindersStayWithinRuns == DailySpec => []RemindersWithinRuns
  <1>1. N!Inv => RemindersWithinRuns
    BY DEF RemindersWithinRuns, N!RemindersWithinRuns, N!Inv
  <1> QED
    BY <1>1, NoticesInvHolds, PTL

\* When no run is left that day, both users of every move confirmed before
\* 09:00 are reminded, but for the moves an error cut off.
THEOREM MovesReminded == DailySpec => []EveryMoveReminded
  <1>1. N!Inv => EveryMoveReminded
    BY Reminded DEF EveryMoveReminded, N!Inv
  <1> QED
    BY <1>1, NoticesInvHolds, PTL

\* The stream and the list together miss none of a user's latest notices.
THEOREM NoNoticeMissed == DailySpec => []NothingMissed
  <1>1. N!Inv => NothingMissed
    BY DEF NothingMissed, N!Inv
  <1> QED
    BY <1>1, NoticesInvHolds, PTL

\* When nothing of a user's is under way, its clients show its unread notices.
THEOREM CountsSettle == DailySpec => []CountSettles
  <1>1. N!Inv => CountSettles
    BY Settles, NoticesConstants DEF CountSettles, N!Inv
  <1> QED
    BY <1>1, NoticesInvHolds, PTL

\* A move has one live review at most, and its mover is told of it once.
THEOREM ReviewsToldOnce == DailySpec => []OneReviewToldOnce
  <1>1. N!Inv => OneReviewToldOnce
    BY ToldOnce DEF OneReviewToldOnce, N!Inv
  <1> QED
    BY <1>1, NoticesInvHolds, PTL

-----------------------------------------------------------------------------
(***************************************************************************)
(* Images and objects: what rows refer to is never condemned, so that no   *)
(* deletion reaches it, and the night's run owes what it has not looked at.*)
(***************************************************************************)
\* What a step has to keep for rows and condemned keys to stay apart.
LEMMA RowsFrame ==
    ASSUME TypeOK, ReferencedStay, CondemnedUnused, late \subseteq late',
           Stored \ Stored' \subseteq Condemned,
           \A k \in InRows' : k \in InRows \/ k \in late' \/ k \in Stored' \ Condemned,
           \A k \in Condemned' : k \in Condemned \/ k \in late' \/ k \notin InRows'
    PROVE  ReferencedStay' /\ CondemnedUnused'
  BY DEF ReferencedStay, CondemnedUnused

LEMMA StepCondemned ==
    ASSUME NEW h \in Handlers, NEW D, job' = job,
           \A g \in Handlers : g # h => pc'[g] = pc[g] /\ request'[g] = request[g],
           pc'[h] = "delete" => request'[h].doomed \subseteq D
    PROVE  \A k \in Condemned' : k \in Condemned \/ k \in D
  BY DEF Condemned

LEMMA StoredKeeps ==
    ASSUME object' = object PROVE Stored' = Stored
  BY DEF Stored
\* A step of one handler: nothing is deleted, what comes into the rows is there
\* and not condemned, what it condemns is in no row.
LEMMA HandlerRows ==
    ASSUME Inv, NEW h \in Handlers, NEW D,
           object' = object, job' = job, late \subseteq late',
           \A g \in Handlers : g # h => pc'[g] = pc[g] /\ request'[g] = request[g],
           pc'[h] = "delete" => request'[h].doomed \subseteq D,
           \A k \in D : k \in late' \/ k \notin InRows',
           \A k \in InRows' : k \in InRows \/ k \in late' \/ k \in Stored \ Condemned
    PROVE  ReferencedStay' /\ CondemnedUnused'
  <1>1. Stored' = Stored
    BY StoredKeeps
  <1>2. \A k \in Condemned' : k \in Condemned \/ k \in D
    BY StepCondemned
  <1> QED
    BY <1>1, <1>2, RowsFrame DEF Inv

\* Of a step that leaves the rows alone and deletes nothing next.
LEMMA QuietRows ==
    ASSUME Inv, NEW h \in Handlers, UNCHANGED <<object, database, job>>,
           late \subseteq late',
           \A g \in Handlers : g # h => pc'[g] = pc[g] /\ request'[g] = request[g],
           pc'[h] # "delete"
    PROVE  ReferencedStay' /\ CondemnedUnused'
  <1>1. InRows' = InRows
    BY DEF InRows, database
  <1> QED
    BY <1>1, HandlerRows

LEMMA RequestRows ==
    ASSUME Inv, NEW h \in Handlers, Request(h)
    PROVE  ReferencedStay' /\ CondemnedUnused'
  <1>1. PICK keys \in SUBSET Uploaded :
          \/ createPost(h, keys)
          \/ \E p \in Posts : updatePost(h, p, keys)
          \/ sendImageMessage(h, keys)
          \/ BeginProfile(h, keys)
    BY DEF Request, registerCustomerProfile, readMover
  <1>2. UNCHANGED <<object, database, job>> /\ late \subseteq late'
    BY <1>1 DEF createPost, updatePost, sendImageMessage, BeginProfile
  <1>3. pc'[h] # "delete" /\ \A g \in Handlers : g # h => pc'[g] = pc[g]
    BY <1>1 DEF Inv, TypeOK, createPost, updatePost, sendImageMessage, BeginProfile,
         Begin, Goto
  <1>4. \A g \in Handlers : g # h => request'[g] = request[g]
    BY <1>1 DEF Inv, TypeOK, createPost, updatePost, sendImageMessage, BeginProfile
  <1> QED
    BY <1>2, <1>3, <1>4, QuietRows

LEMMA PostWriteRows ==
    ASSUME Inv, NEW h \in Handlers,
           (\E p \in Posts : insertPost(h, p)) \/ replacePostImages(h)
    PROVE  ReferencedStay' /\ CondemnedUnused'
  <1>1. PICK p \in Posts : images' = [images EXCEPT ![p] = request[h].keys]
    BY DEF Inv, OnePrefix, insertPost, replacePostImages
  <1>2. /\ UNCHANGED <<object, attached, profileImage, job>>
        /\ Attach(request[h].keys)
        /\ Answer(h) \/ Catch(h) \/ \E d : Goto(h, "references") /\ request' = [request EXCEPT ![h].doomed = d, ![h].written = TRUE]
    BY DEF insertPost, replacePostImages
  <1>3. /\ pc'[h] # "delete"
        /\ \A g \in Handlers : g # h => pc'[g] = pc[g] /\ request'[g] = request[g]
    BY <1>2 DEF Inv, TypeOK, Answer, Catch, Goto
  <1>4. \A k \in InRows' : k \in InRows \/ k \in request[h].keys
    BY <1>1, <1>2 DEF InRows, Inv, TypeOK
  <1>5. \A k \in request[h].keys : k \in late' \/ k \in Stored \ Condemned
    BY <1>2 DEF Inv, TypeOK, Attach
  <1>6. late \subseteq late'
    BY <1>2 DEF Attach
  <1> QED
    BY <1>2, <1>3, <1>4, <1>5, <1>6, HandlerRows

\* A look that found the key in no row of the prefix: there is no other row.
LEMMA ReferencedIsInRows ==
    ASSUME Inv, prefix \in CleanedPrefixes
    PROVE  Referenced = InRows
  <1>1. CASE prefix = "posts"
    BY <1>1 DEF Inv, OnePrefix, Referenced, InRows
  <1>2. CASE prefix = "chat-attachments"
    BY <1>2 DEF Inv, OnePrefix, Referenced, InRows
  <1> QED
    BY <1>1, <1>2 DEF CleanedPrefixes
LEMMA StillRows ==
    ASSUME Inv, NEW h \in Handlers,
           \/ assertValidPostImageKeys(h) \/ assertImageKeysNotReferenced(h)
           \/ WriteFails(h) \/ LookFails(h) \/ ProfileRefused(h)
    PROVE  ReferencedStay' /\ CondemnedUnused'
  <1>1. UNCHANGED <<object, database, job>> /\ late \subseteq late'
    BY DEF assertValidPostImageKeys, assertImageKeysNotReferenced, WriteFails,
         LookFails, ProfileRefused
  <1>2. pc'[h] # "delete" /\ \A g \in Handlers : g # h => pc'[g] = pc[g] /\ request'[g] = request[g]
    BY DEF Inv, TypeOK, assertValidPostImageKeys, assertImageKeysNotReferenced, WriteFails,
         LookFails, ProfileRefused, Answer, Catch, Goto
  <1> QED
    BY <1>1, <1>2, QuietRows

LEMMA LookRows ==
    ASSUME Inv, NEW h \in Handlers, deleteUnreferencedPostImageKeys(h)
    PROVE  ReferencedStay' /\ CondemnedUnused'
  <1>1. UNCHANGED <<object, database, job, late>>
    BY DEF deleteUnreferencedPostImageKeys
  <1>2. \A g \in Handlers : g # h => pc'[g] = pc[g] /\ request'[g] = request[g]
    BY DEF Inv, TypeOK, deleteUnreferencedPostImageKeys, Answer, Goto
  <1>3. pc'[h] = "delete" => request'[h].doomed = request[h].doomed \ Referenced
    BY DEF Inv, TypeOK, deleteUnreferencedPostImageKeys, Answer, Goto
  <1>4. Referenced = InRows /\ InRows' = InRows
    BY <1>1, ReferencedIsInRows DEF deleteUnreferencedPostImageKeys, CleanedPrefixes, InRows, database
  <1> QED
    BY <1>1, <1>2, <1>3, <1>4, HandlerRows

LEMMA MessageRows ==
    ASSUME Inv, NEW h \in Handlers, createImageMessage(h)
    PROVE  ReferencedStay' /\ CondemnedUnused'
  <1>1. /\ UNCHANGED <<object, images, profileImage, job>>
        /\ \/ attached' = attached /\ late' = late
           \/ attached' = attached \cup request[h].keys /\ Attach(request[h].keys)
    BY DEF createImageMessage
  <1>2. pc'[h] # "delete" /\ \A g \in Handlers : g # h => pc'[g] = pc[g] /\ request'[g] = request[g]
    BY DEF Inv, TypeOK, createImageMessage, Answer, Goto
  <1>3. \A k \in InRows' : k \in InRows \/ k \in late' \/ k \in Stored \ Condemned
    BY <1>1 DEF InRows, Attach, Inv, TypeOK
  <1>4. late \subseteq late'
    BY <1>1 DEF Attach
  <1> QED
    BY <1>1, <1>2, <1>3, <1>4, HandlerRows

\* What the outcomes of a save share.
LEMMA DiscardFrame ==
    ASSUME TypeOK, NEW h \in Handlers, NEW D, Discard(h, D)
    PROVE  /\ \A g \in Handlers : g # h => pc'[g] = pc[g] /\ request'[g] = request[g]
           /\ pc'[h] \in {"idle", "delete"}
           /\ pc'[h] = "delete" => request'[h].doomed = D
  BY DEF TypeOK, Discard, Answer, Goto

LEMMA CatchFrame ==
    ASSUME TypeOK, NEW h \in Handlers, CatchSave(h)
    PROVE  /\ \A g \in Handlers : g # h => pc'[g] = pc[g] /\ request'[g] = request[g]
           /\ pc'[h] \in {"idle", "delete"}
           /\ pc'[h] = "delete" => request'[h].doomed = request[h].keys
           /\ late' = late \cup (request[h].keys \cap profileImage')
  BY DEF TypeOK, CatchSave, Answer, Goto

LEMMA MoverFrame ==
    ASSUME TypeOK, NEW h \in Handlers, saveMoverProfile(h)
    PROVE  /\ \A g \in Handlers : g # h => pc'[g] = pc[g] /\ request'[g] = request[g]
           /\ pc'[h] \in {"reindex", "delete"}
           /\ pc'[h] = "delete" => request'[h].doomed = request[h].previous \ request[h].keys
  BY DEF TypeOK, saveMoverProfile, Goto

LEMMA ReindexFrame ==
    ASSUME TypeOK, NEW h \in Handlers, reindexMoverProfileEmbedding(h)
    PROVE  /\ \A g \in Handlers : g # h => pc'[g] = pc[g] /\ request'[g] = request[g]
           /\ pc'[h] \in {"idle", "delete"}
           /\ pc'[h] = "delete" => request'[h].doomed = request[h].keys
           /\ UNCHANGED <<prefix, object, database, job>> /\ late \subseteq late'
           /\ pc'[h] = "delete" => late' = late \cup (request[h].keys \cap profileImage')
  <1>1. CASE CatchSave(h)
    BY <1>1, CatchFrame DEF reindexMoverProfileEmbedding
  <1>2. CASE Answer(h) /\ UNCHANGED late
    BY <1>2 DEF TypeOK, reindexMoverProfileEmbedding, Answer, Goto
  <1> QED
    BY <1>1, <1>2 DEF reindexMoverProfileEmbedding

LEMMA SaveRows ==
    ASSUME Inv, NEW h \in Handlers,
           \/ createCustomerProfile(h) \/ updateCustomerProfile(h) \/ saveMoverProfile(h)
           \/ ProfileSavedUnheard(h)
    PROVE  ReferencedStay' /\ CondemnedUnused'
  <1>1. PICK D : /\ \A g \in Handlers : g # h => pc'[g] = pc[g] /\ request'[g] = request[g]
                 /\ pc'[h] = "delete" => request'[h].doomed \subseteq D
                 /\ \A k \in D : k \notin request[h].keys \/ k \in late'
    <2>1. CASE createCustomerProfile(h) \/ updateCustomerProfile(h)
      <3>1. PICK D : Discard(h, D) /\ \A k \in D : k \notin request[h].keys
        BY <2>1 DEF createCustomerProfile, updateCustomerProfile
      <3> QED
        BY <3>1, DiscardFrame DEF Inv
    <2>2. CASE saveMoverProfile(h)
      BY <2>2, MoverFrame DEF Inv
    <2>3. CASE ProfileSavedUnheard(h)
      <3>1. CatchSave(h) /\ profileImage' = request[h].keys
        BY <2>3 DEF ProfileSavedUnheard, CommitProfile
      <3>2. \A k \in request[h].keys : k \in late'
        BY <3>1, CatchFrame DEF Inv
      <3> QED
        BY <3>1, <3>2, CatchFrame DEF Inv
    <2> QED
      BY <2>1, <2>2, <2>3
  <1>2. /\ UNCHANGED <<object, images, attached, job>> /\ profileImage' = request[h].keys
        /\ \A p \in Posts : images[p] = {}
        /\ attached = {}
    BY DEF createCustomerProfile, updateCustomerProfile, saveMoverProfile,
         ProfileSavedUnheard, CommitProfile, Inv, OnePrefix
  <1>3. /\ late \subseteq late'
        /\ \A k \in request[h].keys : k \in late' \/ k \in Stored \ Condemned
    BY <1>2 DEF createCustomerProfile, updateCustomerProfile, saveMoverProfile,
         ProfileSavedUnheard, CatchSave, Attach, Inv, TypeOK
  <1>4. InRows' = request[h].keys
    BY <1>2 DEF InRows
  <1> QED
    BY <1>1, <1>2, <1>3, <1>4, HandlerRows

\* The upload a failed save named is not the user's image, or it is late.
LEMMA NotSavedRows ==
    ASSUME Inv, NEW h \in Handlers, ProfileNotSaved(h) \/ reindexMoverProfileEmbedding(h)
    PROVE  ReferencedStay' /\ CondemnedUnused'
  <1>1. /\ UNCHANGED <<object, database, job>> /\ late \subseteq late'
        /\ pc[h] \in {"profile", "reindex"}
        /\ \A g \in Handlers : g # h => pc'[g] = pc[g] /\ request'[g] = request[g]
        /\ pc'[h] = "delete" => request'[h].doomed = request[h].keys
        /\ pc'[h] = "delete" => late' = late \cup (request[h].keys \cap profileImage')
    BY CatchFrame, ReindexFrame DEF ProfileNotSaved, reindexMoverProfileEmbedding, Inv
  <1>2. InRows' = InRows /\ InRows = profileImage /\ profileImage' = profileImage
    BY <1>1 DEF Inv, OnePrefix, InRows, database
  <1>3. CASE pc'[h] = "delete"
    BY <1>1, <1>2, <1>3, HandlerRows
  <1>4. CASE pc'[h] # "delete"
    BY <1>1, <1>4, QuietRows
  <1> QED
    BY <1>3, <1>4

\* A deletion takes condemned keys only.
LEMMA DeleteRows ==
    ASSUME Inv, Night \/ JobFails \/ \E h \in Handlers : deletePostImageKeysSafely(h)
    PROVE  ReferencedStay' /\ CondemnedUnused'
  <1>1. UNCHANGED <<database, late>>
    BY DEF Night, JobFails, deletePostImageKeysSafely, cleanupOrphanS3Objects,
         listObjectsByPrefix, NightEnds, findReferencedKeys, deleteS3KeysSafely
  <1>2. InRows' = InRows
    BY <1>1 DEF InRows, database
  <1>3. Stored \ Stored' \subseteq Condemned
    <2>1. CASE \E h \in Handlers : deletePostImageKeysSafely(h)
      BY <2>1 DEF deletePostImageKeysSafely, Delete, Stored, Condemned
    <2>2. CASE \E keys \in SUBSET Keys : deleteS3KeysSafely(keys)
      BY <2>2 DEF deleteS3KeysSafely, Delete, Stored, Condemned
    <2>3. CASE object' = object
      BY <2>3 DEF Stored
    <2> QED
      BY <2>1, <2>2, <2>3 DEF Night, JobFails, cleanupOrphanS3Objects,
         listObjectsByPrefix, NightEnds, findReferencedKeys
  <1>4. \A k \in Condemned' : k \in Condemned \/ k \notin InRows
    <2>1. CASE \E h \in Handlers : deletePostImageKeysSafely(h)
      <3>1. PICK h \in Handlers : deletePostImageKeysSafely(h)
        BY <2>1
      <3>2. /\ job' = job /\ pc'[h] # "delete"
            /\ \A g \in Handlers : g # h => pc'[g] = pc[g] /\ request'[g] = request[g]
        BY <3>1 DEF Inv, TypeOK, deletePostImageKeysSafely, Reindex, Answer, Goto
      <3> QED
        BY <3>2 DEF Inv, TypeOK, Condemned
    <2>2. CASE findReferencedKeys
      <3>1. UNCHANGED <<pc, request>> /\ job.pc \in {"refs", "recheck"} /\ job'.doomed = job.doomed \ Referenced
        BY <2>2 DEF findReferencedKeys, Inv, TypeOK
      <3>2. Referenced = InRows
        BY <3>1, ReferencedIsInRows DEF Inv, OnePrefix
      <3> QED
        BY <3>1, <3>2 DEF Condemned
    <2>3. CASE UNCHANGED <<pc, request>> /\ job'.pc \in {"off", "list", "refs"}
      BY <2>3 DEF Condemned
    <2>4. ASSUME \/ cleanupOrphanS3Objects \/ \E page \in SUBSET Keys : listObjectsByPrefix(page)
                 \/ NightEnds \/ \E keys \in SUBSET Keys : deleteS3KeysSafely(keys) \/ JobFails
          PROVE  UNCHANGED <<pc, request>> /\ job'.pc \in {"off", "list", "refs"}
      <3>1. UNCHANGED <<pc, request>>
        BY <2>4 DEF JobFails, cleanupOrphanS3Objects, listObjectsByPrefix, NightEnds,
           deleteS3KeysSafely
      <3>2. CASE JobFails \/ NightEnds
        BY <3>1, <3>2 DEF JobFails, NightEnds, NoJob
      <3>3. CASE cleanupOrphanS3Objects
        BY <3>1, <3>3 DEF Inv, TypeOK, cleanupOrphanS3Objects
      <3>4. CASE \E page \in SUBSET Keys : listObjectsByPrefix(page)
        BY <3>1, <3>4 DEF Inv, TypeOK, listObjectsByPrefix
      <3>5. CASE \E keys \in SUBSET Keys : deleteS3KeysSafely(keys)
        BY <3>1, <3>5 DEF Inv, TypeOK, deleteS3KeysSafely
      <3> QED
        BY <2>4, <3>2, <3>3, <3>4, <3>5
    <2> QED
      BY <2>1, <2>2, <2>3, <2>4 DEF Night
  <1> QED
    BY <1>1, <1>2, <1>3, <1>4, RowsFrame DEF Inv

LEMMA ElsewhereRows ==
    ASSUME Inv, \/ \E k \in Keys : Upload(k) \/ Age(k)
                \/ \E p \in Posts : softDeletePost(p)
                \/ UNCHANGED vars
    PROVE  ReferencedStay' /\ CondemnedUnused'
  <1>1. UNCHANGED <<images, attached, profileImage, pc, request, job, late>>
    BY DEF Upload, Age, softDeletePost, vars, database
  <1>2. Stored \subseteq Stored'
    BY DEF Inv, TypeOK, Upload, Age, softDeletePost, vars, Stored
  <1>3. InRows' = InRows /\ Condemned' = Condemned
    BY <1>1 DEF InRows, Condemned
  <1> QED
    BY <1>1, <1>2, <1>3, RowsFrame DEF Inv

LEMMA RowsKept ==
    ASSUME Inv, [Next]_vars
    PROVE  ReferencedStay' /\ CondemnedUnused'
  BY RequestRows, PostWriteRows, StillRows, LookRows, MessageRows, SaveRows, NotSavedRows, DeleteRows,
     ElsewhereRows DEF Next, Continue
-----------------------------------------------------------------------------
(* Types and prefixes. *)
\* What the ends of a call leave in the handler.
HandlersTyped ==
    /\ pc \in [Handlers -> {"idle", "valid", "unreferenced", "write", "references", "delete",
                            "send", "profile", "reindex"}]
    /\ request \in [Handlers -> [for : Posts \cup {None, "empty", "saved", "mover"},
                                 keys : SUBSET Keys, previous : SUBSET Keys,
                                 doomed : SUBSET Keys, written : BOOLEAN]]

\* One field of one handler's request gets a value of its type.
LEMMA RequestTyped ==
    ASSUME HandlersTyped, NEW h \in Handlers, NEW r, request' = [request EXCEPT ![h] = r],
           r \in [for : Posts \cup {None, "empty", "saved", "mover"}, keys : SUBSET Keys,
                  previous : SUBSET Keys, doomed : SUBSET Keys, written : BOOLEAN],
           NEW q \in {"idle", "valid", "unreferenced", "write", "references", "delete", "send", "profile",
                  "reindex"},
           pc' = [pc EXCEPT ![h] = q]
    PROVE  HandlersTyped'
  BY DEF HandlersTyped

LEMMA FieldsTyped ==
    ASSUME HandlersTyped, NEW h \in Handlers, NEW f \in Posts \cup {None, "empty", "saved", "mover"},
           NEW K \in SUBSET Keys, NEW P \in SUBSET Keys,
           request' = [request EXCEPT ![h].for = f, ![h].keys = K, ![h].previous = P]
    PROVE  \E r \in [for : Posts \cup {None, "empty", "saved", "mover"}, keys : SUBSET Keys,
                     previous : SUBSET Keys, doomed : SUBSET Keys, written : BOOLEAN] :
              request' = [request EXCEPT ![h] = r]
  <1> DEFINE r == [request[h] EXCEPT !.for = f, !.keys = K, !.previous = P]
  <1>1. request[h] \in [for : Posts \cup {None, "empty", "saved", "mover"}, keys : SUBSET Keys,
                        previous : SUBSET Keys, doomed : SUBSET Keys, written : BOOLEAN]
    BY DEF HandlersTyped
  <1>2. r \in [for : Posts \cup {None, "empty", "saved", "mover"}, keys : SUBSET Keys,
               previous : SUBSET Keys, doomed : SUBSET Keys, written : BOOLEAN]
    BY <1>1
  <1>3. request' = [request EXCEPT ![h] = r]
    BY DEF HandlersTyped
  <1> QED
    BY <1>2, <1>3

LEMMA EndsTyped ==
    ASSUME HandlersTyped, NEW h \in Handlers,
           \/ Answer(h) \/ Catch(h) \/ CatchSave(h) \/ Reindex(h)
           \/ saveMoverProfile(h)
           \/ \E D \in SUBSET Keys : Discard(h, D)
    PROVE  HandlersTyped'
  <1> DEFINE r == request[h]
  <1>1. /\ r.for \in Posts \cup {None, "empty", "saved", "mover"}
        /\ r.keys \in SUBSET Keys /\ r.previous \in SUBSET Keys /\ r.doomed \in SUBSET Keys /\ r.written \in BOOLEAN
        /\ r = [for |-> r.for, keys |-> r.keys, previous |-> r.previous, doomed |-> r.doomed, written |-> r.written]
    BY DEF HandlersTyped
  <1>2. CASE Answer(h)
    BY <1>2, RequestTyped DEF Answer, Goto, NoRequest
  <1>3. CASE Catch(h)
    <2>1. request' = [request EXCEPT ![h] = [r EXCEPT !.doomed = r.keys \ r.previous, !.written = FALSE]]
      BY <1>3 DEF Catch, newImageKeys
    <2>2. [r EXCEPT !.doomed = r.keys \ r.previous, !.written = FALSE]
            \in [for : Posts \cup {None, "empty", "saved", "mover"}, keys : SUBSET Keys,
                  previous : SUBSET Keys, doomed : SUBSET Keys, written : BOOLEAN]
      BY <1>1
    <2> QED
      BY <1>3, <2>1, <2>2, RequestTyped DEF Catch, Goto
  <1>4. ASSUME NEW D \in SUBSET Keys, Goto(h, "delete"), request' = [request EXCEPT ![h].doomed = D]
        PROVE  HandlersTyped'
    BY <1>4 DEF HandlersTyped, Goto
  <1>5. ASSUME NEW D \in SUBSET Keys, NEW b \in BOOLEAN, NEW q \in {"delete", "reindex"}, Goto(h, q),
               request' = [request EXCEPT ![h].doomed = D, ![h].written = b]
        PROVE  HandlersTyped'
    <2>1. request' = [request EXCEPT ![h] = [r EXCEPT !.doomed = D, !.written = b]]
      BY <1>5
    <2>2. [r EXCEPT !.doomed = D, !.written = b]
            \in [for : Posts \cup {None, "empty", "saved", "mover"}, keys : SUBSET Keys,
                  previous : SUBSET Keys, doomed : SUBSET Keys, written : BOOLEAN]
      BY <1>1
    <2> QED
      BY <1>5, <2>1, <2>2, RequestTyped DEF Goto
  <1>6. CASE CatchSave(h)
    BY <1>1, <1>2, <1>5, <1>6 DEF CatchSave
  <1>7. CASE Reindex(h)
    BY <1>7 DEF Reindex, HandlersTyped, Goto
  <1>8. CASE saveMoverProfile(h)
    BY <1>1, <1>5, <1>8 DEF saveMoverProfile
  <1> QED
    BY <1>2, <1>3, <1>4, <1>6, <1>7, <1>8 DEF Discard

LEMMA RequestTypes ==
    ASSUME TypeOK, NEW h \in Handlers, Request(h)
    PROVE  TypeOK'
  <1>1. Uploaded \subseteq Keys
    BY DEF Uploaded
  <1>2. HandlersTyped /\ \A p \in Posts : images[p] \subseteq Keys
    BY DEF TypeOK, HandlersTyped
  <1>3. ASSUME NEW keys \in SUBSET Uploaded,
               \/ createPost(h, keys)
               \/ \E p \in Posts : updatePost(h, p, keys)
               \/ sendImageMessage(h, keys)
               \/ BeginProfile(h, keys)
        PROVE  HandlersTyped'
    <2>1. CASE createPost(h, keys)
      BY <1>1, <1>2, <2>1 DEF createPost, Begin, Goto, HandlersTyped
    <2>2. ASSUME NEW p \in Posts, updatePost(h, p, keys)
          PROVE  HandlersTyped'
      <3>1. images[p] \in SUBSET Keys /\ keys \in SUBSET Keys
        BY <1>1, <1>2
      <3> QED
        BY <1>2, <2>2, <3>1, FieldsTyped, RequestTyped DEF updatePost, Begin, Goto
    <2>3. CASE sendImageMessage(h, keys)
      BY <1>1, <1>2, <2>3 DEF sendImageMessage, Begin, Goto, HandlersTyped
    <2>4. CASE BeginProfile(h, keys)
      <3>1. profileImage \in SUBSET Keys /\ keys \in SUBSET Keys /\ profile \in {"empty", "saved", "mover"}
        BY <1>1 DEF TypeOK
      <3> QED
        BY <1>2, <2>4, <3>1, FieldsTyped, RequestTyped DEF BeginProfile, Begin, Goto
    <2> QED
      BY <1>3, <2>1, <2>2, <2>3, <2>4
  <1>4. /\ UNCHANGED <<prefix, object, database, job>>
        /\ late' \in SUBSET Keys
    BY <1>1 DEF TypeOK, Request, createPost, updatePost, sendImageMessage, registerCustomerProfile,
       readMover, BeginProfile
  <1>5. HandlersTyped'
    BY <1>3 DEF Request, registerCustomerProfile, readMover
  <1> QED
    BY <1>4, <1>5 DEF TypeOK, HandlersTyped, database

LEMMA ContinueTypes ==
    ASSUME TypeOK, NEW h \in Handlers, Continue(h)
    PROVE  TypeOK'
  <1>1. HandlersTyped /\ request[h].keys \subseteq Keys /\ request[h].previous \subseteq Keys
        /\ request[h].doomed \subseteq Keys
    BY DEF TypeOK, HandlersTyped
  <1>2. HandlersTyped'
    <2>1. CASE assertValidPostImageKeys(h) \/ assertImageKeysNotReferenced(h)
      BY <1>1, <2>1, EndsTyped DEF HandlersTyped, assertValidPostImageKeys, assertImageKeysNotReferenced, Goto
    <2>2. CASE \E p \in Posts : insertPost(h, p)
      BY <1>1, <2>2, EndsTyped DEF insertPost
    <2>3. CASE replacePostImages(h)
      BY <1>1, <2>3, EndsTyped DEF replacePostImages, HandlersTyped, Goto
    <2>4. CASE WriteFails(h) \/ LookFails(h) \/ deletePostImageKeysSafely(h) \/ createImageMessage(h)
               \/ ProfileRefused(h)
      BY <1>1, <2>4, EndsTyped DEF WriteFails, LookFails, deletePostImageKeysSafely, createImageMessage,
         ProfileRefused
    <2>5. CASE deleteUnreferencedPostImageKeys(h)
      <3>1. CASE Answer(h)
        BY <1>1, <3>1, EndsTyped
      <3>2. CASE ~Answer(h)
        BY <1>1, <2>5, <3>2 DEF deleteUnreferencedPostImageKeys, HandlersTyped, Goto
      <3> QED
        BY <3>1, <3>2
    <2>6. CASE createCustomerProfile(h) \/ updateCustomerProfile(h)
      <3>1. PICK D \in SUBSET Keys : Discard(h, D)
        BY <1>1, <2>6 DEF createCustomerProfile, updateCustomerProfile
      <3> QED
        BY <1>1, <3>1, EndsTyped
    <2>7. CASE saveMoverProfile(h) \/ ProfileNotSaved(h) \/ ProfileSavedUnheard(h)
               \/ reindexMoverProfileEmbedding(h)
      BY <1>1, <2>7, EndsTyped DEF ProfileNotSaved, ProfileSavedUnheard, reindexMoverProfileEmbedding
    <2> QED
      BY <2>1, <2>2, <2>3, <2>4, <2>5, <2>6, <2>7 DEF Continue
  <1>3. /\ prefix' = prefix /\ job' = job
        /\ object' \in [Keys -> {"none", "fresh", "old", "gone"}]
    BY DEF TypeOK, Continue, assertValidPostImageKeys, assertImageKeysNotReferenced, insertPost,
       replacePostImages, WriteFails, LookFails, deletePostImageKeysSafely, createImageMessage,
       ProfileRefused, deleteUnreferencedPostImageKeys, createCustomerProfile, updateCustomerProfile,
       saveMoverProfile, ProfileNotSaved, ProfileSavedUnheard, reindexMoverProfileEmbedding, CommitProfile, Delete
  <1>4. /\ post' \in [Posts -> {"none", "live", "deleted"}]
        /\ images' \in [Posts -> SUBSET Keys]
    BY <1>1 DEF TypeOK, Continue, assertValidPostImageKeys, assertImageKeysNotReferenced, insertPost,
       replacePostImages, WriteFails, LookFails, deletePostImageKeysSafely, createImageMessage,
       ProfileRefused, deleteUnreferencedPostImageKeys, createCustomerProfile, updateCustomerProfile,
       saveMoverProfile, ProfileNotSaved, ProfileSavedUnheard, reindexMoverProfileEmbedding, CommitProfile, database
  <1>5. /\ attached' \in SUBSET Keys /\ profileImage' \in SUBSET Keys /\ late' \in SUBSET Keys
        /\ profile' \in {"empty", "saved", "mover"}
    BY <1>1 DEF TypeOK, Continue, assertValidPostImageKeys, assertImageKeysNotReferenced, insertPost,
       replacePostImages, WriteFails, LookFails, deletePostImageKeysSafely, createImageMessage,
       ProfileRefused, deleteUnreferencedPostImageKeys, createCustomerProfile, updateCustomerProfile,
       saveMoverProfile, ProfileNotSaved, ProfileSavedUnheard, CommitProfile, database, Attach,
       reindexMoverProfileEmbedding, CatchSave
  <1> QED
    BY <1>2, <1>3, <1>4, <1>5 DEF TypeOK, HandlersTyped

LEMMA JobTypes ==
    ASSUME TypeOK, Night \/ JobFails
    PROVE  TypeOK'
  <1>1. /\ UNCHANGED <<prefix, database, pc, request, late>>
        /\ object' \in [Keys -> {"none", "fresh", "old", "gone"}]
    <2>1. UNCHANGED <<prefix, database, pc, request, late>>
      BY DEF Night, JobFails, cleanupOrphanS3Objects, listObjectsByPrefix, NightEnds,
         findReferencedKeys, deleteS3KeysSafely
    <2>2. object' = object \/ \E keys \in SUBSET Keys : Delete(keys)
      BY DEF Night, JobFails, cleanupOrphanS3Objects, listObjectsByPrefix, NightEnds,
         findReferencedKeys, deleteS3KeysSafely
    <2> QED
      BY <2>1, <2>2 DEF TypeOK, Delete
  <1>2. job' \in [pc : {"off", "list", "refs", "recheck", "delete"}, listed : SUBSET Keys,
                  doomed : SUBSET Keys, due : SUBSET Keys]
    <2> DEFINE type == [pc : {"off", "list", "refs", "recheck", "delete"}, listed : SUBSET Keys,
                        doomed : SUBSET Keys, due : SUBSET Keys]
    <2>0. \A l, d, e \in SUBSET Keys :
              /\ [job EXCEPT !.pc = "refs", !.listed = l, !.doomed = d] \in type
              /\ [job EXCEPT !.pc = "list", !.doomed = d, !.due = e] \in type
      BY DEF TypeOK
    <2>1. CASE JobFails \/ NightEnds
      BY <2>1 DEF TypeOK, JobFails, NightEnds, NoJob
    <2>2. CASE cleanupOrphanS3Objects
      BY <2>2 DEF TypeOK, cleanupOrphanS3Objects
    <2>3. CASE \E page \in SUBSET Keys : listObjectsByPrefix(page)
      <3>1. PICK page \in SUBSET Keys : listObjectsByPrefix(page)
        BY <2>3
      <3>2. job.listed \cup page \in SUBSET Keys /\ {k \in page : object[k] = "old"} \in SUBSET Keys
        BY DEF TypeOK
      <3>3. [job EXCEPT !.pc = "refs", !.listed = job.listed \cup page,
                        !.doomed = {k \in page : object[k] = "old"}] \in type
        BY <2>0, <3>2, Zenon
      <3> QED
        BY <3>1, <3>3 DEF listObjectsByPrefix
    <2>4. CASE findReferencedKeys
      BY <2>4 DEF TypeOK, findReferencedKeys
    <2>5. CASE \E keys \in SUBSET Keys : deleteS3KeysSafely(keys)
      <3>1. PICK keys \in SUBSET Keys : deleteS3KeysSafely(keys)
        BY <2>5
      <3>2. job.due \ (job.doomed \ keys) \in SUBSET Keys
        BY DEF TypeOK
      <3>3. [job EXCEPT !.pc = "list", !.doomed = {}, !.due = job.due \ (job.doomed \ keys)] \in type
        BY <2>0, <3>2, {} \in SUBSET Keys, Zenon
      <3> QED
        BY <3>1, <3>3 DEF deleteS3KeysSafely
    <2> QED
      BY <2>1, <2>2, <2>3, <2>4, <2>5 DEF Night
  <1> QED
    BY <1>1, <1>2 DEF TypeOK, database

LEMMA ObjectTypesKept ==
    ASSUME TypeOK, [Next]_vars
    PROVE  TypeOK'
  <1>1. ASSUME \/ \E k \in Keys : Upload(k) \/ Age(k)
               \/ \E p \in Posts : softDeletePost(p)
               \/ UNCHANGED vars
        PROVE  TypeOK'
    BY <1>1 DEF TypeOK, Upload, Age, softDeletePost, vars, database
  <1> QED
    BY <1>1, RequestTypes, ContinueTypes, JobTypes DEF Next
LEMMA PrefixKept ==
    ASSUME Inv, [Next]_vars
    PROVE  OnePrefix'
  <1> USE DEF Inv, TypeOK, OnePrefix
  <1>1. ASSUME NEW h \in Handlers, Request(h) PROVE OnePrefix'
    <2>1. UNCHANGED <<prefix, images, attached, profileImage, job>>
      BY <1>1 DEF Request, createPost, updatePost, sendImageMessage, registerCustomerProfile,
         readMover, BeginProfile, database
    <2>2. PICK keys \in SUBSET Uploaded :
            \/ createPost(h, keys)
            \/ \E p \in Posts : updatePost(h, p, keys)
            \/ sendImageMessage(h, keys)
            \/ BeginProfile(h, keys)
      BY <1>1 DEF Request, registerCustomerProfile, readMover
    <2>3. /\ \A g \in Handlers : g # h => pc'[g] = pc[g]
          /\ \/ prefix = "posts" /\ pc'[h] = "valid"
             \/ prefix = "chat-attachments" /\ pc'[h] = "send"
             \/ prefix = "profile-images" /\ pc'[h] = "profile"
      BY <2>2 DEF createPost, updatePost, sendImageMessage, BeginProfile, Begin, Goto
    <2>4. prefix # "profile-images" => \A g \in Handlers : request'[g].for \in Posts \cup {None}
      <3>1. ASSUME createPost(h, keys) \/ sendImageMessage(h, keys)
            PROVE  \A g \in Handlers : request'[g].for = request[g].for
        <4>1. request' = [request EXCEPT ![h].keys = keys]
          BY <3>1 DEF createPost, sendImageMessage
        <4> QED
          BY <4>1
      <3>2. ASSUME NEW p \in Posts, updatePost(h, p, keys)
            PROVE  \A g \in Handlers : (g = h /\ request'[g].for = p) \/ request'[g] = request[g]
        BY <3>2 DEF updatePost
      <3>3. BeginProfile(h, keys) => prefix = "profile-images"
        BY DEF BeginProfile
      <3>4. CASE createPost(h, keys) \/ sendImageMessage(h, keys)
        BY <3>1, <3>4
      <3>5. ASSUME NEW p \in Posts, updatePost(h, p, keys)
            PROVE  prefix # "profile-images" => \A g \in Handlers : request'[g].for \in Posts \cup {None}
        <4>1. \A g \in Handlers : (g = h /\ request'[g].for = p) \/ request'[g] = request[g]
          BY <3>2, <3>5
        <4> QED
          BY <4>1
      <3> QED
        BY <2>2, <3>3, <3>4, <3>5
    <2> QED
      BY <2>1, <2>3, <2>4
  <1>2. ASSUME NEW h \in Handlers,
               \/ assertValidPostImageKeys(h) \/ assertImageKeysNotReferenced(h)
               \/ WriteFails(h) \/ LookFails(h) \/ deleteUnreferencedPostImageKeys(h)
        PROVE  OnePrefix'
    BY <1>2 DEF assertValidPostImageKeys, assertImageKeysNotReferenced, WriteFails, LookFails,
       deleteUnreferencedPostImageKeys, Answer, Catch, Goto, database, NoRequest
  <1>3. ASSUME NEW h \in Handlers, (\E p \in Posts : insertPost(h, p)) \/ replacePostImages(h)
        PROVE  OnePrefix'
    BY <1>3 DEF insertPost, replacePostImages, Answer, Catch, Goto, NoRequest
  <1>4. ASSUME NEW h \in Handlers, deletePostImageKeysSafely(h) \/ createImageMessage(h) \/ ProfileRefused(h)
        PROVE  OnePrefix'
    <2>1. CASE deletePostImageKeysSafely(h) /\ ~Answer(h)
      <3>1. /\ UNCHANGED <<prefix, images, attached, profileImage, job>>
            /\ pc' = [pc EXCEPT ![h] = "reindex"] /\ prefix = "profile-images"
            /\ \A g \in Handlers : request'[g].for = request[g].for
        BY <2>1 DEF deletePostImageKeysSafely, Reindex, Goto, database
      <3> QED
        BY <3>1
    <2>2. CASE Answer(h)
      BY <1>4, <2>2 DEF deletePostImageKeysSafely, createImageMessage, ProfileRefused, Answer, Goto,
         database, NoRequest
    <2> QED
      BY <1>4, <2>1, <2>2 DEF createImageMessage, ProfileRefused
  <1>5. ASSUME NEW h \in Handlers,
               \/ createCustomerProfile(h) \/ updateCustomerProfile(h) \/ saveMoverProfile(h)
               \/ ProfileNotSaved(h) \/ ProfileSavedUnheard(h) \/ reindexMoverProfileEmbedding(h)
        PROVE  OnePrefix'
    <2>1. prefix = "profile-images" /\ UNCHANGED <<prefix, images, attached, job>>
      BY <1>5 DEF createCustomerProfile, updateCustomerProfile, saveMoverProfile, ProfileNotSaved,
         ProfileSavedUnheard, reindexMoverProfileEmbedding, CommitProfile, database
    <2>2. /\ \A g \in Handlers : g # h => pc'[g] = pc[g]
          /\ pc'[h] \in {"idle", "delete", "reindex"}
      <3>1. CASE createCustomerProfile(h) \/ updateCustomerProfile(h)
        BY <3>1, DiscardFrame DEF createCustomerProfile, updateCustomerProfile
      <3> QED
        BY <1>5, <3>1, CatchFrame, MoverFrame, ReindexFrame DEF ProfileNotSaved, ProfileSavedUnheard
    <2> QED
      BY <2>1, <2>2
  <1>6. CASE Night \/ JobFails
    <2>1. UNCHANGED <<prefix, database, pc, request>>
      BY <1>6 DEF Night, JobFails, cleanupOrphanS3Objects, listObjectsByPrefix, NightEnds,
         findReferencedKeys, deleteS3KeysSafely
    <2>2. job.pc = "off" => prefix \in CleanedPrefixes
      BY <1>6 DEF Night, JobFails, cleanupOrphanS3Objects, listObjectsByPrefix, NightEnds, Page,
         findReferencedKeys, deleteS3KeysSafely
    <2> QED
      BY <2>1, <2>2 DEF database
  <1>7. ASSUME \/ \E k \in Keys : Upload(k) \/ Age(k)
               \/ \E p \in Posts : softDeletePost(p)
               \/ UNCHANGED vars
        PROVE  OnePrefix'
    BY <1>7 DEF Upload, Age, softDeletePost, vars, database
  <1> QED
    BY <1>1, <1>2, <1>3, <1>4, <1>5, <1>6, <1>7 DEF Next, Continue

-----------------------------------------------------------------------------
(* The night's run. *)

\* Objects only get older or go.
LEMMA Ageing ==
    ASSUME TypeOK, [Next]_vars, NEW k \in Keys, object[k] \in {"old", "gone"}
    PROVE  object'[k] \in {"old", "gone"} /\ (object[k] = "gone" => object'[k] = "gone")
  <1>1. CASE object' = object
    BY <1>1
  <1>2. CASE \E keys \in SUBSET Keys : Delete(keys)
    BY <1>2 DEF Delete, Stored
  <1>3. CASE \E l \in Keys : Upload(l) \/ Age(l)
    BY <1>3 DEF TypeOK, Upload, Age
  <1>4. ASSUME NEW h \in Handlers, Continue(h) PROVE object' = object \/ \E keys \in SUBSET Keys : Delete(keys)
    <2>1. CASE deletePostImageKeysSafely(h)
      BY <2>1 DEF TypeOK, deletePostImageKeysSafely
    <2> QED
      BY <1>4, <2>1 DEF Continue, assertValidPostImageKeys, assertImageKeysNotReferenced, insertPost,
       replacePostImages, WriteFails, LookFails, createImageMessage,
       ProfileRefused, deleteUnreferencedPostImageKeys, createCustomerProfile, updateCustomerProfile,
       saveMoverProfile, ProfileNotSaved, ProfileSavedUnheard, reindexMoverProfileEmbedding, CommitProfile
  <1>5. CASE Night \/ JobFails
    BY <1>5, <1>1, <1>2 DEF Night, JobFails, cleanupOrphanS3Objects, listObjectsByPrefix, NightEnds,
         findReferencedKeys, deleteS3KeysSafely
  <1>6. ASSUME NEW h \in Handlers, Request(h) PROVE object' = object
    BY <1>6 DEF Request, createPost, updatePost, sendImageMessage, registerCustomerProfile,
       readMover, BeginProfile
  <1> QED
    BY <1>1, <1>2, <1>3, <1>4, <1>5, <1>6 DEF Next, softDeletePost, vars

LEMMA NightSteps ==
    ASSUME Inv, Night \/ JobFails, [Next]_vars
    PROVE  NightOwes'
  <1> USE DEF Inv, TypeOK, NightOwes, InHand
  <1>1. CASE JobFails
    BY <1>1 DEF JobFails, NoJob
  <1>2. CASE cleanupOrphanS3Objects
    BY <1>2 DEF cleanupOrphanS3Objects, NoJob
  <1>3. ASSUME NEW page \in SUBSET Keys, listObjectsByPrefix(page) PROVE NightOwes'
    <2>1. /\ job' = [job EXCEPT !.pc = "refs", !.listed = job.listed \cup page,
                                !.doomed = {k \in page : object[k] = "old"}]
          /\ job.pc = "list" /\ object' = object
      BY <1>3 DEF listObjectsByPrefix, Page
    <2>2. /\ job'.pc = "refs" /\ job'.listed = job.listed \cup page
          /\ job'.doomed = {k \in page : object[k] = "old"} /\ job'.due = job.due
      BY <2>1
    <2> QED
      BY <2>1, <2>2 DEF Stored
  <1>4. CASE NightEnds
    BY <1>4 DEF NightEnds, NoJob, Stored
  <1>5. CASE findReferencedKeys
    <2>1. /\ job.pc \in {"refs", "recheck"} /\ object' = object
          /\ job'.doomed = job.doomed \ Referenced /\ job'.listed = job.listed
          /\ job'.due = job.due \ (job.doomed \cap Referenced)
          /\ job'.pc \in {"list", "recheck", "delete"} /\ (job'.pc = "list" => job'.doomed = {})
      BY <1>5 DEF findReferencedKeys
    <2> QED
      BY <2>1 DEF Stored
  <1>6. ASSUME NEW keys \in SUBSET Keys, deleteS3KeysSafely(keys) PROVE NightOwes'
    <2>1. /\ job.pc = "delete" /\ Delete(keys)
          /\ job'.doomed = {} /\ job'.listed = job.listed /\ job'.pc = "list"
          /\ job'.due = job.due \ (job.doomed \ keys)
      BY <1>6 DEF deleteS3KeysSafely
    <2> QED
      BY <2>1 DEF Delete, Stored
  <1> QED
    BY <1>1, <1>2, <1>3, <1>4, <1>5, <1>6 DEF Night

LEMMA NightKept ==
    ASSUME Inv, [Next]_vars
    PROVE  NightOwes'
  <1>1. CASE job' = job
    BY <1>1, Ageing DEF Inv, TypeOK, NightOwes, InHand, Stored
  <1>2. ASSUME NEW h \in Handlers, Request(h) \/ Continue(h) PROVE job' = job
    BY <1>2 DEF Continue, assertValidPostImageKeys, assertImageKeysNotReferenced, insertPost,
       replacePostImages, WriteFails, LookFails, createImageMessage, deletePostImageKeysSafely,
       ProfileRefused, deleteUnreferencedPostImageKeys, createCustomerProfile, updateCustomerProfile,
       saveMoverProfile, ProfileNotSaved, ProfileSavedUnheard, reindexMoverProfileEmbedding, CommitProfile,
       Request, createPost, updatePost, sendImageMessage, registerCustomerProfile,
       readMover, BeginProfile
  <1> QED
    BY <1>1, <1>2, NightSteps DEF Next, Upload, Age, softDeletePost, vars

LEMMA ObjectsInit == Init => Inv
  BY DEF Init, Inv, TypeOK, OnePrefix, ReferencedStay, InRows, CondemnedUnused, Condemned,
     NightOwes, InHand, NoJob, NoRequest, CleanedPrefixes

\* The inductive invariant of uploads, rows and objects holds.
THEOREM ObjectsInvHolds == DailySpec => []Inv
  <1>1. Inv /\ [Next]_vars => Inv'
    BY ObjectTypesKept, PrefixKept, RowsKept, NightKept DEF Inv
  <1> QED
    BY <1>1, ObjectsInit, DailyRefines, PTL DEF Spec

\* However requests, failures and the night's job interleave, an image some row
\* refers to keeps its object, unless its row was written after the last look
\* somebody took before deleting it, or a profile save that named it failed while
\* it was saved, a mover's whose embedding failed after the commit included.
THEOREM ReferencedObjectsStay == DailySpec => []ReferencedStay
  <1>1. Inv => ReferencedStay
    BY DEF Inv
  <1> QED
    BY <1>1, ObjectsInvHolds, PTL

\* A night's run that no error ended leaves nothing it had to delete.
THEOREM NightsClean == DailySpec => []NightCleans
  <1>1. Inv => NightCleans
    BY DEF Inv, NightOwes, NightCleans, NoJob
  <1> QED
    BY <1>1, ObjectsInvHolds, PTL
=============================================================================
