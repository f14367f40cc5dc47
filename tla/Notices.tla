------------------------------- MODULE Notices -------------------------------
(* Notices told one at a time and what causes them: the reminders of the   *)
(* day before a move (move-day-reminder.job.ts), reviews                   *)
(* (review.service.ts, admin-review.service.ts) and other users' doings;   *)
(* and the two ways a user gets them, the list and the event stream        *)
(* (notification.service.ts, notification-sse.service.ts).                 *)
(*                                                                         *)
(* Every notice takes four steps that others may come between: the row is  *)
(* inserted, it is pushed to the receiver's open streams, the unread rows  *)
(* are counted, the count is pushed.  One server is modelled: its streams  *)
(* and its running calls are lost when it stops.  All moves are of one     *)
(* customer with one mover on one day, and a behaviour is either the day   *)
(* before it, from before 09:00 over 09:00 to the rest of that day, or a   *)
(* day after it ("past"), when reviews are written.  CallsOn(clock)       *)
(* bounds users' calls, MaxStops the server's stops; rows are listed   *)
(* in the order of their ids.                                              *)
EXTENDS Integers, FiniteSets, Sequences

CONSTANTS Moves, Handlers, Conns, CallsOn(_), MaxStops, ListLimit, None

Jobs == {"boot", "cron"}
Callers == Handlers \cup Jobs
Users == {"customer", "mover"}
NotificationType == {"CUSTOMER_MOVE_DAY_REMINDER", "MOVER_MOVE_DAY_REMINDER", "REVIEW_WRITTEN",
                     "COMMUNITY_COMMENT", "COMMUNITY_REPLY"}

(* what the constants stand for has to be told apart *)
ConstantsApart ==
    /\ Handlers \cap Jobs = {}
    /\ None \notin Users \cup NotificationType
    /\ ListLimit \in Nat

VARIABLES
    clock,      \* "early", "nine", "late" of the day before; "past"
    server,     \* "up" or "down"
    cronRan,    \* the 09:00 run has been started
    confirmed,  \* moves with a confirmed quote
    reviews,    \* sequence of [move, rating, live]
    notices,    \* sequence of [to, type, about, read]
    todo,       \* job -> moves of its run still to remind of
    call,       \* caller -> its step and what it works on
    streams,    \* the server's map: user -> open connections
    client,     \* connection -> what the client behind it knows
    due,        \* history: the moves confirmed when the clock reached 09:00
    overlapped, \* history: a reminder run began while another one ran
    failed,     \* history: moves whose reminder met an error
    asked,      \* users' calls so far
    stops,      \* stops of the server so far
    lost,       \* history: reviews whose notice an error or a stop cut off
    counts      \* history: the counts a user's clients may be left with: those
                \* that were true since a write found nothing of the user's under
                \* way, and those still shown when a count failed
vars == <<clock, server, cronRan, confirmed, reviews, notices,
          todo, call, streams, client, due, overlapped, failed,
          asked, stops, lost, counts>>

(* groups of variables an action leaves alone *)
day == <<clock, cronRan, due, stops>>
sockets == <<streams, client>>
runs == <<todo, overlapped, failed>>

(* the step a caller is at, of which notice; n is a row's index or a count *)
Turn(at, to, type, about) == [at |-> at, to |-> to, type |-> type, about |-> about, n |-> 0]
Idle == Turn("idle", None, None, None)
NoClient == [user |-> None, loaded |-> FALSE, knows |-> {}, count |-> None]

Sending(u) == {c \in Callers : call[c].to = u /\ call[c].at \in {"push", "count", "tell"}}
Running == {j \in Jobs : call[j].at # "idle"}

Init ==
    /\ \/ clock = "early" /\ confirmed = {}
       \/ clock = "past" /\ confirmed \in SUBSET Moves
    /\ server = "up" /\ cronRan = FALSE
    /\ reviews = <<>> /\ notices = <<>>
    /\ todo = [j \in Jobs |-> {}]
    /\ call = [c \in Callers |-> Idle]
    /\ streams = [u \in Users |-> {}]
    /\ client = [c \in Conns |-> NoClient]
    /\ due = {} /\ overlapped = FALSE /\ failed = {} /\ lost = {}
    /\ counts = [u \in Users |-> {}]
    /\ asked = 0 /\ stops = 0

-----------------------------------------------------------------------------
(* Sending one notice *)

Unread(u) == Cardinality({i \in DOMAIN notices : notices[i].to = u /\ ~notices[i].read})

(* a write of u's rows: its count is the only right one unless others are  *)
(* at it, who may push theirs later                                        *)
Overlap(u) ==
    counts' = [counts EXCEPT ![u] = (IF Sending(u) = {} THEN {} ELSE @) \cup {Unread(u)'}]

createNotification(c) ==
    LET k == call[c] IN
    /\ k.at = "write"
    /\ notices' = Append(notices, [to |-> k.to, type |-> k.type, about |-> k.about, read |-> FALSE])
    /\ call' = [call EXCEPT ![c].at = "push", ![c].n = Len(notices')]
    /\ Overlap(k.to)
    /\ UNCHANGED <<day, reviews, sockets, runs, server, confirmed, lost, asked>>

publishNotification(c) ==
    LET k == call[c] IN
    /\ k.at = "push"
    /\ client' = [s \in Conns |-> IF s \in streams[k.to]
                                  THEN [client[s] EXCEPT !.knows = @ \cup {k.n}]
                                  ELSE client[s]]
    /\ call' = [call EXCEPT ![c].at = "count"]
    /\ UNCHANGED <<day, reviews, runs, server, confirmed, notices, streams, lost, counts, asked>>

countUnreadByReceiver(c) ==
    /\ call[c].at = "count"
    /\ call' = [call EXCEPT ![c].at = "tell", ![c].n = Unread(call[c].to)]
    /\ UNCHANGED <<day, reviews, sockets, runs, server, confirmed, notices, lost, counts, asked>>

(* what a caller does when its notice is done: a run turns from the        *)
(* customer to the mover of the same move, then to the next move           *)
ReminderType(u) == IF u = "customer" THEN "CUSTOMER_MOVE_DAY_REMINDER" ELSE "MOVER_MOVE_DAY_REMINDER"
Reminder(m, u) == Turn("look", u, ReminderType(u), m)
NextMove == Turn("next", None, None, None)
After(c) ==
    IF c \notin Jobs THEN Idle
    ELSE IF call[c].to = "customer" THEN Reminder(call[c].about, "mover") ELSE NextMove

publishUnreadCount(c) ==
    LET k == call[c] IN
    /\ k.at = "tell"
    /\ client' = [s \in Conns |-> IF s \in streams[k.to]
                                  THEN [client[s] EXCEPT !.count = k.n]
                                  ELSE client[s]]
    /\ call' = [call EXCEPT ![c] = After(c)]
    /\ UNCHANGED <<day, reviews, runs, server, confirmed, notices, streams, lost, counts, asked>>

(* a statement fails: a run goes on with its next move, a call ends        *)
Fail(c) ==
    LET k == call[c] IN
    /\ k.at \in {"targets", "look", "context", "write", "count"}
    /\ call' = [call EXCEPT ![c] = IF c \in Jobs /\ k.at # "targets" THEN NextMove ELSE Idle]
    /\ failed' = IF c \notin Jobs THEN failed
                 ELSE IF k.at = "targets" THEN Moves ELSE failed \cup {k.about}
    /\ lost' = IF k.type = "REVIEW_WRITTEN" /\ k.at \in {"context", "write"}
               THEN lost \cup {k.about} ELSE lost
    /\ counts' = IF k.at # "count" THEN counts
                 ELSE [counts EXCEPT ![k.to] =
                          @ \cup ({client[s].count : s \in streams[k.to]} \ {None})]
    /\ UNCHANGED <<day, reviews, sockets, server, confirmed, notices, todo, overlapped, asked>>

-----------------------------------------------------------------------------
(* The reminder run *)

startRun(j) ==
    /\ call' = [call EXCEPT ![j] = Turn("targets", None, None, None)]
    /\ overlapped' = (overlapped \/ Running # {})

findConfirmedMovesOnDate(j) ==
    /\ call[j].at = "targets"
    /\ todo' = [todo EXCEPT ![j] = confirmed]
    /\ call' = [call EXCEPT ![j] = NextMove]
    /\ UNCHANGED <<day, reviews, sockets, server, confirmed, notices, overlapped, failed, lost, counts, asked>>

runMoveDayReminderJob(j) ==
    /\ call[j].at = "next"
    /\ \/ /\ todo[j] = {}
          /\ call' = [call EXCEPT ![j] = Idle]
          /\ UNCHANGED todo
       \/ \E m \in todo[j] :
            /\ todo' = [todo EXCEPT ![j] = @ \ {m}]
            /\ call' = [call EXCEPT ![j] = Reminder(m, "customer")]
    /\ UNCHANGED <<day, reviews, sockets, server, confirmed, notices, overlapped, failed, lost, counts, asked>>

(* a mutant: the customer's type is looked up for the mover as well        *)
existsOfCustomerType(k) ==
    \E i \in DOMAIN notices :
        /\ notices[i].to = k.to /\ notices[i].about = k.about
        /\ notices[i].type = "CUSTOMER_MOVE_DAY_REMINDER"

existsByReceiverTypeAndEstimate(k) ==
    \E i \in DOMAIN notices :
        notices[i].to = k.to /\ notices[i].type = k.type /\ notices[i].about = k.about

createMoveDayReminderIfAbsent(j) ==
    /\ call[j].at = "look"
    /\ call' = [call EXCEPT ![j] =
                   IF existsByReceiverTypeAndEstimate(@) THEN After(j) ELSE [@ EXCEPT !.at = "write"]]
    /\ UNCHANGED <<day, reviews, sockets, runs, server, confirmed, notices, lost, counts, asked>>

-----------------------------------------------------------------------------
(* The clock and the server *)

Cron ==
    /\ server = "up" /\ clock = "nine" /\ ~cronRan
    /\ cronRan' = TRUE
    /\ startRun("cron")
    /\ UNCHANGED <<reviews, sockets, clock, server, confirmed, notices, todo, due, failed, lost, counts, asked, stops>>

(* a mutant: the start catches up from 10:00 only                          *)
isAfterNineKst == clock = "late"

isAtOrAfterNineKst == clock \in {"nine", "late"}

Boot ==
    /\ server = "down"
    /\ server' = "up"
    /\ IF isAtOrAfterNineKst THEN startRun("boot") ELSE UNCHANGED <<call, overlapped>>
    /\ UNCHANGED <<day, reviews, sockets, confirmed, notices, todo, failed, lost, counts, asked>>

Stop ==
    /\ server = "up" /\ stops < MaxStops /\ stops' = stops + 1
    /\ server' = "down"
    /\ lost' = lost \cup {call[h].about : h \in {c \in Handlers :
                    call[c].type = "REVIEW_WRITTEN" /\ call[c].at \in {"context", "write"}}}
    /\ call' = [c \in Callers |-> Idle]
    /\ todo' = [j \in Jobs |-> {}]
    /\ streams' = [u \in Users |-> {}]
    /\ client' = [c \in Conns |-> NoClient]
    /\ UNCHANGED <<reviews, clock, cronRan, due, confirmed, notices, overlapped, failed, counts, asked>>

Tick ==
    /\ \/ clock = "early" /\ clock' = "nine" /\ due' = confirmed
       \/ clock = "nine" /\ clock' = "late" /\ (server = "up" => cronRan) /\ UNCHANGED due
    /\ UNCHANGED <<reviews, sockets, runs, server, cronRan, confirmed, notices, call, lost, counts, asked, stops>>

(* the customer confirms a quote for a move (quote.service.ts)             *)
Confirm(m) ==
    /\ clock # "past" /\ m \notin confirmed
    /\ confirmed' = confirmed \cup {m}
    /\ UNCHANGED <<day, reviews, sockets, runs, server, notices, call, lost, counts, asked>>

-----------------------------------------------------------------------------
(* Reviews *)

LiveReviews(m) == {r \in DOMAIN reviews : reviews[r].move = m /\ reviews[r].live}

(* a user's call begins *)
Called == asked < CallsOn(clock) /\ asked' = asked + 1 /\ server = "up"
Begins(h) == Called /\ call[h].at = "idle"

(* the checks before the insert: writable, and no live review              *)
assertReviewWritable(m) == clock = "past" /\ m \in confirmed

createReview(h, m) ==
    /\ Begins(h)
    /\ assertReviewWritable(m)
    /\ LiveReviews(m) = {}
    /\ call' = [call EXCEPT ![h] = Turn("insert", None, None, m)]
    /\ UNCHANGED <<day, reviews, sockets, runs, server, confirmed, notices, lost, counts>>

(* a mutant: no index of live reviews                                      *)
insertWithoutIndex(h) ==
    /\ call[h].at = "insert"
    /\ reviews' = Append(reviews, [move |-> call[h].about, rating |-> 5, live |-> TRUE])
    /\ call' = [call EXCEPT ![h] = Turn("context", None, "REVIEW_WRITTEN", Len(reviews'))]
    /\ UNCHANGED <<day, sockets, runs, server, confirmed, notices, lost, counts, asked>>

(* the insert and the commit, under the index of live reviews; then the    *)
(* caller turns to the notice                                              *)
insertReview(h) ==
    LET m == call[h].about IN
    /\ call[h].at = "insert"
    /\ IF LiveReviews(m) # {}
       THEN call' = [call EXCEPT ![h] = Idle] /\ UNCHANGED reviews
       ELSE /\ reviews' = Append(reviews, [move |-> m, rating |-> 5, live |-> TRUE])
            /\ call' = [call EXCEPT ![h] = Turn("context", None, "REVIEW_WRITTEN", Len(reviews'))]
    /\ UNCHANGED <<day, sockets, runs, server, confirmed, notices, lost, counts, asked>>

findReviewWrittenNotificationContext(h) ==
    /\ call[h].at = "context"
    /\ call' = [call EXCEPT ![h] =
                   IF reviews[@.about].live THEN Turn("write", "mover", "REVIEW_WRITTEN", @.about) ELSE Idle]
    /\ UNCHANGED <<day, reviews, sockets, runs, server, confirmed, notices, lost, counts, asked>>

(* the condition of every later write of a review                          *)
Alive(r) == reviews[r].live

updateReview(r) ==
    /\ Called /\ Alive(r)
    /\ reviews' = [reviews EXCEPT ![r].rating = 6 - @]
    /\ UNCHANGED <<day, sockets, runs, server, confirmed, notices, call, lost, counts>>

deleteReview(r) ==
    /\ Called /\ Alive(r)
    /\ reviews' = [reviews EXCEPT ![r].live = FALSE]
    /\ UNCHANGED <<day, sockets, runs, server, confirmed, notices, call, lost, counts>>

(* its history row is written by the same transaction *)
deleteAdminReview(r) ==
    /\ Called /\ Alive(r)
    /\ reviews' = [reviews EXCEPT ![r].live = FALSE]
    /\ UNCHANGED <<day, sockets, runs, server, confirmed, notices, call, lost, counts>>

-----------------------------------------------------------------------------
(* Other users' doings, and the reading of notices *)

(* a comment goes to the post's author, a reply to the author of the       *)
(* comment above; to nobody else, and to nobody for one's own              *)
CommunityReceiver(author, postAuthor, parentAuthor) ==
    LET receiver == IF parentAuthor = None THEN postAuthor ELSE parentAuthor
    IN  IF receiver = author THEN None ELSE receiver

notifyCommunityCommentOrReply(h) ==
    /\ Begins(h)
    /\ \E author, postAuthor \in Users, parentAuthor \in Users \cup {None} :
         LET receiver == CommunityReceiver(author, postAuthor, parentAuthor) IN
         /\ receiver # None
         /\ call' = [call EXCEPT ![h] = Turn("write", receiver,
                        IF parentAuthor = None THEN "COMMUNITY_COMMENT" ELSE "COMMUNITY_REPLY", None)]
    /\ UNCHANGED <<day, reviews, sockets, runs, server, confirmed, notices, lost, counts>>

(* a mutant: the unread rows are counted before the row is updated         *)
markAfterCount(h, i) ==
    /\ Begins(h)
    /\ notices' = [notices EXCEPT ![i].read = TRUE]
    /\ call' = [call EXCEPT ![h] = [Idle EXCEPT !.at = "tell", !.to = notices[i].to,
                                                !.n = Unread(notices[i].to)]]
    /\ Overlap(notices[i].to)
    /\ UNCHANGED <<day, reviews, sockets, runs, server, confirmed, lost>>

markNotificationAsRead(h, i) ==
    /\ Begins(h)
    /\ notices' = [notices EXCEPT ![i].read = TRUE]
    /\ call' = [call EXCEPT ![h] = Turn("count", notices[i].to, None, None)]
    /\ Overlap(notices[i].to)
    /\ UNCHANGED <<day, reviews, sockets, runs, server, confirmed, lost>>

subscribe(s, u) ==
    /\ Called /\ client[s].user = None
    /\ streams' = [streams EXCEPT ![u] = @ \cup {s}]
    /\ client' = [client EXCEPT ![s] = [NoClient EXCEPT !.user = u]]
    /\ UNCHANGED <<day, reviews, runs, server, confirmed, notices, call, lost, counts>>

(* a mutant: one closed connection ends them all                           *)
CleanupAll(open, s) == {}

(* what is left of a user's connections when one of them closes            *)
Cleanup(open, s) == open \ {s}

close(s) ==
    /\ client[s].user # None
    /\ streams' = [streams EXCEPT ![client[s].user] = Cleanup(@, s)]
    /\ client' = [client EXCEPT ![s] = NoClient]
    /\ UNCHANGED <<day, reviews, runs, server, confirmed, notices, call, lost, counts, asked>>

findLatestByReceiver(u) ==
    {i \in DOMAIN notices :
        /\ notices[i].to = u
        /\ Cardinality({k \in DOMAIN notices : k > i /\ notices[k].to = u}) < ListLimit}

getNotificationsForReceiver(s) ==
    /\ client[s].user # None /\ ~client[s].loaded
    /\ client' = [client EXCEPT ![s].loaded = TRUE,
                                ![s].knows = @ \cup findLatestByReceiver(client[s].user)]
    /\ UNCHANGED <<day, reviews, runs, server, confirmed, notices, call, streams, lost, counts, asked>>

-----------------------------------------------------------------------------
Next ==
    \/ \E c \in Callers :
          \/ createNotification(c) \/ publishNotification(c)
          \/ countUnreadByReceiver(c) \/ publishUnreadCount(c) \/ Fail(c)
    \/ \E j \in Jobs :
          \/ findConfirmedMovesOnDate(j) \/ runMoveDayReminderJob(j)
          \/ createMoveDayReminderIfAbsent(j)
    \/ Cron \/ Boot \/ Stop \/ Tick
    \/ \E m \in Moves : Confirm(m)
    \/ \E h \in Handlers :
          \/ \E m \in Moves : createReview(h, m)
          \/ insertReview(h) \/ findReviewWrittenNotificationContext(h)
          \/ notifyCommunityCommentOrReply(h)
          \/ \E i \in DOMAIN notices : markNotificationAsRead(h, i)
    \/ \E r \in DOMAIN reviews : updateReview(r) \/ deleteReview(r) \/ deleteAdminReview(r)
    \/ \E s \in Conns :
          \/ \E u \in Users : subscribe(s, u)
          \/ close(s) \/ getNotificationsForReceiver(s)

Spec == Init /\ [][Next]_vars

-----------------------------------------------------------------------------
(* Every variable keeps its type.                                          *)
Steps == {"idle", "targets", "next", "look", "insert", "context", "write", "push", "count", "tell"}
Subjects == Moves \cup Nat \cup {None}
Calls == [at : Steps, to : Users \cup {None}, type : NotificationType \cup {None},
          about : Subjects, n : Nat]
TypeOK ==
    /\ clock \in {"early", "nine", "late", "past"} /\ server \in {"up", "down"}
    /\ cronRan \in BOOLEAN /\ overlapped \in BOOLEAN
    /\ confirmed \subseteq Moves /\ due \subseteq Moves /\ failed \subseteq Moves
    /\ reviews \in Seq([move : Moves, rating : 1..5, live : BOOLEAN])
    /\ notices \in Seq([to : Users, type : NotificationType, about : Subjects, read : BOOLEAN])
    /\ todo \in [Jobs -> SUBSET Moves] /\ streams \in [Users -> SUBSET Conns]
    /\ counts \in [Users -> SUBSET Nat]
    /\ call \in [Callers -> Calls]
    /\ client \in [Conns -> [user : Users \cup {None}, loaded : BOOLEAN, knows : SUBSET Nat,
                            count : Nat \cup {None}]]

Reminders == {i \in DOMAIN notices :
    notices[i].type \in {"CUSTOMER_MOVE_DAY_REMINDER", "MOVER_MOVE_DAY_REMINDER"}}
About(type, x) == {i \in DOMAIN notices : notices[i].type = type /\ notices[i].about = x}

(* Nobody is reminded twice of one move, however often the server stops    *)
(* and starts that day, but by the run of the start and the 09:00 run when *)
(* both were at work at once, and then no more than twice                  *)
(* (createMoveDayReminderIfAbsent looks, then inserts, under no lock and   *)
(* no unique index).                                                       *)
SameReminder(i, k) == notices[i].to = notices[k].to /\ notices[i].about = notices[k].about
OnceAlone == overlapped \/ \A i, k \in Reminders : SameReminder(i, k) => i = k
AtMostTwice ==
    \A i, k, l \in Reminders :
        (SameReminder(i, k) /\ SameReminder(i, l)) => i = k \/ i = l \/ k = l
RemindersWithinRuns == OnceAlone /\ AtMostTwice

(* The comment on it (notification.service.ts:706) leaves out the runs: a  *)
(* reminder that exists is not written again.                              *)
RemindedOnce == \A i, k \in Reminders : SameReminder(i, k) => i = k

(* When no run is left that day, the customer and the mover of every move  *)
(* confirmed before 09:00 are reminded, whatever stopped the 09:00 run and *)
(* whichever other move met an error (startMoveDayReminderCron's catch-up, *)
(* the try inside runMoveDayReminderJob's loop).                           *)
EveryMoveReminded ==
    clock = "late" /\ server = "up" /\ Running = {} =>
        \A m \in due \ failed :
            /\ About("CUSTOMER_MOVE_DAY_REMINDER", m) # {}
            /\ About("MOVER_MOVE_DAY_REMINDER", m) # {}

(* A client that opens the stream and then loads the list misses none of   *)
(* its latest notices: what the list came too early for is pushed, also    *)
(* when the user's other connections come and go.                          *)
NothingMissed ==
    \A s \in Conns : client[s].loaded =>
        findLatestByReceiver(client[s].user) \subseteq
            client[s].knows \cup {call[c].n : c \in {d \in Callers : call[d].at = "push"}}

(* When nothing of a user's is under way, the count its clients show was   *)
(* right at some time since the last write that found the user quiet: a    *)
(* write alone leaves the number of unread notices, and of several whose   *)
(* counts are pushed in another order, that of one of them, however early  *)
(* it was counted (README, Findings).  Only a count that fails leaves      *)
(* behind what was shown before it.                                        *)
CountSettles ==
    \A s \in Conns : LET u == client[s].user IN
        u # None /\ client[s].count # None /\ Sending(u) = {} =>
            client[s].count \in counts[u]

(* A move has one live review at most, however its writing, deleting and   *)
(* writing again interleave, and the mover is told once of every review    *)
(* that stays: the notice reads the review after its commit, so it is only *)
(* missing while the call is under way or when an error or a stop cut it   *)
(* off; no review is told twice.                                           *)
OneReviewToldOnce ==
    /\ \A m \in Moves : Cardinality(LiveReviews(m)) <= 1
    /\ \A r \in DOMAIN reviews :
          LET told == Cardinality(About("REVIEW_WRITTEN", r)) IN
          /\ told <= 1
          /\ reviews[r].live /\ told = 0 =>
                r \in lost \/ \E h \in Handlers :
                    call[h].type = "REVIEW_WRITTEN" /\ call[h].about = r

(* Why these five are inductive.  What the steps of a caller work on.      *)
Telling == {"push", "count", "tell"}
RunsRemind ==
    \A j \in Jobs :
        /\ call[j].at \notin {"insert", "context"}
        /\ call[j].at \in {"look", "write"} \cup Telling =>
              /\ call[j].to \in Users /\ call[j].about \in Moves
              /\ call[j].type = ReminderType(call[j].to)
CallsTell ==
    \A h \in Handlers :
        /\ call[h].at \in {"idle", "insert", "context", "write"} \cup Telling
        /\ call[h].at = "insert" => call[h].about \in Moves /\ call[h].type = None
        /\ call[h].at = "context" => call[h].type = "REVIEW_WRITTEN"
        /\ call[h].at = "write" => call[h].type # None
        /\ call[h].at \in {"write"} \cup Telling => call[h].to \in Users
        /\ call[h].type \in {None, "REVIEW_WRITTEN", "COMMUNITY_COMMENT", "COMMUNITY_REPLY"}
        /\ call[h].type = "REVIEW_WRITTEN" =>
              call[h].at \in {"context", "write"} \cup Telling /\ call[h].about \in DOMAIN reviews
CallersFit ==
    /\ RunsRemind /\ CallsTell
    /\ server = "down" => \A c \in Callers : call[c] = Idle
    /\ \A c \in Callers : call[c].at = "push" =>
          call[c].n \in DOMAIN notices /\ notices[call[c].n].to = call[c].to

(* A run that is alone knows whom it has not reminded yet.                 *)
RemindersApart ==
    /\ \A i \in Reminders : notices[i].type = ReminderType(notices[i].to)
    /\ ~overlapped =>
          /\ \A j, k \in Running : j = k
          /\ \A j \in Jobs : call[j].at = "write" => ~existsByReceiverTypeAndEstimate(call[j])

(* Of two runs that found nobody reminded, the second writes the second    *)
(* reminder, and then none is about to write a third.                      *)
Writing(i) ==
    {j \in Jobs : call[j].at = "write" /\ call[j].to = notices[i].to /\ call[j].about = notices[i].about}
RunsApart ==
    /\ \A i \in Reminders : \A j, k \in Writing(i) : j = k
    /\ \A i, k \in Reminders : SameReminder(i, k) => i = k \/ Writing(i) = {}

(* A run that began at 09:00 or later has every move before it or behind   *)
(* it, or at hand.                                                         *)
Told(m, u) == About(ReminderType(u), m) # {}
BothTold(m) == \A u \in Users : Told(m, u)
AtHand(j, m) ==
    /\ call[j].at \in {"look", "write"} \cup Telling /\ call[j].about = m
    /\ call[j].to = "mover" => Told(m, "customer")
    /\ call[j].at \in Telling => Told(m, call[j].to)
Covers(j) == \A m \in due \ failed : BothTold(m) \/ m \in todo[j] \/ AtHand(j, m)
RunsCover ==
    /\ due \subseteq confirmed
    /\ clock \in {"early", "past"} => Running = {} /\ ~cronRan
    /\ \A j \in Running : call[j].at = "targets" \/ Covers(j)
    /\ server = "up" /\ Running = {} /\ (clock = "late" \/ (clock = "nine" /\ cronRan)) =>
          \A m \in due \ failed : BothTold(m)

(* A review has one caller to tell of it, who told it once at most.        *)
TellsOf(h, r) == call[h].type = "REVIEW_WRITTEN" /\ call[h].about = r
ReviewsTold ==
    /\ \A r, q \in DOMAIN reviews :
          reviews[r].live /\ reviews[q].live /\ reviews[r].move = reviews[q].move => r = q
    /\ \A i \in DOMAIN notices :
          notices[i].type = "REVIEW_WRITTEN" => notices[i].about \in DOMAIN reviews
    /\ \A r \in DOMAIN reviews :
          /\ \A i, k \in About("REVIEW_WRITTEN", r) : i = k
          /\ \A h, g \in Handlers : TellsOf(h, r) /\ TellsOf(g, r) => h = g
          /\ \A h \in Handlers : TellsOf(h, r) =>
                (call[h].at \in Telling <=> About("REVIEW_WRITTEN", r) # {})
          /\ reviews[r].live /\ About("REVIEW_WRITTEN", r) = {} =>
                r \in lost \/ \E h \in Handlers : TellsOf(h, r)

(* A stream belongs to the client behind it.                               *)
StreamsFit ==
    \A s \in Conns :
        /\ \A u \in Users : s \in streams[u] <=> client[s].user = u
        /\ client[s].user = None => client[s] = NoClient

(* What is counted and what is shown in the end is one of those counts.    *)
CountsRight ==
    \A u \in Users :
        /\ Sending(u) # {} => Unread(u) \in counts[u]
        /\ \A c \in Sending(u) : call[c].at = "tell" => call[c].n \in counts[u]
        /\ Sending(u) = {} => \A s \in streams[u] : client[s].count \in counts[u] \cup {None}

(* The 09:00 run has no step before it is started. *)
CronStartsIdle == ~cronRan => call["cron"].at = "idle"

(* The inductive invariant.                                                *)
Inv == /\ TypeOK /\ CallersFit /\ CronStartsIdle /\ RemindersApart /\ OnceAlone /\ RunsApart /\ AtMostTwice
       /\ RunsCover
       /\ ReviewsTold /\ StreamsFit /\ NothingMissed /\ CountsRight
=============================================================================
