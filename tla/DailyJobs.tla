------------------------------ MODULE DailyJobs ------------------------------
(* The two daily jobs that look at rows, then act on what they saw: the    *)
(* night's cleanup of objects (ImageObjects) and the morning's reminders   *)
(* (Notices), each with the requests it runs beside.  They share nothing,  *)
(* so a behaviour is one or the other.                                     *)
EXTENDS ImageObjects

CONSTANTS Moves, Conns, CallsOn(_), MaxStops, ListLimit   \* those of Notices

VARIABLES system, clock, server, cronRan, confirmed, reviews, notices,
          todo, call, streams, client, due, overlapped, failed, asked, stops, lost, counts
noticeVars == <<clock, server, cronRan, confirmed, reviews, notices, todo, call,
                streams, client, due, overlapped, failed, asked, stops, lost, counts>>

N == INSTANCE Notices

(* What the constants of Notices stand for is told apart.                  *)
ASSUME NoticesConstants == N!ConstantsApart

DailyInit ==
    /\ Init /\ N!Init
    /\ \/ system = "objects" /\ clock = "early"
       \/ system = "notices" /\ prefix = "posts" /\ profile = "mover"

DailyNext ==
    \/ system = "objects" /\ Next /\ UNCHANGED <<system, noticeVars>>
    \/ system = "notices" /\ N!Next /\ UNCHANGED <<system, vars>>

DailySpec == DailyInit /\ [][DailyNext]_<<system, vars, noticeVars>>

-----------------------------------------------------------------------------
(* What Notices promises, in every behaviour of either system.              *)

\* Nobody is reminded twice of one move but by two runs at work together, and
\* then no more than twice (createMoveDayReminderIfAbsent).
RemindersWithinRuns == N!RemindersWithinRuns

\* Nobody is reminded twice of one move (the comment at notification.service.ts:706).
RemindedOnce == N!RemindedOnce

\* No move confirmed before 09:00 is forgotten, but for those an error cut off.
EveryMoveReminded == N!EveryMoveReminded

\* The list and the stream together miss none of a user's latest notices.
NothingMissed == N!NothingMissed

\* A client is left with a count of its user's unread notices that was right
\* since the user was last quiet.
CountSettles == N!CountSettles

\* A move has one live review, and its mover is told of it once.
OneReviewToldOnce == N!OneReviewToldOnce
=============================================================================
