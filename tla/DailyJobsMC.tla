----------------------------- MODULE DailyJobsMC -----------------------------
(* Small instances of DailyJobs for TLC.  Objects: two objects, two posts, *)
(* two requests.  Notices: two moves, two connections; a day of reminders  *)
(* with one stop of the server, or a later day with three calls of users   *)
(* and one stop.                                                           *)
EXTENDS DailyJobs, TLC

MCCallsOn(day) == IF day = "past" THEN 3 ELSE 0

MCSymmetry ==
    Permutations(Keys) \cup Permutations(Posts) \cup Permutations(Handlers)
        \cup Permutations(Moves)
=============================================================================
