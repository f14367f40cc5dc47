--------------------------- MODULE QuoteMatchingMC ---------------------------
(* A small instance of QuoteMatching for TLC.                               *)
EXTENDS QuoteMatching, TLC

VARIABLE crowd

\* Two calls beside one run of the nightly job, or two runs (cron's and the one
\* a boot starts) beside one call.
CrowdInit == Init /\ crowd \in {"calls", "runs"}
CrowdNext ==
    /\ Next
    /\ IF crowd = "calls"
       THEN \A i, j \in Jobs : i # j => "off" \in {jobPc'[i], jobPc'[j]}
       ELSE \A g, h \in Handlers : g # h => "idle" \in {pc'[g], pc'[h]}
    /\ UNCHANGED crowd
CrowdSpec == CrowdInit /\ [][CrowdNext]_<<vars, crowd>>

\* sent counts what was announced and nothing reads it: a run whose properties
\* do not speak of notifications leaves it out of the state.  (The last
\* component makes TLC compute sent, which it must before it stores a state.)
WithoutNotices == <<rows, handlers, now, jobs, reviewed, crowd, sent = sent>>
Symmetry == Permutations(Movers) \cup Permutations(Handlers) \cup Permutations(Jobs)
=============================================================================
