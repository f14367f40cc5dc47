------------------------- MODULE NotificationOutboxMC -------------------------
(* A small instance of NotificationOutbox for TLC.                          *)
EXTENDS NotificationOutbox

VARIABLE crowd

\* One row with two movers, cron's worker and the run at boot; or two rows with
\* one mover, who stays as it is, that compete for the ticks of cron's worker.
Rows == 1..2
Ids == 1..2
Few ==
    CASE crowd = "workers" -> status[2] = "NONE" /\ 2 \in open /\ matching[2] = {}
      [] crowd = "rows"    -> pc[BootRun] = "off" /\ \A j \in Jobs : matching[j] \subseteq {1}

CrowdInit == Init /\ crowd \in {"workers", "rows"} /\ Few
CrowdNext ==
    /\ Next /\ UNCHANGED crowd
    /\ Few' /\ (crowd = "rows" => UNCHANGED matching)
CrowdSpec == CrowdInit /\ [][CrowdNext]_<<vars, crowd>> /\ Fairness
=============================================================================
