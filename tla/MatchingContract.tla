--------------------------- MODULE MatchingContract ---------------------------
(***************************************************************************)
(* What matching promises its users, with every operation one step: no     *)
(* locks, no statements, no clock finer than a KST calendar day.           *)
(* QuoteMatching implements it.                                            *)
(***************************************************************************)
EXTENDS Integers, FiniteSets

CONSTANTS Requests, Movers, None, MaxDesignated, MaxGeneral, Days

VARIABLES
    status, confirmed,  \* of each request
    quote,              \* of each pair of a request and a mover
    designated,         \* pairs the customer designated
    moveDate,           \* of each request
    day                 \* today in Korea

cvars == <<status, confirmed, quote, designated, moveDate, day>>

Pairs == Requests \X Movers
Live(r, direct) == {m \in Movers : /\ quote[<<r, m>>] \in {"PENDING", "CONFIRMED"}
                                   /\ (<<r, m>> \in designated) = direct}
Cap(direct) == IF direct THEN MaxDesignated ELSE MaxGeneral

Init ==
    /\ status = [r \in Requests |-> "DRAFT"]
    /\ confirmed = [r \in Requests |-> None]
    /\ quote = [p \in Pairs |-> "NONE"]
    /\ designated = {}
    /\ moveDate \in [Requests -> Days]
    /\ day = 0

Submit(r) ==
    /\ status[r] = "DRAFT"
    /\ status' = [status EXCEPT ![r] = "SUBMITTED"]
    /\ UNCHANGED <<confirmed, quote, designated, moveDate, day>>

\* An offer is new, and its kind of offer is not full.
Offer(r, m) ==
    /\ status[r] = "SUBMITTED"
    /\ quote[<<r, m>>] = "NONE"
    /\ Cardinality(Live(r, <<r, m>> \in designated))
         < Cap(<<r, m>> \in designated)
    /\ quote' = [quote EXCEPT ![<<r, m>>] = "PENDING"]
    /\ UNCHANGED <<status, confirmed, designated, moveDate, day>>

\* Only a mover the customer designated declines, and only instead of offering.
Decline(r, m) ==
    /\ status[r] = "SUBMITTED"
    /\ quote[<<r, m>>] = "NONE"
    /\ <<r, m>> \in designated
    /\ quote' = [quote EXCEPT ![<<r, m>>] = "REJECTED"]
    /\ UNCHANGED <<status, confirmed, designated, moveDate, day>>

\* A mover who answered already is not designated afterwards.
Designate(r, m) ==
    /\ status[r] = "SUBMITTED"
    /\ quote[<<r, m>>] = "NONE"
    /\ <<r, m>> \notin designated
    /\ designated' = designated \cup {<<r, m>>}
    /\ UNCHANGED <<status, confirmed, quote, moveDate, day>>

Confirm(r, m) ==
    /\ status[r] = "SUBMITTED"
    /\ quote[<<r, m>>] = "PENDING"
    /\ quote' = [quote EXCEPT ![<<r, m>>] = "CONFIRMED"]
    /\ status' = [status EXCEPT ![r] = "CONFIRMED"]
    /\ confirmed' = [confirmed EXCEPT ![r] = m]
    /\ UNCHANGED <<designated, moveDate, day>>

\* The night closes requests in bulk, never before their day is over.
Close(S, from, to) ==
    /\ \A r \in S : status[r] = from /\ moveDate[r] < day
    /\ status' = [r \in Requests |-> IF r \in S THEN to ELSE status[r]]
    /\ UNCHANGED <<confirmed, quote, designated, moveDate, day>>

NewDay ==
    /\ day' = day + 1
    /\ UNCHANGED <<status, confirmed, quote, designated, moveDate>>

Next ==
    \/ \E r \in Requests : Submit(r)
    \/ \E r \in Requests, m \in Movers :
          Offer(r, m) \/ Decline(r, m) \/ Designate(r, m) \/ Confirm(r, m)
    \/ \E S \in SUBSET Requests : \/ Close(S, "SUBMITTED", "EXPIRED")
                                  \/ Close(S, "CONFIRMED", "COMPLETED")
    \/ NewDay

Spec == Init /\ [][Next]_cvars
=============================================================================
