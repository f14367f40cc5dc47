------------------------------- MODULE BoardMC -------------------------------
(* The board's counters, three requests at a time on one post, or a reader  *)
(* of any list of the code, three rows in pages of one.  The two share      *)
(* nothing, so a behaviour is one or the other.                             *)
EXTENDS Community, ListWalks, TLC

VARIABLE system

\* While the counters are looked at, the reader has an empty list.
NoReader == list = "comments" /\ Present = {}

BoardInit ==
    /\ Init /\ WalkInit
    /\ \/ system = "counters" /\ NoReader
       \/ system = "lists"

BoardNext ==
    \/ system = "counters" /\ Next /\ UNCHANGED <<system, walkVars>>
    \/ system = "lists" /\ WalkNext /\ UNCHANGED <<system, vars>>

BoardSpec == BoardInit /\ [][BoardNext]_<<system, vars, walkVars>>

MCKinds == CursorKinds \cup PagedKinds
Symmetry == Permutations(Procs) \cup Permutations(Users) \cup Permutations(Posts)
=============================================================================
