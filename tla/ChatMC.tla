-------------------------------- MODULE ChatMC --------------------------------
(* Two handlers on the rooms of one request, or two requests at a time on   *)
(* the messages of one room.  The two share nothing here (EstimateChat has  *)
(* of a message only that it brings the partner back), so a behaviour is    *)
(* one or the other.                                                        *)
EXTENDS EstimateChat, ChatMessages, TLC

VARIABLE system

ChatInit == Init /\ MessagesInit /\ system \in {"rooms", "messages"}

ChatNext ==
    \/ system = "rooms" /\ Next /\ UNCHANGED <<system, messagesVars>>
    \/ system = "messages" /\ MessagesNext /\ UNCHANGED <<system, vars>>

ChatSpec == ChatInit /\ [][ChatNext]_<<system, vars, messagesVars>>

Body(type, byMover, byQuote) ==
    [kind |-> "create", roomType |-> type, designatedMoverId |-> byMover,
     quoteId |-> byQuote]
\* A room before there is anything, and one for a designated mover's quote.
TwoBodies == {Body("GENERAL", FALSE, FALSE), Body("DESIGNATED", TRUE, TRUE)}

\* The participants are the users, and the requests have the handlers' names, so
\* that one permutation serves both.
Symmetry == Permutations(Users) \cup Permutations(Rooms) \cup Permutations(Handlers)
=============================================================================
