---------------------------- MODULE EstimateChat ----------------------------
(***************************************************************************)
(* Chat rooms of one moving request between its customer and one mover:    *)
(* opening a room (chat-room.service.ts), the link a quote makes when it   *)
(* is sent, rejected or confirmed (quote.service.ts), the promotion a      *)
(* designation makes (designated-estimate-request.service.ts), leaving,    *)
(* and sending, which brings a partner back who has left                   *)
(* (chat-message.service.ts).  Only the creation of a room, quotes and     *)
(* designations take the lock of the request's row; leaving, coming back   *)
(* and reusing a room do not.                                              *)
(***************************************************************************)
EXTENDS FiniteSets

CONSTANTS
    Users,      \* the customer and the mover
    Rooms,      \* ids a new chat_rooms row can get
    Handlers,   \* HTTP requests the server works on at one time
    Bodies,     \* bound: the bodies that rooms are created with
    None        \* null

RoomTypes == {"GENERAL", "DESIGNATED"}
CreateBodies == [kind : {"create"}, roomType : RoomTypes,
                 designatedMoverId : BOOLEAN, quoteId : BOOLEAN]
Calls ==
    Bodies
    \cup [kind : {"quote"}, as : {"PENDING", "REJECTED", "CONFIRMED"}]
    \cup [kind : {"designate"}]
    \cup [kind : {"send"}, user : Users, room : Rooms]
ASSUME BodiesAreBodies == Bodies \subseteq CreateBodies
\* The columns of a room that a lookup returns.
Images == [room : Rooms, roomType : RoomTypes, quoteId : BOOLEAN]
ASSUME NoneIsNull == None \notin Handlers \cup Calls \cup Images

VARIABLES
    status,      \* of the request
    quote,       \* of the mover for the request; there is at most one
    designated,  \* whether the mover is designated
    roomType,    \* [Rooms -> RoomTypes], "NONE" where there is no row
    withMover,   \* rooms whose designatedMoverId is set
    withQuote,   \* rooms whose quoteId is set
    active,      \* [Rooms -> participants whose leftAt is null]
    left,        \* [Rooms -> participants with a row whose leftAt is set]
    lock,        \* who holds SELECT ... FOR UPDATE on the request row
    pc,          \* next statement of each handler
    call,        \* what the handler was asked to do, None when idle
    found        \* the room its lookup returned, as it was then, or None

request == <<status, quote, designated>>
columns == <<roomType, withMover, withQuote>>
members == <<active, left>>
handlers == <<lock, pc, call, found>>
vars == <<request, columns, members, handlers>>

Is(h, kind) == call[h] # None /\ call[h].kind = kind
Exists(r) == roomType[r] # "NONE"
\* findRoomByEstimateAndParticipants takes rooms that nobody is away from.
Complete(r) == Exists(r) /\ active[r] = Users

isMessagingAllowedByEstimateStatus == status \notin {"EXPIRED", "COMPLETED"}
isMessagingAllowedForChatRoom(r) ==
    /\ isMessagingAllowedByEstimateStatus
    /\ ~(r \in withQuote /\ quote = "REJECTED")

-----------------------------------------------------------------------------
(* How a handler moves from one statement to the next.                      *)
Goto(h, next) == pc' = [pc EXCEPT ![h] = next]

\* The response goes out; a transaction still open is over.
Finish(h) ==
    /\ lock' = IF lock = h THEN None ELSE lock
    /\ Goto(h, "idle")
    /\ call' = [call EXCEPT ![h] = None]
    /\ found' = [found EXCEPT ![h] = None]

\* An error, a timeout or a crash: what was not committed is lost.
Abort(h) ==
    /\ pc[h] # "idle"
    /\ Finish(h)
    /\ UNCHANGED <<request, columns, members>>

\* The statement that writes to the room is the next one once it is chosen.
WriteAfter(h) == CASE Is(h, "create") -> "reuse"
                   [] Is(h, "quote") -> "link"
                   [] Is(h, "designate") -> "promote"

Take(h, r) ==
    /\ found' = [found EXCEPT ![h] =
                    [room |-> r, roomType |-> roomType[r],
                     quoteId |-> r \in withQuote]]
    /\ Goto(h, WriteAfter(h))

-----------------------------------------------------------------------------
(* Where a call enters.                                                     *)
\* createEstimateChatRoom checks the ids of the body and looks the room up
\* once without a lock.
BeginCreate(h, c) ==
    /\ c.kind = "create"
    /\ c.designatedMoverId => designated
    /\ c.quoteId => quote # "NONE"
    /\ c.roomType = "DESIGNATED" => c.designatedMoverId
    /\ Goto(h, IF c.designatedMoverId THEN "byMover"
               ELSE IF c.quoteId THEN "byQuote" ELSE "byPair")

\* A quote is read before the lock when it is to be confirmed.
BeginQuote(h, c) ==
    /\ c.kind = "quote"
    /\ c.as = "CONFIRMED" => quote = "PENDING"
    /\ Goto(h, "lock")

\* A designation that exists is returned, but its room is put right.
BeginDesignate(h, c) ==
    /\ c.kind = "designate"
    /\ designated \/ (status = "SUBMITTED" /\ quote \notin {"PENDING", "CONFIRMED"})
    /\ Goto(h, IF designated THEN "byPair" ELSE "lock")

\* assertCanSendMessage reads the room with its request and quote first, then
\* the participation.
findRoomForMessaging(h, c) ==
    /\ c.kind = "send"
    /\ Exists(c.room)
    /\ isMessagingAllowedForChatRoom(c.room)
    /\ Goto(h, "member")

Begin(h, c) ==
    /\ pc[h] = "idle"
    /\ call' = [call EXCEPT ![h] = c]
    /\ \/ BeginCreate(h, c)
       \/ BeginQuote(h, c)
       \/ BeginDesignate(h, c)
       \/ findRoomForMessaging(h, c)
    /\ UNCHANGED <<request, columns, members, lock, found>>

-----------------------------------------------------------------------------
(* SELECT ... FOR UPDATE of the request and the checks on what it returns.  *)
LockOr(h, admitted, next) ==
    /\ pc[h] = "lock"
    /\ lock = None
    /\ IF admitted THEN lock' = h /\ Goto(h, next) /\ UNCHANGED <<call, found>>
                   ELSE Finish(h)
    /\ UNCHANGED <<request, columns, members>>

\* Mutant: the room was looked up before, that is enough.
LockCreateTrusted(h) ==
    /\ Is(h, "create")
    /\ LockOr(h, isMessagingAllowedByEstimateStatus, "insert")

\* Mutant: the status of the locked row is not looked at.
LockCreateAnyStatus(h) ==
    /\ Is(h, "create")
    /\ LockOr(h, TRUE,
              IF call[h].designatedMoverId THEN "byMover"
              ELSE IF call[h].quoteId THEN "byQuote" ELSE "byPair")

LockCreate(h) ==
    /\ Is(h, "create")
    /\ LockOr(h, isMessagingAllowedByEstimateStatus,
              IF call[h].designatedMoverId THEN "byMover"
              ELSE IF call[h].quoteId THEN "byQuote" ELSE "byPair")

\* A rejection needs a designation, a second quote is refused, only a pending
\* quote is confirmed.
LockQuote(h) ==
    /\ Is(h, "quote")
    /\ LockOr(h, /\ status = "SUBMITTED"
                 /\ quote = IF call[h].as = "CONFIRMED" THEN "PENDING" ELSE "NONE"
                 /\ call[h].as = "REJECTED" => designated, "byPair")

\* A designation made meanwhile rolls the transaction back and is returned as
\* if it had been there.
LockDesignate(h) ==
    /\ Is(h, "designate")
    /\ IF designated /\ status = "SUBMITTED"
       THEN /\ pc[h] = "lock" /\ lock = None
            /\ Goto(h, "byPair")
            /\ UNCHANGED <<lock, call, found, request, columns, members>>
       ELSE LockOr(h, /\ status = "SUBMITTED"
                      /\ quote \notin {"PENDING", "CONFIRMED"}, "byPair")

-----------------------------------------------------------------------------
(* findExistingRoom, up to three queries; quotes and designations make only *)
(* the last one.                                                            *)
findRoomByDesignatedMoverId(h) ==
    /\ pc[h] = "byMover"
    /\ IF withMover = {}
       THEN /\ Goto(h, IF call[h].quoteId THEN "byQuote" ELSE "byPair")
            /\ UNCHANGED found
       ELSE \E r \in withMover : Take(h, r)
    /\ UNCHANGED <<request, columns, members, lock, call>>

findRoomByQuoteId(h) ==
    /\ pc[h] = "byQuote"
    /\ IF withQuote = {}
       THEN Goto(h, "byPair") /\ UNCHANGED found
       ELSE \E r \in withQuote : Take(h, r)
    /\ UNCHANGED <<request, columns, members, lock, call>>

\* A creation that finds no room locks the request, or inserts if it has.
\* The others write what they came for.
AfterNoRoom(h) ==
    CASE Is(h, "create") /\ lock # h -> "lock"
      [] Is(h, "create") /\ lock = h -> "insert"
      [] Is(h, "quote") -> "link"
      [] Is(h, "designate") -> "promote"

\* DESIGNATED rooms come first.
findRoomByEstimateAndParticipants(h) ==
    /\ pc[h] = "byPair"
    /\ IF \A r \in Rooms : ~Complete(r)
       THEN Goto(h, AfterNoRoom(h)) /\ UNCHANGED found
       ELSE \E r \in Rooms :
               /\ Complete(r)
               /\ roomType[r] = "GENERAL" =>
                     \A s \in Rooms : Complete(s) => roomType[s] = "GENERAL"
               /\ Take(h, r)
    /\ UNCHANGED <<request, columns, members, lock, call>>

-----------------------------------------------------------------------------
(* What is written to the room.                                             *)
\* promoteRoomToDesignated and updateRoomQuoteId, by what the lookup showed.
\* A room that names another quote or designation is refused, which cannot
\* come up: the pair has one of each for a request.
SetColumns(h, promote, bind) ==
    LET r == found[h].room
        up == promote /\ found[h].roomType = "GENERAL"
    IN  /\ roomType' = IF up THEN [roomType EXCEPT ![r] = "DESIGNATED"] ELSE roomType
        /\ withMover' = IF up THEN withMover \cup {r} ELSE withMover
        /\ withQuote' = IF bind /\ ~found[h].quoteId THEN withQuote \cup {r}
                                                     ELSE withQuote

\* reuseOrUpdateExistingRoom.
ReuseRoom(h) ==
    /\ pc[h] = "reuse"
    /\ SetColumns(h, call[h].roomType = "DESIGNATED", call[h].quoteId)
    /\ Finish(h)
    /\ UNCHANGED <<request, members>>

createChatRoom(h) ==
    /\ pc[h] = "insert"
    /\ \E r \in Rooms :
          /\ ~Exists(r)
          /\ roomType' = [roomType EXCEPT ![r] = call[h].roomType]
          /\ withMover' = IF call[h].designatedMoverId THEN withMover \cup {r}
                                                       ELSE withMover
          /\ withQuote' = IF call[h].quoteId THEN withQuote \cup {r} ELSE withQuote
          /\ active' = [active EXCEPT ![r] = Users]
          /\ left' = [left EXCEPT ![r] = {}]
    /\ Finish(h)
    /\ UNCHANGED request

\* Mutant: a promotion forgets the quote.
linkQuoteToChatRoomForgets(h) ==
    IF found[h] = None THEN UNCHANGED columns
    ELSE SetColumns(h, designated, ~(designated /\ found[h].roomType = "GENERAL"))

linkQuoteToChatRoom(h) ==
    IF found[h] = None THEN UNCHANGED columns ELSE SetColumns(h, designated, TRUE)

\* createQuote or confirmQuoteWithEstimateRequest, and linkQuoteToChatRoom,
\* committed.
CommitQuote(h) ==
    /\ pc[h] = "link"
    /\ quote' = call[h].as
    /\ status' = IF call[h].as = "CONFIRMED" THEN "CONFIRMED" ELSE status
    /\ linkQuoteToChatRoom(h)
    /\ Finish(h)
    /\ UNCHANGED <<designated, members>>

\* The designation, unless it exists, and syncDesignatedChatRoomType.
CommitDesignation(h) ==
    /\ pc[h] = "promote"
    /\ designated' = TRUE
    /\ IF found[h] = None THEN UNCHANGED columns ELSE SetColumns(h, TRUE, FALSE)
    /\ Finish(h)
    /\ UNCHANGED <<status, quote, members>>

-----------------------------------------------------------------------------
(* Participants.                                                            *)
leaveChatRoom(r, u) ==
    /\ u \in active[r]
    /\ active' = [active EXCEPT ![r] = @ \ {u}]
    /\ left' = [left EXCEPT ![r] = @ \cup {u}]
    /\ UNCHANGED <<request, columns, handlers>>

findActiveParticipation(h) ==
    /\ pc[h] = "member"
    /\ IF call[h].user \in active[call[h].room]
       THEN Goto(h, "send") /\ UNCHANGED <<lock, call, found>>
       ELSE Finish(h)
    /\ UNCHANGED <<request, columns, members>>

\* The message is stored and rejoinLeftParticipants brings the partner back.
createMessageAndRejoin(h) ==
    /\ pc[h] = "send"
    /\ active' = [active EXCEPT ![call[h].room] = @ \cup (Users \ {call[h].user})]
    /\ Finish(h)
    /\ UNCHANGED <<request, columns, left>>

-----------------------------------------------------------------------------
(* The rest of the system: the submission, the confirmation of another      *)
(* mover's quote and the nightly job wait for the lock.                     *)
Submit ==
    /\ lock = None
    /\ status = "DRAFT"
    /\ status' = "SUBMITTED"
    /\ UNCHANGED <<quote, designated, columns, members, handlers>>

ConfirmAnother ==
    /\ lock = None
    /\ status = "SUBMITTED"
    /\ status' = "CONFIRMED"
    /\ UNCHANGED <<quote, designated, columns, members, handlers>>

CloseOverdue ==
    /\ lock = None
    /\ \/ status = "SUBMITTED" /\ status' = "EXPIRED"
       \/ status = "CONFIRMED" /\ status' = "COMPLETED"
    /\ UNCHANGED <<quote, designated, columns, members, handlers>>

-----------------------------------------------------------------------------
Init ==
    /\ status = "DRAFT"
    /\ quote = "NONE"
    /\ designated = FALSE
    /\ roomType = [r \in Rooms |-> "NONE"]
    /\ withMover = {}
    /\ withQuote = {}
    /\ active = [r \in Rooms |-> {}]
    /\ left = [r \in Rooms |-> {}]
    /\ lock = None
    /\ pc = [h \in Handlers |-> "idle"]
    /\ call = [h \in Handlers |-> None]
    /\ found = [h \in Handlers |-> None]

Lock(h) == LockCreate(h) \/ LockQuote(h) \/ LockDesignate(h)

Find(h) ==
    \/ findRoomByDesignatedMoverId(h)
    \/ findRoomByQuoteId(h)
    \/ findRoomByEstimateAndParticipants(h)

Write(h) ==
    \/ ReuseRoom(h)
    \/ createChatRoom(h)
    \/ CommitQuote(h)
    \/ CommitDesignation(h)

Send(h) ==
    \/ findActiveParticipation(h)
    \/ createMessageAndRejoin(h)

Next ==
    \/ \E h \in Handlers : \/ \E c \in Calls : Begin(h, c)
                           \/ Lock(h)
                           \/ Find(h)
                           \/ Write(h)
                           \/ Send(h)
                           \/ Abort(h)
    \/ \E r \in Rooms, u \in Users : leaveChatRoom(r, u)
    \/ Submit
    \/ ConfirmAnother
    \/ CloseOverdue

Spec == Init /\ [][Next]_vars

-----------------------------------------------------------------------------
(* Properties.                                                              *)

\* Every variable keeps to the values its comment gives.
TypeOK ==
    /\ status \in {"DRAFT", "SUBMITTED", "CONFIRMED", "COMPLETED", "EXPIRED"}
    /\ quote \in {"NONE", "PENDING", "CONFIRMED", "REJECTED"}
    /\ designated \in BOOLEAN
    /\ roomType \in [Rooms -> RoomTypes \cup {"NONE"}]
    /\ withMover \subseteq Rooms
    /\ withQuote \subseteq Rooms
    /\ active \in [Rooms -> SUBSET Users]
    /\ left \in [Rooms -> SUBSET Users]
    /\ lock \in Handlers \cup {None}
    /\ pc \in [Handlers -> {"idle", "lock", "byMover", "byQuote", "byPair",
                            "reuse", "insert", "link", "promote", "member",
                            "send"}]
    /\ call \in [Handlers -> Calls \cup {None}]
    /\ found \in [Handlers -> Images \cup {None}]

\* Columns and rows that point at each other agree: a DESIGNATED room names
\* the designation, and a room names a quote or designation only if there is
\* one (chat-room.service.ts:255-310, promoteRoomToDesignated).
ColumnsAgree ==
    /\ \A r \in Rooms : roomType[r] = "DESIGNATED" => r \in withMover
    /\ withMover # {} => designated
    /\ withQuote # {} => quote # "NONE"
    /\ \A r \in withMover \cup withQuote : Exists(r)

\* The pair gets a second room for a request only after somebody has left
\* the first: whoever looks a room up before anybody held the lock looks
\* again under the lock (createEstimateChatRoom).
SecondRoomAfterLeaving ==
    \A r, s \in Rooms :
        r # s /\ Exists(r) /\ Exists(s) => left[r] # {} \/ left[s] # {}

\* What a handler's statement relies on: its call fits it, the lock is held
\* where the code holds it, and a read made in a transaction is still true.
CallsFit ==
    \A h \in Handlers :
        /\ pc[h] = "idle" <=> call[h] = None
        /\ pc[h] \in {"byMover", "byQuote", "reuse", "insert"} => Is(h, "create")
        /\ pc[h] = "link" => Is(h, "quote")
        /\ pc[h] = "promote" => Is(h, "designate")
        /\ pc[h] \in {"member", "send"} => Is(h, "send")
        /\ Is(h, "create") =>
              /\ pc[h] \in {"lock", "byMover", "byQuote", "byPair", "reuse", "insert"}
              /\ call[h].designatedMoverId => designated
              /\ call[h].quoteId => quote # "NONE"
              /\ call[h].roomType = "DESIGNATED" => call[h].designatedMoverId
        /\ Is(h, "quote") => pc[h] \in {"lock", "byPair", "link"}
        /\ Is(h, "designate") => pc[h] \in {"lock", "byPair", "promote"}
        /\ Is(h, "send") => pc[h] \in {"member", "send"}

LockDiscipline ==
    \A h \in Handlers :
        /\ lock = h => pc[h] \notin {"idle", "lock", "member", "send"}
        /\ pc[h] = "insert" => lock = h
        /\ Is(h, "create") /\ lock = h => status \notin {"EXPIRED", "COMPLETED"}
        /\ Is(h, "quote") /\ pc[h] # "lock" => lock = h
        /\ Is(h, "designate") /\ pc[h] # "lock" => lock = h \/ designated

\* Columns are set and never taken back.
ReadsHold ==
    \A h \in Handlers :
        /\ pc[h] = "reuse" => found[h] # None
        /\ found[h] # None =>
              /\ pc[h] \in {"reuse", "link", "promote"}
              /\ Exists(found[h].room)
              /\ found[h].roomType = "DESIGNATED" =>
                    roomType[found[h].room] = "DESIGNATED"
              /\ found[h].quoteId => found[h].room \in withQuote
        /\ lock = h /\ found[h] = None /\ pc[h] \in {"insert", "link", "promote"} =>
              \A r \in Rooms : Exists(r) => left[r] # {}

\* Whoever is not in a room has left it.
AwayHaveLeft == \A r \in Rooms : Exists(r) => Users \subseteq active[r] \cup left[r]

Inv == /\ TypeOK
       /\ ColumnsAgree
       /\ CallsFit
       /\ LockDiscipline
       /\ ReadsHold
       /\ AwayHaveLeft
       /\ SecondRoomAfterLeaving

\* When a quote is sent, rejected or confirmed, or a designation commits, a room
\* that is the only one and that nobody has ever left gets it: the quote is
\* linked ("반려" blocks the room from then on) and the room is DESIGNATED,
\* whatever runs beside it (linkQuoteToChatRoom, syncDesignatedChatRoomType).
OnlyRoom(r) == /\ Exists(r) /\ left[r] = {}
               /\ \A s \in Rooms : Exists(s) => s = r

CommitsReachTheRoom ==
    [][\A r \in Rooms : OnlyRoom(r) =>
          /\ quote' # quote => r \in withQuote'
          /\ ~designated /\ designated' => roomType'[r] = "DESIGNATED"]_vars

\* A room is opened only while its request takes messages: the status that
\* the lock returned is still true when the room is inserted.
NoRoomOnClosedRequest ==
    [][\A r \in Rooms : ~Exists(r) /\ Exists(r)' =>
          isMessagingAllowedByEstimateStatus]_vars

\* "같은 견적·참여자면 GENERAL↔DESIGNATED를 별도 방으로 두지 않는다"
\* (chat-room.service.ts:201): the pair is never in a GENERAL and in a
\* DESIGNATED room of the request at once.  The code does not keep it
\* (README, Findings).
OneRoomForBothTypes ==
    \A r, s \in Rooms :
        Complete(r) /\ Complete(s) /\ roomType[r] = "GENERAL" =>
            roomType[s] # "DESIGNATED"
=============================================================================
