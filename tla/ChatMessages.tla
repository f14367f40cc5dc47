---------------------------- MODULE ChatMessages ----------------------------
(***************************************************************************)
(* Messages of one chat room and what its two participants see of them:    *)
(* sending (chat-message.service.ts, chat-message.repository.ts), which    *)
(* moves the room's last_message_at and brings a partner back who has      *)
(* left, leaving (chat-room.service.ts), the read mark                     *)
(* (chat-read.repository.ts) and the unread badge pushed over the socket   *)
(* (chat-socket.service.ts, chat.socket.ts).  A message takes its          *)
(* created_at before it gets its id, so that the two orders may differ.    *)
(* EstimateChat.tla models which room a request has and who may write.     *)
(***************************************************************************)
EXTENDS Integers, FiniteSets

CONSTANTS
    Procs,          \* requests in flight
    Participants,          \* the two participants
    MaxMessages,    \* bound: messages inserted, the ids given out
    MaxClock,       \* bound: instants at which something happens
    Nobody

Ids == 1 .. MaxMessages
Instants == 1 .. MaxClock

ASSUME BoundsAssumption == MaxMessages \in Nat /\ MaxClock \in Nat \ {0}
ASSUME UsersFinite == IsFiniteSet(Participants)
ASSUME NoneIsNobody == Nobody \notin Procs \cup Participants

VARIABLES
    clock,
    present,        \* participants whose left_at is null
    joinedAt,       \* joined_at of the row a participant is active with
    message,        \* chat_messages rows, by id
    nextId,         \* the sequence; an id a transaction lost is not given again
    lastMessageAt,  \* of the room; 0 is null
    mark,           \* chat_read_statuses.last_read_message_id; 0 is no row
    badge,          \* the room's unread count a participant was last told
    rowLock,        \* who holds the room's row or a participant's unique key
    stmt, req

room == <<present, joinedAt, message, lastMessageAt>>
messagesVars == <<clock, room, nextId, mark, badge, rowLock, stmt, req>>

NoMessage == [sender |-> Nobody, at |-> 0]
Blank == [user |-> Nobody, at |-> 0, id |-> 0, count |-> 0]
RoomRow == <<"room", Nobody>>
Held == {RoomRow} \cup ({"participant"} \X Participants)

Sent == {m \in Ids : message[m].sender # Nobody}
Partners(u) == Participants \ {u}
Rejoin(v) == <<"participant", v>>

Free(p, k) == rowLock[k] \in {Nobody, p}
Hold(p, k) == rowLock' = [rowLock EXCEPT ![k] = p]
Release(p) == rowLock' = [k \in Held |-> IF rowLock[k] = p THEN Nobody ELSE rowLock[k]]

Proceed(p, next, r) ==
    /\ stmt' = [stmt EXCEPT ![p] = next]
    /\ req' = [req EXCEPT ![p] = r]

Return(p) == Proceed(p, "idle", Blank) /\ Release(p)

-----------------------------------------------------------------------------
(* What a participant sees.                                                 *)
findMessageInRoomAfterJoinedAt(u, m) == m \in Sent /\ message[m].at >= joinedAt[u]

\* Nothing is counted for one who has left.
findUnreadCountsByRooms(u) ==
    IF u \notin present THEN 0
    ELSE Cardinality({m \in Sent : /\ findMessageInRoomAfterJoinedAt(u, m)
                                   /\ message[m].sender # u
                                   /\ m > mark[u]})

\* resolveUnreadPayload; the count of this room.
resolveUnreadPayload(u) == findUnreadCountsByRooms(u)

-----------------------------------------------------------------------------
(* Sending.  Whether the room's request still allows messages is the other  *)
(* half of the check (EstimateChat.tla); created_at is taken when the       *)
(* insert is sent, the id when it is executed.                              *)
assertCanSendMessage(u) == u \in present

Stamped(p, u) == Proceed(p, "insert", [Blank EXCEPT !.user = u, !.at = clock])

sendTextMessage(p) ==
    \E u \in Participants :
        /\ stmt[p] = "idle"
        /\ assertCanSendMessage(u)
        /\ Stamped(p, u)
        /\ UNCHANGED <<clock, room, nextId, mark, badge, rowLock>>

\* An image's attachments are looked up in the store between two checks.
sendImageMessage(p) ==
    \E u \in Participants :
        /\ stmt[p] = "idle"
        /\ assertCanSendMessage(u)
        /\ Proceed(p, "image", [Blank EXCEPT !.user = u])
        /\ UNCHANGED <<clock, room, nextId, mark, badge, rowLock>>

ImageTransaction(p) ==
    /\ stmt[p] = "image"
    /\ IF assertCanSendMessage(req[p].user)
       THEN Stamped(p, req[p].user)
       ELSE Proceed(p, "idle", Blank)
    /\ UNCHANGED <<clock, room, nextId, mark, badge, rowLock>>

createMessage(p) ==
    /\ stmt[p] = "insert"
    /\ nextId < MaxMessages
    /\ nextId' = nextId + 1
    /\ Proceed(p, "lastMessageAt", [req[p] EXCEPT !.id = nextId + 1])
    /\ UNCHANGED <<clock, room, mark, badge, rowLock>>

\* Mutant: the update has no condition on lastMessageAt.
AlwaysNewer(p) == TRUE

IsNewer(p) == lastMessageAt < req[p].at

\* A conditional update: a row that does not match is not locked; one that
\* matches is waited for, and looked at again when it is free.
finalizeMessageCreation(p) ==
    /\ stmt[p] = "lastMessageAt"
    /\ IF IsNewer(p) THEN Free(p, RoomRow) /\ Hold(p, RoomRow) ELSE UNCHANGED rowLock
    /\ Proceed(p, "rejoin", req[p])
    /\ UNCHANGED <<clock, room, nextId, mark, badge>>

\* Reads who has left; an insert for them follows.
rejoinLeftParticipants(p) ==
    /\ stmt[p] = "rejoin"
    /\ Proceed(p, IF Partners(req[p].user) \subseteq present THEN "commit" ELSE "rejoinInsert",
            req[p])
    /\ UNCHANGED <<clock, room, nextId, mark, badge, rowLock>>

\* The active row of a participant is unique: the insert waits for another
\* transaction's.  P2002 is caught, but PostgreSQL has given the transaction up;
\* its COMMIT rolls back, and the message goes out without a row.
rejoinInsert(p) ==
    \E v \in Partners(req[p].user) :
        /\ stmt[p] = "rejoinInsert"
        /\ Free(p, Rejoin(v))
        /\ IF v \in present
           THEN Proceed(p, "created", req[p]) /\ Release(p)
           ELSE Hold(p, Rejoin(v)) /\ Proceed(p, "commit", req[p])
        /\ UNCHANGED <<clock, room, nextId, mark, badge>>

\* Mutant: joined_at is the time of the insert.
RejoinedNow(p) == clock

RejoinedAt(p) == req[p].at

Brought(p) == {v \in Participants : rowLock[Rejoin(v)] = p}

Commit(p) ==
    /\ stmt[p] = "commit"
    /\ message' = [message EXCEPT ![req[p].id] = [sender |-> req[p].user, at |-> req[p].at]]
    /\ lastMessageAt' = IF rowLock[RoomRow] = p THEN req[p].at ELSE lastMessageAt
    /\ present' = present \cup Brought(p)
    /\ joinedAt' = [v \in Participants |-> IF v \in Brought(p) THEN RejoinedAt(p) ELSE joinedAt[v]]
    /\ Release(p)
    /\ Proceed(p, "created", req[p])
    /\ UNCHANGED <<clock, nextId, mark, badge>>

\* The partner's unread count is read, then emitted; the request is answered.
emitChatMessageCreated(p) ==
    \E v \in Partners(req[p].user) :
        /\ stmt[p] = "created"
        /\ IF v \in present
           THEN Proceed(p, "emit", [Blank EXCEPT !.user = v, !.count = resolveUnreadPayload(v)])
           ELSE Proceed(p, "idle", Blank)
        /\ UNCHANGED <<clock, room, nextId, mark, badge, rowLock>>

EmitUnread(p) ==
    /\ stmt[p] = "emit"
    /\ badge' = [badge EXCEPT ![req[p].user] = req[p].count]
    /\ Return(p)
    /\ UNCHANGED <<clock, room, nextId, mark>>

\* An error or a crash: an open transaction is lost, its id with it.
Rollback(p) ==
    /\ stmt[p] # "idle"
    /\ Return(p)
    /\ UNCHANGED <<clock, room, nextId, mark, badge>>

\* One conditional update of the active row.
leaveTheRoom(p) ==
    \E u \in present :
        /\ stmt[p] = "idle"
        /\ present' = present \ {u}
        /\ UNCHANGED <<clock, joinedAt, message, lastMessageAt, nextId, mark, badge,
                       rowLock, stmt, req>>

-----------------------------------------------------------------------------
(* The room list and the unread total: counted, and answered later.         *)
getChatRoomList(p) ==
    \E u \in present :
        /\ stmt[p] = "idle"
        /\ Proceed(p, "emit", [Blank EXCEPT !.user = u, !.count = findUnreadCountsByRooms(u)])
        /\ UNCHANGED <<clock, room, nextId, mark, badge, rowLock>>

-----------------------------------------------------------------------------
(* Reading.  The statements of advanceReadStatus are not in a transaction.  *)
markChatRoomAsRead(p) ==
    \E u \in present, m \in Ids :
        /\ stmt[p] = "idle"
        /\ findMessageInRoomAfterJoinedAt(u, m)
        /\ Proceed(p, "advance", [Blank EXCEPT !.user = u, !.id = m])
        /\ UNCHANGED <<clock, room, nextId, mark, badge, rowLock>>

\* Mutant: the retry after P2002 has no condition.
ForwardAlways(p) == mark[req[p].user] # 0

\* WHERE last_read_message_id < the wanted one; no row, no match.
Forward(p) == LET n == mark[req[p].user] IN n # 0 /\ n < req[p].id

AdvanceMark(p) ==
    mark' = [mark EXCEPT ![req[p].user] = IF Forward(p) THEN req[p].id ELSE @]

advanceReadStatus(p) ==
    /\ stmt[p] = "advance"
    /\ AdvanceMark(p)
    /\ Proceed(p, "fetch", req[p])
    /\ UNCHANGED <<clock, room, nextId, badge, rowLock>>

\* fetchCurrent; a missing row is created.
fetchCurrent(p) ==
    /\ stmt[p] = "fetch"
    /\ LET n == mark[req[p].user] IN
       Proceed(p, IF n = 0 THEN "createMark" ELSE "read", [req[p] EXCEPT !.count = n])
    /\ UNCHANGED <<clock, room, nextId, mark, badge, rowLock>>

\* P2002: somebody else's row is there, and is advanced.
createReadStatus(p) ==
    LET u == req[p].user IN
    /\ stmt[p] = "createMark"
    /\ IF mark[u] = 0
       THEN /\ mark' = [mark EXCEPT ![u] = req[p].id]
            /\ Proceed(p, "read", [req[p] EXCEPT !.count = req[p].id])
       ELSE Proceed(p, "advance", req[p]) /\ UNCHANGED mark
    /\ UNCHANGED <<clock, room, nextId, badge, rowLock>>

\* The partner is told of the mark, and the reader 0 for the room, whatever came in
\* since.
emitChatRoomRead(p) ==
    LET u == req[p].user IN
    /\ stmt[p] = "read"
    /\ badge' = [badge EXCEPT ![u] = 0]
    /\ Return(p)
    /\ UNCHANGED <<clock, room, nextId, mark>>

\* The JOIN event of a socket: 0 again, and nothing is read.
JoinSocketRoom ==
    \E u \in present :
        /\ badge' = [badge EXCEPT ![u] = 0]
        /\ UNCHANGED <<clock, room, nextId, mark, rowLock, stmt, req>>

Tick ==
    /\ clock < MaxClock
    /\ clock' = clock + 1
    /\ UNCHANGED <<room, nextId, mark, badge, rowLock, stmt, req>>

-----------------------------------------------------------------------------
MessagesInit ==
    /\ clock = 1
    /\ present = Participants
    /\ joinedAt = [u \in Participants |-> 0]
    /\ message = [m \in Ids |-> NoMessage]
    /\ nextId = 0
    /\ lastMessageAt = 0
    /\ mark = [u \in Participants |-> 0]
    /\ badge = [u \in Participants |-> 0]
    /\ rowLock = [k \in Held |-> Nobody]
    /\ stmt = [p \in Procs |-> "idle"]
    /\ req = [p \in Procs |-> Blank]

Step(p) ==
    \/ sendTextMessage(p) \/ sendImageMessage(p) \/ ImageTransaction(p)
    \/ createMessage(p) \/ finalizeMessageCreation(p)
    \/ rejoinLeftParticipants(p) \/ rejoinInsert(p) \/ Commit(p)
    \/ emitChatMessageCreated(p) \/ EmitUnread(p)
    \/ Rollback(p) \/ leaveTheRoom(p)
    \/ getChatRoomList(p)
    \/ markChatRoomAsRead(p) \/ advanceReadStatus(p) \/ fetchCurrent(p)
    \/ createReadStatus(p) \/ emitChatRoomRead(p)

MessagesNext == (\E p \in Procs : Step(p)) \/ JoinSocketRoom \/ Tick

MessagesSpec == MessagesInit /\ [][MessagesNext]_messagesVars

-----------------------------------------------------------------------------
(* The type invariant.                                                      *)
MessagesTypeOK ==
    /\ clock \in Instants
    /\ present \subseteq Participants
    /\ joinedAt \in [Participants -> 0 .. MaxClock]
    /\ message \in [Ids -> [sender : Participants \cup {Nobody}, at : 0 .. MaxClock]]
    /\ nextId \in 0 .. MaxMessages
    /\ lastMessageAt \in 0 .. MaxClock
    /\ mark \in [Participants -> 0 .. MaxMessages]
    /\ badge \in [Participants -> 0 .. MaxMessages]
    /\ rowLock \in [Held -> Procs \cup {Nobody}]
    /\ stmt \in [Procs -> {"idle", "image", "insert", "lastMessageAt", "rejoin", "rejoinInsert",
                         "commit", "created", "emit", "advance", "fetch", "createMark",
                         "read"}]
    /\ req \in [Procs -> [user : Participants \cup {Nobody}, at : 0 .. MaxClock,
                          id : 0 .. MaxMessages, count : 0 .. MaxMessages]]

\* What a transaction has written and not committed.
SendersHold ==
    /\ \A m \in Ids : m > nextId => message[m] = NoMessage
    /\ \A p \in Procs :
         LET r == req[p] IN
         /\ stmt[p] # "idle" => r.user \in Participants
         /\ stmt[p] \in {"insert", "lastMessageAt", "rejoin", "rejoinInsert", "commit"} =>
              r.at \in Instants
         /\ stmt[p] \in {"lastMessageAt", "rejoin", "rejoinInsert", "commit"} =>
              /\ r.id \in 1 .. nextId
              /\ message[r.id] = NoMessage
              /\ \A q \in Procs \ {p} :
                   stmt[q] \in {"lastMessageAt", "rejoin", "rejoinInsert", "commit"} =>
                       req[q].id # r.id
         /\ stmt[p] \in {"rejoin", "rejoinInsert", "commit"} =>
              rowLock[RoomRow] = p \/ r.at <= lastMessageAt
         /\ stmt[p] \in {"advance", "fetch", "createMark", "read"} => r.id \in Sent
    /\ \A k \in Held : rowLock[k] # Nobody =>
         stmt[rowLock[k]] \in IF k = RoomRow THEN {"rejoin", "rejoinInsert", "commit"} ELSE {"commit"}
    /\ rowLock[RoomRow] # Nobody => lastMessageAt < req[rowLock[RoomRow]].at
    /\ \A v \in Participants : rowLock[Rejoin(v)] # Nobody => req[rowLock[Rejoin(v)]].user # v

\* The room list is ordered by last_message_at: it is the time of the newest
\* message that was stored, in whatever order the senders committed.
LastMessageAtIsNewest ==
    /\ \A m \in Sent : message[m].at <= lastMessageAt
    /\ lastMessageAt # 0 => \E m \in Sent : message[m].at = lastMessageAt

\* A participant who was brought back sees the message that brought them back: no
\* row of theirs begins after it.
RejoinedSeesWhy ==
    \A v \in Participants :
        joinedAt[v] # 0 =>
            \E m \in Sent : message[m].sender # v /\ findMessageInRoomAfterJoinedAt(v, m)

\* A read mark stands at a stored message of the room, and what a request answers,
\* and tells the partner, is no further than the mark.
MarkIsAMessage ==
    /\ \A u \in Participants : mark[u] # 0 => mark[u] \in Sent
    /\ \A p \in Procs : stmt[p] = "read" => req[p].count \in 1 .. mark[req[p].user]

\* Whoever marks a message as read is answered with a mark at it or past it ("a row
\* that is there and does not satisfy the condition" is taken to be further on).
\* The code does not keep it (README, Findings).
ReadIsKept == \A p \in Procs : stmt[p] = "read" => req[p].id <= req[p].count

\* A badge counts stored messages of the partner: none of the participant's own, and
\* none of a transaction that was given up.
BadgeCountsOthers ==
    LET Others(u) == Cardinality({m \in Sent : message[m].sender # u}) IN
    /\ \A u \in Participants : badge[u] <= Others(u)
    /\ \A p \in Procs : stmt[p] = "emit" => req[p].count <= Others(req[p].user)

\* The inductive invariant.
MessagesInv ==
    /\ MessagesTypeOK /\ SendersHold /\ LastMessageAtIsNewest
    /\ RejoinedSeesWhy /\ MarkIsAMessage /\ BadgeCountsOthers

\* A read mark never goes back, also when two devices read at once or the row is
\* created twice.
ReadMarkForward == [][\A u \in Participants : mark[u] <= mark'[u]]_messagesVars
=============================================================================
