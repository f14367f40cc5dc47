------------------------- MODULE ChatMessagesProofs -------------------------
(***************************************************************************)
(* Proofs about ChatMessages, for any participants, requests, messages and *)
(* instants.  The argument: an id belongs to one transaction until it is   *)
(* published (SendersHold), and whoever moves lastMessageAt holds the      *)
(* room's row from the comparison to the commit, so the time it writes is  *)
(* later than every committed one.                                         *)
(***************************************************************************)
EXTENDS ChatMessages, FiniteSetTheorems, TLAPS

USE BoundsAssumption, UsersFinite, NoneIsNobody

\* Where a request may stand.
States == {"idle", "image", "insert", "lastMessageAt", "rejoin", "rejoinInsert",
           "commit", "created", "emit", "advance", "fetch", "createMark", "read"}

\* A message has its id and is not published.
Sending == {"lastMessageAt", "rejoin", "rejoinInsert", "commit"}

\* What a request may hold.
Requests == [user : Participants \cup {Nobody}, at : 0 .. MaxClock,
             id : 0 .. MaxMessages, count : 0 .. MaxMessages]

\* What the partners of a participant have sent.
Others(u) == {m \in Sent : message[m].sender # u}

\* The badges' invariant, a participant at a time.
LEMMA BadgeParts ==
    BadgeCountsOthers <=>
        /\ \A u \in Participants : badge[u] <= Cardinality(Others(u))
        /\ \A p \in Procs : stmt[p] = "emit" => req[p].count <= Cardinality(Others(req[p].user))
  BY DEF BadgeCountsOthers, Others

\* The invariant holds where the room is new.
LEMMA InitInv == MessagesInit => MessagesInv
  <1> SUFFICES ASSUME MessagesInit PROVE MessagesInv
    OBVIOUS
  <1>1. MessagesTypeOK
    BY DEF MessagesInit, MessagesTypeOK, NoMessage, Blank, Instants
  <1>2. Sent = {}
    BY DEF MessagesInit, Sent, NoMessage
  <1>3. SendersHold
    BY DEF MessagesInit, SendersHold, RoomRow, Held, Rejoin
  <1>4. LastMessageAtIsNewest /\ RejoinedSeesWhy /\ MarkIsAMessage
    BY <1>2 DEF MessagesInit, LastMessageAtIsNewest, RejoinedSeesWhy, MarkIsAMessage
  <1>5. BadgeCountsOthers
    <2>1. ASSUME NEW u \in Participants PROVE Cardinality(Others(u)) = 0
      BY <1>2, FS_EmptySet DEF Others
    <2> QED
      BY <2>1, BadgeParts DEF MessagesInit
  <1> QED
    BY <1>1, <1>3, <1>4, <1>5 DEF MessagesInv

\* What is counted is finite and no more than there are ids.
LEMMA CountsBounded ==
    ASSUME NEW S \in SUBSET Ids
    PROVE  IsFiniteSet(S) /\ Cardinality(S) \in 0 .. MaxMessages
  <1>1. IsFiniteSet(Ids) /\ Cardinality(Ids) = MaxMessages
    BY FS_Interval DEF Ids
  <1>2. IsFiniteSet(S) /\ Cardinality(S) <= MaxMessages
    BY <1>1, FS_Subset
  <1> QED
    BY <1>2, FS_CardinalityType

\* What a participant is told is unread is some of what the partners sent.
LEMMA UnreadAreOthers ==
    ASSUME NEW u \in Participants
    PROVE  /\ findUnreadCountsByRooms(u) \in 0 .. MaxMessages
           /\ findUnreadCountsByRooms(u) <= Cardinality(Others(u))
  <1> DEFINE Counted ==
                {m \in Sent : /\ findMessageInRoomAfterJoinedAt(u, m)
                                      /\ message[m].sender # u
                                      /\ m > mark[u]}
  <1>1. Others(u) \in SUBSET Ids /\ Counted \in SUBSET Others(u)
    BY DEF Sent, Others
  <1>2. IsFiniteSet(Others(u)) /\ Cardinality(Others(u)) \in Nat
    BY <1>1, CountsBounded
  <1>3. Cardinality(Counted) \in 0 .. MaxMessages
    BY <1>1, CountsBounded
  <1>4. Cardinality(Counted) <= Cardinality(Others(u))
    BY <1>1, <1>2, FS_Subset
  <1>5. findUnreadCountsByRooms(u) \in {0, Cardinality(Counted)}
    BY DEF findUnreadCountsByRooms
  <1> QED
    BY <1>2, <1>3, <1>4, <1>5

\* What is stored.
Data == <<clock, room, nextId, mark, badge>>

\* The type of what is stored.
DataType ==
    /\ clock \in Instants
    /\ present \subseteq Participants
    /\ joinedAt \in [Participants -> 0 .. MaxClock]
    /\ message \in [Ids -> [sender : Participants \cup {Nobody}, at : 0 .. MaxClock]]
    /\ nextId \in 0 .. MaxMessages
    /\ lastMessageAt \in 0 .. MaxClock
    /\ mark \in [Participants -> 0 .. MaxMessages]
    /\ badge \in [Participants -> 0 .. MaxMessages]

\* The type of what is in flight.
ControlType ==
    /\ rowLock \in [Held -> Procs \cup {Nobody}]
    /\ stmt \in [Procs -> States]
    /\ req \in [Procs -> Requests]

\* The type invariant is these two.
LEMMA TypeParts == MessagesTypeOK <=> DataType /\ ControlType
  BY DEF MessagesTypeOK, DataType, ControlType, States, Requests

\* A request that goes on keeps the types, if what it holds next has its type.
LEMMA GotoType ==
    ASSUME ControlType, NEW p \in Procs, NEW s \in States, NEW r \in Requests,
           Proceed(p, s, r), rowLock' \in [Held -> Procs \cup {Nobody}]
    PROVE  ControlType'
  BY DEF ControlType, Proceed

\* The end of a transaction keeps the types.
LEMMA ReleaseType ==
    ASSUME ControlType, NEW p \in Procs, Release(p)
    PROVE  rowLock' \in [Held -> Procs \cup {Nobody}]
  BY DEF ControlType, Release

\* So does taking a lock.
LEMMA HoldType ==
    ASSUME ControlType, NEW p \in Procs, NEW k, Hold(p, k)
    PROVE  rowLock' \in [Held -> Procs \cup {Nobody}]
  BY DEF ControlType, Hold

\* What a request holds when it starts has its type.
LEMMA BlankType ==
    /\ Blank \in Requests
    /\ \A u \in Participants : [Blank EXCEPT !.user = u] \in Requests
    /\ \A u \in Participants, t \in 0 .. MaxClock : [Blank EXCEPT !.user = u, !.at = t] \in Requests
    /\ \A u \in Participants, m \in 0 .. MaxMessages : [Blank EXCEPT !.user = u, !.id = m] \in Requests
    /\ \A u \in Participants, n \in 0 .. MaxMessages : [Blank EXCEPT !.user = u, !.count = n] \in Requests
  <1>0. 0 \in 0 .. MaxClock /\ 0 \in 0 .. MaxMessages
    OBVIOUS
  <1>1. Blank \in Requests
    BY <1>0 DEF Blank, Requests
  <1>2. ASSUME NEW u \in Participants
        PROVE  [Blank EXCEPT !.user = u] \in Requests
    BY <1>1 DEF Requests
  <1>3. ASSUME NEW u \in Participants, NEW t \in 0 .. MaxClock
        PROVE  [Blank EXCEPT !.user = u, !.at = t] \in Requests
    BY <1>1 DEF Requests
  <1>4. ASSUME NEW u \in Participants, NEW m \in 0 .. MaxMessages
        PROVE  /\ [Blank EXCEPT !.user = u, !.id = m] \in Requests
               /\ [Blank EXCEPT !.user = u, !.count = m] \in Requests
    BY <1>1 DEF Requests
  <1> QED
    BY <1>1, <1>2, <1>3, <1>4

\* An answer keeps the types.
LEMMA ReturnType ==
    ASSUME ControlType, NEW p \in Procs, Return(p)
    PROVE  ControlType'
  <1>1. "idle" \in States
    BY DEF States
  <1> QED
    BY <1>1, BlankType, ReleaseType, GotoType DEF Return

\* Every step keeps the types of what is in flight.
LEMMA ControlInv ==
    ASSUME MessagesInv, NEW p \in Procs, Step(p)
    PROVE  ControlType'
  <1>0. /\ ControlType /\ DataType /\ MessagesTypeOK
        /\ rowLock \in [Held -> Procs \cup {Nobody}]
        /\ req[p] \in Requests /\ stmt[p] \in States
        /\ stmt[p] # "idle" => req[p].user \in Participants
    BY TypeParts DEF MessagesInv, ControlType, SendersHold
  <1>1. CASE sendTextMessage(p) \/ ImageTransaction(p)
    <2>1. PICK u \in Participants : Stamped(p, u) \/ Proceed(p, "idle", Blank)
      BY <1>0, <1>1 DEF sendTextMessage, ImageTransaction
    <2>2. clock \in 0 .. MaxClock /\ {"insert", "idle"} \subseteq States
      BY <1>0 DEF DataType, Instants, States
    <2>3. rowLock' = rowLock
      BY <1>1 DEF sendTextMessage, ImageTransaction
    <2> QED
      BY <1>0, <2>1, <2>2, <2>3, BlankType, GotoType DEF Stamped
  <1>2. CASE sendImageMessage(p)
    <2>1. PICK u \in Participants : Proceed(p, "image", [Blank EXCEPT !.user = u])
      BY <1>2 DEF sendImageMessage
    <2>2. rowLock' = rowLock /\ "image" \in States
      BY <1>2 DEF sendImageMessage, States
    <2> QED
      BY <1>0, <2>1, <2>2, BlankType, GotoType
  <1>4. CASE createMessage(p)
    <2>1. nextId + 1 \in 0 .. MaxMessages /\ "lastMessageAt" \in States
      BY <1>0, <1>4 DEF DataType, createMessage, States
    <2>2. [req[p] EXCEPT !.id = nextId + 1] \in Requests
      BY <1>0, <2>1 DEF Requests
    <2> QED
      BY <1>0, <1>4, <2>1, <2>2, GotoType DEF createMessage
  <1>5. CASE finalizeMessageCreation(p)
    <2>1. rowLock' = rowLock \/ Hold(p, RoomRow)
      BY <1>5 DEF finalizeMessageCreation
    <2>2. rowLock' \in [Held -> Procs \cup {Nobody}] /\ "rejoin" \in States
      BY <1>0, <2>1, HoldType DEF States
    <2> QED
      BY <1>0, <1>5, <2>2, GotoType DEF finalizeMessageCreation
  <1>6. CASE rejoinLeftParticipants(p)
    <2>1. {"commit", "rejoinInsert"} \subseteq States
      BY DEF States
    <2> QED
      BY <1>0, <1>6, <2>1, GotoType DEF rejoinLeftParticipants
  <1>7. CASE rejoinInsert(p)
    <2>1. PICK v : \/ Release(p) /\ Proceed(p, "created", req[p])
                   \/ Hold(p, Rejoin(v)) /\ Proceed(p, "commit", req[p])
      BY <1>7 DEF rejoinInsert
    <2>2. rowLock' \in [Held -> Procs \cup {Nobody}] /\ {"created", "commit"} \subseteq States
      BY <1>0, <2>1, HoldType, ReleaseType DEF States
    <2> QED
      BY <1>0, <2>1, <2>2, GotoType
  <1>8. CASE Commit(p)
    <2>1. rowLock' \in [Held -> Procs \cup {Nobody}] /\ "created" \in States
      BY <1>0, <1>8, ReleaseType DEF Commit, States
    <2> QED
      BY <1>0, <1>8, <2>1, GotoType DEF Commit
  <1>9. CASE emitChatMessageCreated(p) \/ getChatRoomList(p)
    <2>1. PICK v \in Participants :
             \/ Proceed(p, "emit", [Blank EXCEPT !.user = v, !.count = findUnreadCountsByRooms(v)])
             \/ Proceed(p, "idle", Blank)
      BY <1>0, <1>9 DEF emitChatMessageCreated, Partners, resolveUnreadPayload,
                        getChatRoomList, DataType
    <2>2. findUnreadCountsByRooms(v) \in 0 .. MaxMessages
      BY <1>0, UnreadAreOthers
    <2>3. rowLock' = rowLock /\ {"emit", "idle"} \subseteq States
      BY <1>9 DEF emitChatMessageCreated, getChatRoomList, States
    <2> QED
      BY <1>0, <2>1, <2>2, <2>3, BlankType, GotoType
  <1>10. CASE EmitUnread(p) \/ Rollback(p) \/ emitChatRoomRead(p)
    BY <1>0, <1>10, ReturnType DEF EmitUnread, Rollback, emitChatRoomRead
  <1>12. CASE leaveTheRoom(p)
    BY <1>0, <1>12 DEF ControlType, leaveTheRoom
  <1>14. CASE markChatRoomAsRead(p)
    <2>1. PICK u \in present, m \in Ids : Proceed(p, "advance", [Blank EXCEPT !.user = u, !.id = m])
      BY <1>14 DEF markChatRoomAsRead
    <2>2. u \in Participants /\ m \in 0 .. MaxMessages /\ "advance" \in States
      BY <1>0, <2>1 DEF DataType, Ids, States
    <2> QED
      BY <1>0, <1>14, <2>1, <2>2, BlankType, GotoType DEF markChatRoomAsRead
  <1>15. CASE advanceReadStatus(p)
    <2>1. "fetch" \in States
      BY DEF States
    <2> QED
      BY <1>0, <1>15, <2>1, GotoType DEF advanceReadStatus
  <1>16. CASE fetchCurrent(p)
    <2>1. mark[req[p].user] \in 0 .. MaxMessages /\ {"createMark", "read"} \subseteq States
      BY <1>0, <1>16 DEF DataType, fetchCurrent, States
    <2>2. [req[p] EXCEPT !.count = mark[req[p].user]] \in Requests
      BY <1>0, <2>1 DEF Requests
    <2> QED
      BY <1>0, <1>16, <2>1, <2>2, GotoType DEF fetchCurrent
  <1>17. CASE createReadStatus(p)
    <2>1. [req[p] EXCEPT !.count = req[p].id] \in Requests /\ {"read", "advance"} \subseteq States
      BY <1>0 DEF Requests, States
    <2>2. \/ Proceed(p, "read", [req[p] EXCEPT !.count = req[p].id])
          \/ Proceed(p, "advance", req[p])
      BY <1>17 DEF createReadStatus
    <2> QED
      BY <1>0, <1>17, <2>1, <2>2, GotoType DEF createReadStatus
  <1> QED
    BY <1>1, <1>2, <1>4, <1>5, <1>6, <1>7, <1>8, <1>9, <1>10, <1>12,
       <1>14, <1>15, <1>16, <1>17 DEF Step

\* Every step keeps the types of what is stored.
LEMMA DataInv ==
    ASSUME MessagesInv, NEW p \in Procs, Step(p)
    PROVE  DataType'
  <1>0. /\ DataType /\ SendersHold
        /\ req[p] \in Requests
        /\ stmt[p] # "idle" => req[p].user \in Participants
    BY TypeParts DEF MessagesInv, ControlType, SendersHold
  <1>1. CASE createMessage(p)
    BY <1>0, <1>1 DEF DataType, createMessage, room
  <1>2. CASE Commit(p)
    <2>1. [sender |-> req[p].user, at |-> req[p].at] \in [sender : Participants \cup {Nobody}, at : 0 .. MaxClock]
      BY <1>0 DEF Requests
    <2>2. message' \in [Ids -> [sender : Participants \cup {Nobody}, at : 0 .. MaxClock]]
      BY <1>0, <1>2, <2>1 DEF DataType, Commit
    <2>3. lastMessageAt' \in 0 .. MaxClock /\ present' \subseteq Participants
      BY <1>0, <1>2 DEF DataType, Commit, Brought, Requests
    <2>4. joinedAt' \in [Participants -> 0 .. MaxClock]
      BY <1>0, <1>2 DEF DataType, Commit, RejoinedAt, Requests
    <2> QED
      BY <1>0, <1>2, <2>2, <2>3, <2>4 DEF DataType, Commit
  <1>3. CASE EmitUnread(p)
    BY <1>0, <1>3 DEF DataType, EmitUnread, room, Requests
  <1>4. CASE emitChatRoomRead(p)
    BY <1>0, <1>4 DEF DataType, emitChatRoomRead, room
  <1>5. CASE leaveTheRoom(p)
    BY <1>0, <1>5 DEF DataType, leaveTheRoom
  <1>6. CASE advanceReadStatus(p)
    BY <1>0, <1>6 DEF DataType, advanceReadStatus, AdvanceMark, room, Requests
  <1>7. CASE createReadStatus(p)
    BY <1>0, <1>7 DEF DataType, createReadStatus, room, Requests
  <1>8. CASE UNCHANGED Data
    BY <1>0, <1>8 DEF DataType, Data, room
  <1> QED
    BY <1>1, <1>2, <1>3, <1>4, <1>5, <1>6, <1>7, <1>8 DEF Step, Data, sendTextMessage,
       sendImageMessage, ImageTransaction, finalizeMessageCreation, rejoinLeftParticipants,
       rejoinInsert, emitChatMessageCreated, Rollback, getChatRoomList, markChatRoomAsRead,
       fetchCurrent

\* Messages are published once and stay; ids and lastMessageAt only grow.
LEMMA Moves ==
    ASSUME MessagesInv, NEW p \in Procs, Step(p)
    PROVE  /\ Sent \subseteq Sent' /\ \A m \in Sent : message'[m] = message[m]
           /\ nextId <= nextId' /\ lastMessageAt <= lastMessageAt'
           /\ \A m \in Ids :
                 message[m] = NoMessage /\ ~(Commit(p) /\ m = req[p].id)
                 => message'[m] = NoMessage
           /\ ~Commit(p) => message' = message /\ lastMessageAt' = lastMessageAt
                            /\ joinedAt' = joinedAt
  <1>0. DataType /\ ControlType /\ SendersHold
    BY TypeParts DEF MessagesInv
  <1>1. CASE Commit(p)
    <2>1. /\ message[req[p].id] = NoMessage
          /\ rowLock[RoomRow] = p => lastMessageAt < req[p].at
      BY <1>0, <1>1 DEF SendersHold, Commit
    <2>2. req[p].id \notin Sent /\ req[p].at \in 0 .. MaxClock
      BY <1>0, <2>1 DEF Sent, NoMessage, ControlType, Requests
    <2>3. \A m \in Ids : m # req[p].id => message'[m] = message[m]
      BY <1>0, <1>1 DEF DataType, Commit
    <2>4. lastMessageAt <= lastMessageAt' /\ nextId' = nextId /\ nextId <= nextId
      BY <1>0, <1>1, <2>1, <2>2 DEF DataType, Commit
    <2>5. \A m \in Sent : m \in Ids /\ message'[m] = message[m]
      BY <2>2, <2>3 DEF Sent
    <2> QED
      BY <1>1, <2>3, <2>4, <2>5 DEF Sent
  <1>2. CASE message' = message /\ lastMessageAt' = lastMessageAt /\ joinedAt' = joinedAt
             /\ nextId <= nextId'
    BY <1>0, <1>2 DEF Sent, DataType
  <1>3. CASE createMessage(p)
    <2>1. nextId <= nextId'
      BY <1>0, <1>3 DEF DataType, createMessage
    <2> QED
      BY <1>2, <1>3, <2>1 DEF createMessage, room
  <1>4. CASE message' = message /\ lastMessageAt' = lastMessageAt /\ joinedAt' = joinedAt
             /\ nextId' = nextId
    BY <1>0, <1>2, <1>4 DEF DataType
  <1> QED
    BY <1>1, <1>3, <1>4 DEF Step, sendTextMessage, sendImageMessage, ImageTransaction,
       finalizeMessageCreation, rejoinLeftParticipants, rejoinInsert,
       emitChatMessageCreated, EmitUnread, Rollback, leaveTheRoom, getChatRoomList,
       markChatRoomAsRead, advanceReadStatus, fetchCurrent, createReadStatus,
       emitChatRoomRead, room

\* A request in another's step stays where it is; a row is locked by its holder or
\* by the one who takes a step.
LEMMA OthersKeep ==
    ASSUME MessagesInv, NEW p \in Procs, Step(p)
    PROVE  /\ \A q \in Procs \ {p} : stmt'[q] = stmt[q] /\ req'[q] = req[q]
           /\ \A k \in Held : /\ rowLock'[k] \in {rowLock[k], Nobody, p}
                              /\ rowLock[k] \notin {Nobody, p} => rowLock'[k] = rowLock[k]
  <1>0. ControlType
    BY TypeParts DEF MessagesInv
  <1>1. ASSUME NEW q \in Procs \ {p} PROVE stmt'[q] = stmt[q] /\ req'[q] = req[q]
    BY <1>0 DEF ControlType, Step, sendTextMessage, sendImageMessage, ImageTransaction,
       Stamped, createMessage, finalizeMessageCreation, rejoinLeftParticipants, rejoinInsert,
       Commit, emitChatMessageCreated, EmitUnread, Rollback, leaveTheRoom, getChatRoomList,
       markChatRoomAsRead, advanceReadStatus, fetchCurrent, createReadStatus,
       emitChatRoomRead, Proceed, Return
  <1>2. ASSUME NEW k \in Held
        PROVE  /\ rowLock'[k] \in {rowLock[k], Nobody, p}
               /\ rowLock[k] \notin {Nobody, p} => rowLock'[k] = rowLock[k]
    <2>1. CASE rowLock' = rowLock \/ Release(p)
      BY <2>1 DEF Release
    <2>2. ASSUME NEW h, Free(p, h), Hold(p, h)
          PROVE  /\ rowLock'[k] \in {rowLock[k], Nobody, p}
                 /\ rowLock[k] \notin {Nobody, p} => rowLock'[k] = rowLock[k]
      BY <1>0, <2>2 DEF ControlType, Free, Hold
    <2>3. CASE finalizeMessageCreation(p)
      BY <2>1, <2>2, <2>3 DEF finalizeMessageCreation
    <2>4. CASE rejoinInsert(p)
      BY <2>1, <2>2, <2>4 DEF rejoinInsert
    <2> QED
      BY <2>1, <2>3, <2>4 DEF Step, sendTextMessage, sendImageMessage, ImageTransaction,
         createMessage, rejoinLeftParticipants, Commit, emitChatMessageCreated, EmitUnread,
         Rollback, leaveTheRoom, getChatRoomList, markChatRoomAsRead, advanceReadStatus,
         fetchCurrent, createReadStatus, emitChatRoomRead, Return
  <1> QED
    BY <1>1, <1>2

\* What a request holds of its message, one request at a time.
SenderHolds(q) ==
    /\ stmt[q] # "idle" => req[q].user \in Participants
    /\ stmt[q] \in {"insert"} \cup Sending => req[q].at \in Instants
    /\ stmt[q] \in Sending =>
         /\ req[q].id \in 1 .. nextId
         /\ message[req[q].id] = NoMessage
         /\ \A o \in Procs \ {q} : stmt[o] \in Sending => req[o].id # req[q].id
    /\ stmt[q] \in Sending \ {"lastMessageAt"} =>
         rowLock[RoomRow] = q \/ req[q].at <= lastMessageAt
    /\ stmt[q] \in {"advance", "fetch", "createMark", "read"} => req[q].id \in Sent

\* Who holds a row.
LocksHeld ==
    /\ \A k \in Held : rowLock[k] # Nobody =>
         stmt[rowLock[k]] \in IF k = RoomRow THEN Sending \ {"lastMessageAt"} ELSE {"commit"}
    /\ rowLock[RoomRow] # Nobody => lastMessageAt < req[rowLock[RoomRow]].at
    /\ \A v \in Participants : rowLock[Rejoin(v)] # Nobody => req[rowLock[Rejoin(v)]].user # v

\* What is said of senders is said of each, and of the locks.
LEMMA SendersParts ==
    SendersHold <=>
        /\ \A m \in Ids : m > nextId => message[m] = NoMessage
        /\ \A q \in Procs : SenderHolds(q)
        /\ LocksHeld
  <1>1. /\ Sending = {"lastMessageAt", "rejoin", "rejoinInsert", "commit"}
        /\ Sending \ {"lastMessageAt"} = {"rejoin", "rejoinInsert", "commit"}
        /\ {"insert"} \cup Sending = {"insert", "lastMessageAt", "rejoin", "rejoinInsert", "commit"}
    BY DEF Sending
  <1> QED
    BY <1>1 DEF SendersHold, SenderHolds, LocksHeld

\* Where a step leads, as far as sending is concerned.
LEMMA OwnMoves ==
    ASSUME MessagesInv, NEW p \in Procs, Step(p)
    PROVE  /\ stmt'[p] \in Sending =>
                \/ createMessage(p)
                \/ stmt[p] \in Sending /\ req'[p] = req[p]
           /\ stmt'[p] \in Sending \ {"lastMessageAt"} =>
                stmt[p] \in Sending \ {"lastMessageAt"} \/ finalizeMessageCreation(p)
           /\ stmt'[p] = "insert" => req'[p].at = clock
           /\ stmt'[p] # "idle" => req'[p].user \in Participants
           /\ stmt'[p] \in {"advance", "fetch", "createMark", "read"} => req'[p].id \in Sent
  <1>0. DataType /\ ControlType /\ SenderHolds(p)
    BY TypeParts, SendersParts DEF MessagesInv
  <1> USE DEF Proceed, Sending, Blank
  <1>1. CASE sendTextMessage(p)
    BY <1>0, <1>1 DEF ControlType, sendTextMessage, Stamped
  <1>2. CASE sendImageMessage(p)
    BY <1>0, <1>2 DEF ControlType, sendImageMessage
  <1>3. CASE ImageTransaction(p)
    <2>1. stmt[p] = "image" /\ req[p].user \in Participants
      BY <1>0, <1>3 DEF ImageTransaction, SenderHolds
    <2>2. CASE Stamped(p, req[p].user)
      BY <1>0, <2>1, <2>2 DEF ControlType, Stamped
    <2>3. CASE Proceed(p, "idle", Blank)
      BY <1>0, <2>3 DEF ControlType
    <2> QED
      BY <1>3, <2>2, <2>3 DEF ImageTransaction
  <1>4. CASE createMessage(p)
    <2>1. /\ req'[p] = [req[p] EXCEPT !.id = nextId + 1] /\ stmt'[p] = "lastMessageAt"
          /\ stmt[p] = "insert"
      BY <1>0, <1>4 DEF ControlType, createMessage
    <2>2. req'[p].user = req[p].user
      BY <1>0, <2>1 DEF ControlType, Requests
    <2> QED
      BY <1>0, <1>4, <2>1, <2>2 DEF SenderHolds
  <1>5. CASE finalizeMessageCreation(p) \/ rejoinLeftParticipants(p) \/ rejoinInsert(p) \/ Commit(p)
    <2>1. /\ req'[p] = req[p] /\ stmt[p] \in Sending
          /\ stmt'[p] \in {"rejoin", "rejoinInsert", "commit", "created"}
          /\ stmt'[p] \in Sending \ {"lastMessageAt"} =>
                stmt[p] \in Sending \ {"lastMessageAt"} \/ finalizeMessageCreation(p)
      BY <1>0, <1>5 DEF ControlType, finalizeMessageCreation, rejoinLeftParticipants,
         rejoinInsert, Commit
    <2> QED
      BY <1>0, <2>1 DEF SenderHolds
  <1>6. CASE emitChatMessageCreated(p) \/ getChatRoomList(p)
    <2>1. \E v \in Participants : \E n :
             \/ Proceed(p, "emit", [Blank EXCEPT !.user = v, !.count = n])
             \/ Proceed(p, "idle", Blank)
      BY <1>0, <1>6 DEF emitChatMessageCreated, Partners, getChatRoomList, DataType
    <2> QED
      BY <1>0, <2>1 DEF ControlType
  <1>7. CASE EmitUnread(p) \/ Rollback(p) \/ emitChatRoomRead(p)
    BY <1>0, <1>7 DEF ControlType, EmitUnread, Rollback, emitChatRoomRead, Return
  <1>8. CASE leaveTheRoom(p)
    BY <1>0, <1>8 DEF leaveTheRoom, SenderHolds
  <1>9. CASE markChatRoomAsRead(p)
    <2>1. PICK u \in present, m \in Ids :
             /\ Proceed(p, "advance", [Blank EXCEPT !.user = u, !.id = m])
             /\ m \in Sent
      BY <1>9 DEF markChatRoomAsRead, findMessageInRoomAfterJoinedAt
    <2> QED
      BY <1>0, <2>1 DEF ControlType, DataType
  <1>10. CASE advanceReadStatus(p)
    BY <1>0, <1>10 DEF ControlType, advanceReadStatus, SenderHolds
  <1>11. CASE fetchCurrent(p) \/ createReadStatus(p)
    <2>1. /\ stmt'[p] \in {"createMark", "read", "advance"} /\ stmt[p] \in {"fetch", "createMark"}
          /\ req'[p].id = req[p].id /\ req'[p].user = req[p].user
      BY <1>0, <1>11 DEF ControlType, Requests, fetchCurrent, createReadStatus
    <2> QED
      BY <1>0, <2>1 DEF SenderHolds
  <1> QED
    BY <1>1, <1>2, <1>3, <1>4, <1>5, <1>6, <1>7, <1>8, <1>9, <1>10, <1>11 DEF Step

\* A lock is held by a request that has yet to commit.
LEMMA LocksInv ==
    ASSUME MessagesInv, NEW p \in Procs, Step(p)
    PROVE  LocksHeld'
  <1>0. /\ DataType /\ ControlType /\ LocksHeld
        /\ \A q \in Procs : SenderHolds(q)
    BY TypeParts, SendersParts DEF MessagesInv
  <1>1. RoomRow \in Held /\ \A v \in Participants : Rejoin(v) \in Held /\ Rejoin(v) # RoomRow
    BY DEF RoomRow, Held, Rejoin
  <1>2. ASSUME NEW k \in Held, rowLock'[k] # Nobody, rowLock'[k] # p
        PROVE  /\ rowLock'[k] = rowLock[k] /\ rowLock[k] \in Procs \ {p}
               /\ stmt'[rowLock[k]] = stmt[rowLock[k]] /\ req'[rowLock[k]] = req[rowLock[k]]
    <2>1. rowLock'[k] = rowLock[k] /\ rowLock[k] \in Procs \ {p}
      BY <1>0, <1>2, OthersKeep DEF ControlType
    <2> QED
      BY <2>1, OthersKeep
  <1>3. ASSUME NEW k \in Held, rowLock'[k] = p
        PROVE  /\ \/ rowLock[k] = p /\ stmt'[p] \in Sending /\ req'[p] = req[p] /\ ~Commit(p)
                  \/ /\ finalizeMessageCreation(p) /\ k = RoomRow /\ IsNewer(p)
                     /\ stmt'[p] = "rejoin" /\ req'[p] = req[p]
                  \/ /\ stmt'[p] = "commit" /\ req'[p] = req[p] /\ rejoinInsert(p)
                     /\ \E v \in Partners(req[p].user) : k = Rejoin(v)
               /\ rowLock[k] = p => stmt'[p] \in
                    IF k = RoomRow THEN Sending \ {"lastMessageAt"} ELSE {"commit"}
    <2>1. rowLock[k] = p => stmt[p] \in IF k = RoomRow THEN Sending \ {"lastMessageAt"} ELSE {"commit"}
      BY <1>0 DEF LocksHeld
    <2>2. ~Release(p)
      BY <1>3 DEF Release
    <2>3. CASE finalizeMessageCreation(p)
      <3>1. stmt[p] = "lastMessageAt" /\ stmt'[p] = "rejoin" /\ req'[p] = req[p]
        BY <1>0, <2>3 DEF finalizeMessageCreation, Proceed, ControlType
      <3>2. rowLock[k] # p
        BY <2>1, <3>1 DEF Sending
      <3>3. IsNewer(p) /\ Hold(p, RoomRow)
        BY <1>3, <2>3, <3>2 DEF finalizeMessageCreation
      <3>4. k = RoomRow
        BY <1>0, <1>3, <3>2, <3>3 DEF Hold, ControlType
      <3> QED
        BY <2>3, <3>1, <3>2, <3>3, <3>4
    <2>4. CASE rejoinInsert(p)
      <3>1. PICK v \in Partners(req[p].user) : Hold(p, Rejoin(v)) /\ Proceed(p, "commit", req[p])
        BY <2>2, <2>4 DEF rejoinInsert
      <3>2. stmt'[p] = "commit" /\ req'[p] = req[p] /\ ~Commit(p)
        BY <1>0, <2>4, <3>1 DEF Proceed, ControlType, rejoinInsert, Commit
      <3>3. rowLock[k] = p \/ k = Rejoin(v)
        BY <1>0, <1>3, <3>1 DEF Hold, ControlType
      <3> QED
        BY <2>4, <3>1, <3>2, <3>3 DEF Sending
    <2>5. CASE rejoinLeftParticipants(p)
      <3>1. /\ rowLock' = rowLock /\ req'[p] = req[p] /\ stmt[p] = "rejoin"
            /\ stmt'[p] \in {"commit", "rejoinInsert"}
        BY <1>0, <2>5 DEF rejoinLeftParticipants, Proceed, ControlType
      <3>2. k = RoomRow /\ rowLock[k] = p
        BY <1>3, <2>1, <3>1
      <3> QED
        BY <3>1, <3>2 DEF Sending, Commit
    <2>6. CASE rowLock' = rowLock /\ stmt[p] \notin Sending \ {"lastMessageAt"}
      BY <1>3, <2>1, <2>6 DEF Sending
    <2> QED
      BY <2>2, <2>3, <2>4, <2>5, <2>6 DEF Step, sendTextMessage, sendImageMessage,
         ImageTransaction, createMessage, Commit, emitChatMessageCreated, EmitUnread,
         Rollback, leaveTheRoom, getChatRoomList, markChatRoomAsRead, advanceReadStatus,
         fetchCurrent, createReadStatus, emitChatRoomRead, Return, Sending
  <1>4. ASSUME NEW k \in Held, rowLock'[k] # Nobody
        PROVE  stmt'[rowLock'[k]] \in IF k = RoomRow THEN Sending \ {"lastMessageAt"} ELSE {"commit"}
    <2>1. CASE rowLock'[k] # p
      BY <1>0, <1>2, <1>4, <2>1 DEF LocksHeld
    <2>2. CASE rowLock'[k] = p
      BY <1>1, <1>3, <2>2 DEF Sending
    <2> QED
      BY <2>1, <2>2
  <1>5. ASSUME rowLock'[RoomRow] # Nobody PROVE lastMessageAt' < req'[rowLock'[RoomRow]].at
    <2>1. CASE rowLock'[RoomRow] # p
      <3>1. /\ rowLock[RoomRow] \in Procs \ {p} /\ rowLock'[RoomRow] = rowLock[RoomRow]
            /\ req'[rowLock[RoomRow]] = req[rowLock[RoomRow]]
            /\ lastMessageAt < req[rowLock[RoomRow]].at
        BY <1>0, <1>1, <1>2, <1>5, <2>1 DEF LocksHeld
      <3>2. lastMessageAt' = lastMessageAt
        <4>1. CASE Commit(p)
          BY <3>1, <4>1 DEF Commit
        <4>2. CASE ~Commit(p)
          BY <4>2, Moves
        <4> QED
          BY <4>1, <4>2
      <3> QED
        BY <3>1, <3>2
    <2>2. CASE rowLock'[RoomRow] = p
      <3>1. \/ rowLock[RoomRow] = p /\ req'[p] = req[p] /\ ~Commit(p)
            \/ finalizeMessageCreation(p) /\ IsNewer(p) /\ req'[p] = req[p]
        BY <1>1, <1>3, <2>2 DEF Partners
      <3>2. ~Commit(p)
        <4>1. finalizeMessageCreation(p) => stmt[p] # "commit"
          BY DEF finalizeMessageCreation
        <4> QED
          BY <3>1, <4>1 DEF Commit
      <3>3. lastMessageAt < req[p].at
        BY <1>0, <1>1, <3>1 DEF LocksHeld, IsNewer
      <3> QED
        BY <2>2, <3>1, <3>2, <3>3, Moves
    <2> QED
      BY <2>1, <2>2
  <1>6. ASSUME NEW v \in Participants, rowLock'[Rejoin(v)] # Nobody PROVE req'[rowLock'[Rejoin(v)]].user # v
    <2>1. CASE rowLock'[Rejoin(v)] # p
      BY <1>0, <1>1, <1>2, <1>6, <2>1 DEF LocksHeld
    <2>2. CASE rowLock'[Rejoin(v)] = p
      <3>1. \/ rowLock[Rejoin(v)] = p /\ req'[p] = req[p]
            \/ req'[p] = req[p] /\ \E w \in Partners(req[p].user) : Rejoin(v) = Rejoin(w)
        BY <1>1, <1>3, <2>2
      <3>2. \A w \in Participants : Rejoin(v) = Rejoin(w) => v = w
        BY DEF Rejoin
      <3> QED
        BY <1>0, <1>1, <2>2, <3>1, <3>2 DEF LocksHeld, Partners
    <2> QED
      BY <2>1, <2>2
  <1> QED
    BY <1>4, <1>5, <1>6 DEF LocksHeld

\* Every step keeps what senders hold.
LEMMA SendersInv ==
    ASSUME MessagesInv, NEW p \in Procs, Step(p)
    PROVE  SendersHold'
  <1>0. /\ DataType /\ ControlType
        /\ \A m \in Ids : m > nextId => message[m] = NoMessage
        /\ \A q \in Procs : SenderHolds(q)
        /\ LocksHeld
    BY TypeParts, SendersParts DEF MessagesInv
  <1>1. DataType' /\ ControlType'
    BY DataInv, ControlInv
  <1>2. ASSUME NEW m \in Ids, m > nextId' PROVE message'[m] = NoMessage
    <2>1. m > nextId /\ message[m] = NoMessage
      BY <1>0, <1>1, <1>2, Moves DEF DataType, Ids
    <2>2. Commit(p) => m # req[p].id
      BY <1>0, <2>1 DEF Commit, SenderHolds, Sending, DataType
    <2> QED
      BY <2>1, <2>2, Moves
  <1>3. ASSUME NEW q \in Procs, stmt'[q] \in Sending
        PROVE  /\ req'[q].id \in 1 .. nextId'
               /\ message'[req'[q].id] = NoMessage
               /\ \A o \in Procs \ {q} : stmt'[o] \in Sending => req'[o].id # req'[q].id
    <2>1. ASSUME NEW o \in Procs, stmt'[o] \in Sending
          PROVE  \/ stmt[o] \in Sending /\ req'[o] = req[o]
                 \/ o = p /\ createMessage(p) /\ req'[o].id = nextId + 1 /\ nextId' = nextId + 1
      <3>1. createMessage(p) => req'[p].id = nextId + 1 /\ nextId' = nextId + 1
        BY <1>0 DEF createMessage, Proceed, ControlType, Requests
      <3> QED
        BY <2>1, <3>1, OthersKeep, OwnMoves
    <2>2. ASSUME NEW o \in Procs, stmt[o] \in Sending
          PROVE  req[o].id \in 1 .. nextId /\ message[req[o].id] = NoMessage /\ req[o].id \in Ids
      BY <1>0, <2>2 DEF SenderHolds, DataType, Ids
    <2>3. CASE stmt[q] \in Sending /\ req'[q] = req[q]
      <3>1. req'[q].id \in 1 .. nextId'
        BY <1>0, <1>1, <2>2, <2>3, Moves DEF DataType
      <3>2. Commit(p) => req[p].id # req[q].id
        <4>1. ASSUME Commit(p) PROVE stmt[p] \in Sending /\ stmt'[p] = "created"
          BY <1>0, <4>1 DEF Commit, Sending, Proceed, ControlType
        <4>2. Commit(p) => q # p
          BY <1>3, <4>1 DEF Sending
        <4> QED
          BY <1>0, <2>3, <4>1, <4>2 DEF SenderHolds
      <3>3. message'[req'[q].id] = NoMessage
        BY <2>2, <2>3, <3>2, Moves
      <3>4. ASSUME NEW o \in Procs \ {q}, stmt'[o] \in Sending PROVE req'[o].id # req'[q].id
        <4>1. CASE stmt[o] \in Sending /\ req'[o] = req[o]
          BY <1>0, <2>3, <4>1 DEF SenderHolds
        <4>2. CASE req'[o].id = nextId + 1
          BY <1>0, <2>2, <2>3, <4>2 DEF DataType
        <4> QED
          BY <2>1, <3>4, <4>1, <4>2
      <3> QED
        BY <3>1, <3>3, <3>4
    <2>4. CASE q = p /\ createMessage(p) /\ req'[q].id = nextId + 1 /\ nextId' = nextId + 1
      <3>1. nextId \in Nat /\ nextId + 1 \in Ids /\ req'[q].id \in 1 .. nextId'
        BY <1>0, <2>4 DEF DataType, createMessage, Ids
      <3>2. message'[req'[q].id] = NoMessage
        <4>1. message' = message
          BY <2>4 DEF createMessage, room
        <4> QED
          BY <1>0, <2>4, <3>1, <4>1
      <3>3. ASSUME NEW o \in Procs \ {q}, stmt'[o] \in Sending PROVE req'[o].id # req'[q].id
        <4>1. stmt[o] \in Sending /\ req'[o] = req[o]
          BY <2>1, <2>4, <3>3
        <4> QED
          BY <2>2, <2>4, <3>1, <4>1
      <3> QED
        BY <3>1, <3>2, <3>3
    <2> QED
      BY <1>3, <2>1, <2>3, <2>4
  <1>4. ASSUME NEW q \in Procs, stmt'[q] \in {"insert"} \cup Sending PROVE req'[q].at \in Instants
    <2>1. CASE q # p
      BY <1>0, <1>4, <2>1, OthersKeep DEF SenderHolds
    <2>2. CASE q = p /\ stmt'[p] = "insert"
      BY <1>0, <2>2, OwnMoves DEF DataType
    <2>3. CASE q = p /\ createMessage(p)
      <3>1. stmt[p] = "insert" /\ req'[p].at = req[p].at
        BY <1>0, <2>3 DEF createMessage, Proceed, ControlType, Requests
      <3> QED
        BY <1>0, <2>3, <3>1 DEF SenderHolds
    <2>4. CASE q = p /\ stmt[p] \in Sending /\ req'[p] = req[p]
      BY <1>0, <2>4 DEF SenderHolds
    <2> QED
      BY <1>4, <2>1, <2>2, <2>3, <2>4, OwnMoves
  <1>5. ASSUME NEW q \in Procs, stmt'[q] \in Sending \ {"lastMessageAt"}
        PROVE  rowLock'[RoomRow] = q \/ req'[q].at <= lastMessageAt'
    <2>1. RoomRow \in Held /\ Nobody \notin Procs
      BY DEF Held
    <2>2. CASE q # p
      <3>1. stmt[q] = stmt'[q] /\ req'[q] = req[q]
        BY <2>2, OthersKeep
      <3>2. rowLock[RoomRow] = q \/ req[q].at <= lastMessageAt
        BY <1>0, <1>5, <3>1 DEF SenderHolds
      <3>3. rowLock[RoomRow] = q => rowLock'[RoomRow] = q
        BY <2>1, <2>2, OthersKeep
      <3>4. req[q].at \in Int /\ lastMessageAt \in Int /\ lastMessageAt' \in Int
        BY <1>0, <1>1 DEF DataType, ControlType, Requests
      <3> QED
        BY <3>1, <3>2, <3>3, <3>4, Moves
    <2>3. CASE q = p /\ finalizeMessageCreation(p)
      <3>1. req'[p] = req[p] /\ lastMessageAt' = lastMessageAt
        BY <1>0, <2>3 DEF finalizeMessageCreation, Proceed, ControlType, room
      <3>2. req[p].at \in Int /\ lastMessageAt \in Int
        BY <1>0 DEF DataType, ControlType, Requests
      <3>3. CASE IsNewer(p)
        BY <1>0, <2>1, <2>3, <3>3 DEF finalizeMessageCreation, Hold, ControlType
      <3>4. CASE ~IsNewer(p)
        BY <2>3, <3>1, <3>2, <3>4 DEF IsNewer
      <3> QED
        BY <3>3, <3>4
    <2>4. CASE q = p /\ ~finalizeMessageCreation(p)
      <3>1. stmt[p] \in Sending \ {"lastMessageAt"} /\ req'[p] = req[p] /\ ~createMessage(p)
        BY <1>5, <2>4, OwnMoves DEF createMessage, Sending
      <3>2. rowLock[RoomRow] = p \/ req[p].at <= lastMessageAt
        BY <1>0, <3>1 DEF SenderHolds
      <3>3. rowLock' = rowLock \/ \E v : Hold(p, Rejoin(v))
        <4>1. CASE rejoinLeftParticipants(p)
          BY <4>1 DEF rejoinLeftParticipants
        <4>2. CASE rejoinInsert(p)
          <5>1. stmt'[p] # "created"
            BY <1>5, <2>4 DEF Sending
          <5> QED
            BY <1>0, <4>2, <5>1 DEF rejoinInsert, Proceed, ControlType
        <4>3. CASE Commit(p) \/ Rollback(p)
          BY <1>0, <1>5, <2>4, <4>3 DEF Commit, Rollback, Return, Proceed, ControlType, Sending
        <4>4. rejoinLeftParticipants(p) \/ rejoinInsert(p) \/ Commit(p) \/ Rollback(p)
          BY <2>4, <3>1 DEF Step, sendTextMessage, sendImageMessage, ImageTransaction,
             emitChatMessageCreated, EmitUnread, leaveTheRoom, getChatRoomList,
             markChatRoomAsRead, advanceReadStatus, fetchCurrent, createReadStatus,
             emitChatRoomRead, Sending
        <4> QED
          BY <4>1, <4>2, <4>3, <4>4
      <3>4. ~Commit(p)
        BY <1>0, <1>5, <2>4 DEF Commit, Proceed, ControlType, Sending
      <3>5. rowLock[RoomRow] = p => rowLock'[RoomRow] = p
        BY <1>0, <2>1, <3>3 DEF Hold, ControlType
      <3> QED
        BY <2>4, <3>1, <3>2, <3>4, <3>5, Moves
    <2> QED
      BY <2>2, <2>3, <2>4
  <1>6. ASSUME NEW q \in Procs
        PROVE  /\ stmt'[q] # "idle" => req'[q].user \in Participants
               /\ stmt'[q] \in {"advance", "fetch", "createMark", "read"} => req'[q].id \in Sent'
    <2>1. CASE q # p
      BY <1>0, <2>1, OthersKeep, Moves DEF SenderHolds
    <2>2. CASE q = p
      BY <2>2, OwnMoves, Moves
    <2> QED
      BY <2>1, <2>2
  <1>7. \A q \in Procs : SenderHolds(q)'
    BY <1>3, <1>4, <1>5, <1>6 DEF SenderHolds
  <1>8. LocksHeld'
    BY LocksInv
  <1> QED
    BY <1>2, <1>7, <1>8 DEF SendersHold, SenderHolds, LocksHeld, Sending

\* What a commit publishes.
LEMMA CommitPublishes ==
    ASSUME MessagesInv, NEW p \in Procs, Commit(p)
    PROVE  /\ req[p].id \in Ids /\ req[p].user \in Participants /\ req[p].at \in Instants
           /\ Sent' = Sent \cup {req[p].id}
           /\ message'[req[p].id].sender = req[p].user
           /\ message'[req[p].id].at = req[p].at
           /\ \A m \in Sent : message'[m] = message[m]
           /\ rowLock[RoomRow] = p => lastMessageAt < req[p].at /\ lastMessageAt' = req[p].at
           /\ rowLock[RoomRow] # p => req[p].at <= lastMessageAt /\ lastMessageAt' = lastMessageAt
  <1>0. DataType /\ ControlType /\ SenderHolds(p) /\ LocksHeld /\ stmt[p] = "commit"
    BY TypeParts, SendersParts DEF MessagesInv, Commit
  <1>1. /\ req[p].id \in Ids /\ req[p].user \in Participants /\ req[p].at \in Instants
        /\ message[req[p].id] = NoMessage
        /\ rowLock[RoomRow] # p => req[p].at <= lastMessageAt
    BY <1>0 DEF SenderHolds, Sending, DataType, Ids
  <1>2. rowLock[RoomRow] = p => lastMessageAt < req[p].at
    BY <1>0 DEF LocksHeld
  <1>3. /\ message'[req[p].id] = [sender |-> req[p].user, at |-> req[p].at]
        /\ \A m \in Ids \ {req[p].id} : message'[m] = message[m]
    BY <1>0, <1>1 DEF Commit, DataType
  <1>4. Sent' = Sent \cup {req[p].id}
    BY <1>1, <1>3 DEF Sent
  <1>5. req[p].id \notin Sent
    BY <1>1 DEF Sent, NoMessage
  <1>6. \A m \in Sent : message'[m] = message[m]
    BY <1>3, <1>5 DEF Sent
  <1> QED
    BY <1>1, <1>2, <1>3, <1>4, <1>6 DEF Commit

\* Every step keeps the room's time that of its newest message.
LEMMA NewestInv ==
    ASSUME MessagesInv, NEW p \in Procs, Step(p)
    PROVE  LastMessageAtIsNewest'
  <1>0. DataType /\ LastMessageAtIsNewest
    BY TypeParts DEF MessagesInv
  <1>1. CASE Commit(p)
    <2>1. /\ Sent' = Sent \cup {req[p].id}
          /\ message'[req[p].id].at = req[p].at /\ req[p].at \in Nat
          /\ \A m \in Sent : message'[m] = message[m] /\ message[m].at \in Nat
      BY <1>0, <1>1, CommitPublishes DEF Instants, DataType, Sent
    <2>2. lastMessageAt \in Nat
      BY <1>0 DEF DataType
    <2>3. CASE rowLock[RoomRow] = p
      <3>1. lastMessageAt < req[p].at /\ lastMessageAt' = req[p].at
        BY <1>1, <2>3, CommitPublishes
      <3>2. \A m \in Sent' : message'[m].at <= lastMessageAt'
        BY <1>0, <2>1, <2>2, <3>1 DEF LastMessageAtIsNewest
      <3> QED
        BY <2>1, <3>1, <3>2 DEF LastMessageAtIsNewest
    <2>4. CASE rowLock[RoomRow] # p
      <3>1. req[p].at <= lastMessageAt /\ lastMessageAt' = lastMessageAt
        BY <1>1, <2>4, CommitPublishes
      <3> QED
        BY <1>0, <2>1, <3>1 DEF LastMessageAtIsNewest
    <2> QED
      BY <2>3, <2>4
  <1>2. CASE ~Commit(p)
    BY <1>0, <1>2, Moves DEF LastMessageAtIsNewest, Sent
  <1> QED
    BY <1>1, <1>2

\* Every step keeps a reason in sight of whoever was brought back.
LEMMA RejoinedInv ==
    ASSUME MessagesInv, NEW p \in Procs, Step(p)
    PROVE  RejoinedSeesWhy'
  <1>0. DataType /\ ControlType /\ RejoinedSeesWhy /\ LocksHeld
    BY TypeParts, SendersParts DEF MessagesInv
  <1>1. SUFFICES ASSUME NEW v \in Participants, joinedAt'[v] # 0
                 PROVE  \E m \in Sent' : message'[m].sender # v /\ message'[m].at >= joinedAt'[v]
    BY DEF RejoinedSeesWhy, findMessageInRoomAfterJoinedAt
  <1>2. CASE joinedAt'[v] = joinedAt[v]
    <2>1. PICK m \in Sent : message[m].sender # v /\ message[m].at >= joinedAt[v]
      BY <1>0, <1>1, <1>2 DEF RejoinedSeesWhy, findMessageInRoomAfterJoinedAt
    <2>2. m \in Sent' /\ message'[m] = message[m]
      BY Moves
    <2> QED
      BY <1>2, <2>1, <2>2
  <1>3. CASE Commit(p) /\ v \in Brought(p)
    <2>1. rowLock[Rejoin(v)] = p /\ p # Nobody
      BY <1>3 DEF Brought
    <2>2. req[p].user # v
      BY <1>0, <2>1 DEF LocksHeld
    <2>3. joinedAt'[v] = req[p].at
      BY <1>3 DEF Commit, RejoinedAt
    <2>4. /\ req[p].id \in Sent' /\ message'[req[p].id].sender = req[p].user
          /\ message'[req[p].id].at = req[p].at /\ req[p].at \in Nat
      BY <1>3, CommitPublishes DEF Instants
    <2> QED
      BY <2>2, <2>3, <2>4
  <1>4. CASE Commit(p) /\ v \notin Brought(p)
    BY <1>2, <1>4 DEF Commit
  <1>5. CASE ~Commit(p)
    BY <1>2, <1>5, Moves
  <1> QED
    BY <1>3, <1>4, <1>5

\* How a mark moves, and what an answer says of it.
LEMMA MarkMoves ==
    ASSUME MessagesInv, NEW p \in Procs, Step(p)
    PROVE  /\ \A u \in Participants :
                /\ mark[u] <= mark'[u]
                /\ mark'[u] \in {mark[u], req[p].id}
                /\ mark'[u] # mark[u] => req[p].id \in Sent
           /\ stmt'[p] = "read" => req'[p].count \in 1 .. mark'[req'[p].user]
  <1>0. /\ DataType /\ ControlType /\ SenderHolds(p)
        /\ req[p] \in Requests
    BY TypeParts, SendersParts DEF MessagesInv, ControlType
  <1>1. CASE advanceReadStatus(p)
    <2>1. req[p].user \in Participants /\ req[p].id \in Sent
      BY <1>0, <1>1 DEF advanceReadStatus, SenderHolds
    <2>2. \A u \in Participants : mark'[u] = IF u = req[p].user /\ Forward(p) THEN req[p].id ELSE mark[u]
      BY <1>0, <1>1 DEF advanceReadStatus, AdvanceMark, DataType
    <2>3. Forward(p) => mark[req[p].user] < req[p].id
      BY DEF Forward
    <2>4. stmt'[p] = "fetch"
      BY <1>0, <1>1 DEF advanceReadStatus, Proceed, ControlType
    <2>5. \A u \in Participants : mark[u] \in Int /\ req[p].id \in Int
      BY <1>0 DEF DataType, Requests
    <2> QED
      BY <2>1, <2>2, <2>3, <2>4, <2>5
  <1>2. CASE createReadStatus(p)
    <2>1. req[p].user \in Participants /\ req[p].id \in Sent
      BY <1>0, <1>2 DEF createReadStatus, SenderHolds
    <2>2. \A u \in Participants : mark[u] \in Int /\ req[p].id \in Nat \ {0}
      BY <1>0, <2>1 DEF DataType, Sent, Ids
    <2>3. CASE mark[req[p].user] = 0
      <3>1. mark' = [mark EXCEPT ![req[p].user] = req[p].id]
        BY <1>2, <2>3 DEF createReadStatus
      <3>2. /\ mark'[req[p].user] = req[p].id
            /\ \A u \in Participants \ {req[p].user} : mark'[u] = mark[u]
        BY <1>0, <2>1, <3>1 DEF DataType
      <3>3. req'[p].count = req[p].id /\ req'[p].user = req[p].user
        BY <1>0, <1>2, <2>3 DEF createReadStatus, Proceed, ControlType, Requests
      <3> QED
        BY <2>1, <2>2, <2>3, <3>2, <3>3
    <2>4. CASE mark[req[p].user] # 0
      <3>1. mark' = mark /\ stmt'[p] = "advance"
        BY <1>0, <1>2, <2>4 DEF createReadStatus, Proceed, ControlType
      <3> QED
        BY <2>2, <3>1
    <2> QED
      BY <2>3, <2>4
  <1>3. CASE fetchCurrent(p)
    <2>1. mark' = mark /\ \A u \in Participants : mark[u] \in Nat
      BY <1>0, <1>3 DEF fetchCurrent, DataType
    <2>2. /\ req'[p].count = mark[req[p].user] /\ req'[p].user = req[p].user
          /\ stmt'[p] = "read" => mark[req[p].user] # 0
      BY <1>0, <1>3 DEF fetchCurrent, Proceed, ControlType, Requests
    <2>3. req[p].user \in Participants
      BY <1>0, <1>3 DEF fetchCurrent, SenderHolds
    <2> QED
      BY <2>1, <2>2, <2>3
  <1>4. CASE mark' = mark /\ stmt'[p] # "read"
    BY <1>0, <1>4 DEF DataType
  <1>5. CASE mark' = mark /\ ~(fetchCurrent(p) \/ createReadStatus(p) \/ advanceReadStatus(p))
    <2>1. stmt'[p] # "read"
      BY <1>0, <1>5 DEF ControlType, Step, sendTextMessage, sendImageMessage, ImageTransaction,
         Stamped, createMessage, finalizeMessageCreation, rejoinLeftParticipants, rejoinInsert,
         Commit, emitChatMessageCreated, EmitUnread, Rollback, leaveTheRoom,
         getChatRoomList, markChatRoomAsRead, emitChatRoomRead, Proceed, Return
    <2> QED
      BY <1>4, <1>5, <2>1
  <1> QED
    BY <1>1, <1>2, <1>3, <1>5 DEF Step, sendTextMessage, sendImageMessage, ImageTransaction,
       createMessage, finalizeMessageCreation, rejoinLeftParticipants, rejoinInsert, Commit,
       emitChatMessageCreated, EmitUnread, Rollback, leaveTheRoom, getChatRoomList,
       markChatRoomAsRead, emitChatRoomRead

\* A read mark is always a stored message.
LEMMA MarkInv ==
    ASSUME MessagesInv, NEW p \in Procs, Step(p)
    PROVE  MarkIsAMessage'
  <1>0. /\ DataType /\ DataType' /\ ControlType /\ MarkIsAMessage
        /\ \A q \in Procs : SenderHolds(q)
    BY TypeParts, SendersParts, DataInv DEF MessagesInv
  <1>1. ASSUME NEW u \in Participants, mark'[u] # 0 PROVE mark'[u] \in Sent'
    <2>1. mark'[u] \in Sent
      BY <1>0, <1>1, MarkMoves DEF MarkIsAMessage
    <2> QED
      BY <2>1, Moves
  <1>2. ASSUME NEW q \in Procs, stmt'[q] = "read"
        PROVE  req'[q].count \in 1 .. mark'[req'[q].user]
    <2>1. CASE q = p
      BY <1>2, <2>1, MarkMoves
    <2>2. CASE q # p
      <3>1. stmt[q] = "read" /\ req'[q] = req[q] /\ req[q].user \in Participants
        BY <1>0, <1>2, <2>2, OthersKeep DEF SenderHolds
      <3>2. req[q].count \in 1 .. mark[req[q].user] /\ mark[req[q].user] <= mark'[req[q].user]
        BY <1>0, <3>1, MarkMoves DEF MarkIsAMessage
      <3>3. mark[req[q].user] \in Int /\ mark'[req[q].user] \in Int
        BY <1>0, <3>1 DEF DataType
      <3> QED
        BY <3>1, <3>2, <3>3
    <2> QED
      BY <2>1, <2>2
  <1> QED
    BY <1>1, <1>2 DEF MarkIsAMessage

\* The partners of a participant have sent no fewer messages after a step.
LEMMA OthersGrow ==
    ASSUME MessagesInv, NEW p \in Procs, Step(p), NEW u \in Participants
    PROVE  /\ Cardinality(Others(u)) \in Nat /\ Cardinality(Others(u)') \in Nat
           /\ Cardinality(Others(u)) <= Cardinality(Others(u)')
  <1>1. Others(u) \in SUBSET Ids /\ Others(u)' \in SUBSET Ids
    BY DEF Others, Sent
  <1>2. Others(u) \in SUBSET Others(u)'
    BY Moves DEF Others
  <1>3. /\ IsFiniteSet(Others(u)') /\ Cardinality(Others(u)) \in Nat
        /\ Cardinality(Others(u)') \in Nat
    BY <1>1, CountsBounded
  <1> QED
    BY <1>2, <1>3, FS_Subset

\* A badge counts what others sent.
LEMMA BadgeInv ==
    ASSUME MessagesInv, NEW p \in Procs, Step(p)
    PROVE  BadgeCountsOthers'
  <1>0. /\ DataType /\ DataType' /\ ControlType /\ ControlType'
        /\ \A u \in Participants : badge[u] <= Cardinality(Others(u))
        /\ \A q \in Procs : stmt[q] = "emit" => req[q].count <= Cardinality(Others(req[q].user))
        /\ \A q \in Procs : SenderHolds(q)
    BY TypeParts, SendersParts, BadgeParts, DataInv, ControlInv DEF MessagesInv
  <1>1. ASSUME NEW u \in Participants PROVE badge'[u] <= Cardinality(Others(u)')
    <2>0. /\ Cardinality(Others(u)) \in Nat /\ Cardinality(Others(u)') \in Nat
          /\ Cardinality(Others(u)) <= Cardinality(Others(u)')
      BY OthersGrow
    <2>1. badge[u] \in Nat /\ badge'[u] \in Nat
      BY <1>0 DEF DataType
    <2>2. CASE EmitUnread(p)
      <3>1. /\ req[p].count <= Cardinality(Others(req[p].user)) /\ req[p].count \in Nat
            /\ req[p].user \in Participants
        BY <1>0, <2>2 DEF EmitUnread, ControlType, Requests, SenderHolds
      <3>2. badge'[u] \in {badge[u], req[p].count}
            /\ (badge'[u] # badge[u] => u = req[p].user)
        BY <1>0, <2>2 DEF EmitUnread, DataType
      <3>3. badge'[u] <= Cardinality(Others(u))
        BY <1>0, <3>1, <3>2
      <3> QED
        BY <2>0, <2>1, <3>3
    <2>3. CASE emitChatRoomRead(p)
      <3>1. badge'[u] \in {0, badge[u]}
        BY <1>0, <2>3 DEF emitChatRoomRead, DataType
      <3> QED
        BY <1>0, <2>0, <2>1, <3>1
    <2>4. CASE badge' = badge
      BY <1>0, <2>0, <2>1, <2>4
    <2> QED
      BY <2>2, <2>3, <2>4 DEF Step, sendTextMessage, sendImageMessage, ImageTransaction,
         createMessage, finalizeMessageCreation, rejoinLeftParticipants, rejoinInsert, Commit,
         emitChatMessageCreated, Rollback, leaveTheRoom, getChatRoomList,
         markChatRoomAsRead, advanceReadStatus, fetchCurrent, createReadStatus
  <1>2. ASSUME NEW q \in Procs, stmt'[q] = "emit"
        PROVE  (req[q].count <= Cardinality(Others(req[q].user)))'
    <2>1. PICK u \in Participants :
             /\ u = req'[q].user /\ req'[q].count \in Nat
             /\ req'[q].count <= Cardinality(Others(u))
      <3>1. CASE q # p
        BY <1>0, <1>2, <3>1, OthersKeep DEF SenderHolds, ControlType, Requests
      <3>2. CASE q = p /\ (emitChatMessageCreated(p) \/ getChatRoomList(p))
        <4>1. PICK v \in Participants :
                 \/ Proceed(p, "emit", [Blank EXCEPT !.user = v, !.count = findUnreadCountsByRooms(v)])
                 \/ Proceed(p, "idle", Blank)
          BY <1>0, <3>2 DEF emitChatMessageCreated, Partners, resolveUnreadPayload,
                            getChatRoomList, DataType
        <4>2. /\ findUnreadCountsByRooms(v) \in 0 .. MaxMessages
              /\ findUnreadCountsByRooms(v) <= Cardinality(Others(v))
          BY UnreadAreOthers
        <4>3. req'[p] = [Blank EXCEPT !.user = v, !.count = findUnreadCountsByRooms(v)]
          BY <1>0, <1>2, <3>2, <4>1 DEF Proceed, ControlType
        <4>4. req'[p].user = v /\ req'[p].count = findUnreadCountsByRooms(v)
          BY <4>3 DEF Blank
        <4> QED
          BY <3>2, <4>2, <4>4
      <3>3. CASE q = p /\ leaveTheRoom(p)
        BY <1>2, <3>3 DEF leaveTheRoom
      <3>4. CASE q = p /\ ~(emitChatMessageCreated(p) \/ getChatRoomList(p) \/ leaveTheRoom(p))
        <4>1. stmt'[p] # "emit"
          BY <1>0, <3>4 DEF ControlType, Step, sendTextMessage, sendImageMessage, ImageTransaction,
             Stamped, createMessage, finalizeMessageCreation, rejoinLeftParticipants,
             rejoinInsert, Commit, EmitUnread, Rollback, markChatRoomAsRead,
             advanceReadStatus, fetchCurrent, createReadStatus, emitChatRoomRead, Proceed, Return
        <4> QED
          BY <1>2, <3>4, <4>1
      <3> QED
        BY <3>1, <3>2, <3>3, <3>4
    <2>2. /\ Cardinality(Others(u)) \in Nat /\ Cardinality(Others(u)') \in Nat
          /\ Cardinality(Others(u)) <= Cardinality(Others(u)')
      BY OthersGrow
    <2>3. req'[q].count <= Cardinality(Others(u)')
      BY <2>1, <2>2
    <2>4. Others(u)' = {m \in Sent' : message'[m].sender # req'[q].user}
      BY <2>1 DEF Others
    <2>5. req'[q].count <= Cardinality({m \in Sent' : message'[m].sender # req'[q].user})
      BY <2>3, <2>4
    <2> QED
      BY <2>5 DEF Others
  <1>3. (/\ \A u \in Participants : badge[u] <= Cardinality(Others(u))
         /\ \A q \in Procs : stmt[q] = "emit" => req[q].count <= Cardinality(Others(req[q].user)))'
    BY <1>1, <1>2
  <1> QED
    BY <1>3 DEF BadgeCountsOthers, Others

\* The steps that belong to no request.
LEMMA SocketInv ==
    ASSUME MessagesInv, JoinSocketRoom
    PROVE  MessagesInv'
  <1>0. /\ DataType /\ ControlType
        /\ \A u \in Participants : badge[u] <= Cardinality(Others(u))
        /\ \A q \in Procs : stmt[q] = "emit" => req[q].count <= Cardinality(Others(req[q].user))
    BY TypeParts, BadgeParts DEF MessagesInv
  <1>1. PICK u \in Participants : badge' = [badge EXCEPT ![u] = 0]
    BY <1>0 DEF JoinSocketRoom, DataType
  <1>2. UNCHANGED <<clock, room, nextId, mark, rowLock, stmt, req>>
    BY DEF JoinSocketRoom
  <1>3. MessagesTypeOK'
    BY <1>0, <1>1, <1>2 DEF DataType, ControlType, MessagesTypeOK, room, States, Requests
  <1>4. SendersHold' /\ LastMessageAtIsNewest' /\ RejoinedSeesWhy' /\ MarkIsAMessage'
    BY <1>2 DEF MessagesInv, SendersHold, LastMessageAtIsNewest, RejoinedSeesWhy, MarkIsAMessage,
                findMessageInRoomAfterJoinedAt, Sent, room
  <1>5. BadgeCountsOthers'
    <2>1. ASSUME NEW v \in Participants PROVE badge'[v] <= Cardinality(Others(v)')
      <3>1. Others(v)' = Others(v)
        BY <1>2 DEF Others, Sent, room
      <3>2. Cardinality(Others(v)) \in Nat
        <4>1. Others(v) \in SUBSET Ids
          BY DEF Others, Sent
        <4> QED
          BY <4>1, CountsBounded
      <3>3. badge'[v] \in {0, badge[v]}
        BY <1>0, <1>1 DEF DataType
      <3> QED
        BY <1>0, <3>1, <3>2, <3>3
    <2>2. ASSUME NEW q \in Procs, stmt'[q] = "emit"
          PROVE  (req[q].count <= Cardinality(Others(req[q].user)))'
      BY <1>0, <1>2, <2>2 DEF Others, Sent, room
    <2>3. (/\ \A v \in Participants : badge[v] <= Cardinality(Others(v))
           /\ \A q \in Procs : stmt[q] = "emit" => req[q].count <= Cardinality(Others(req[q].user)))'
      BY <2>1, <2>2
    <2> QED
      BY <2>3 DEF BadgeCountsOthers, Others
  <1> QED
    BY <1>3, <1>4, <1>5 DEF MessagesInv

\* The clock keeps the invariant.
LEMMA TickInv ==
    ASSUME MessagesInv, Tick \/ UNCHANGED messagesVars
    PROVE  MessagesInv'
  <1>1. UNCHANGED <<room, nextId, mark, badge, rowLock, stmt, req>> /\ (clock' = clock \/ Tick)
    BY DEF Tick, messagesVars
  <1>2. MessagesTypeOK'
    BY <1>1 DEF MessagesInv, MessagesTypeOK, Tick, Instants, room
  <1>3. SendersHold' /\ LastMessageAtIsNewest' /\ RejoinedSeesWhy' /\ MarkIsAMessage'
    BY <1>1 DEF MessagesInv, SendersHold, LastMessageAtIsNewest, RejoinedSeesWhy, MarkIsAMessage,
                findMessageInRoomAfterJoinedAt, Sent, room
  <1>4. BadgeCountsOthers'
    BY <1>1 DEF MessagesInv, BadgeCountsOthers, Sent, room
  <1> QED
    BY <1>2, <1>3, <1>4 DEF MessagesInv

\* The invariant is inductive.
LEMMA InvStep == MessagesInv /\ [MessagesNext]_messagesVars => MessagesInv'
  <1> SUFFICES ASSUME MessagesInv, [MessagesNext]_messagesVars PROVE MessagesInv'
    OBVIOUS
  <1>1. ASSUME NEW p \in Procs, Step(p) PROVE MessagesInv'
    <2>1. MessagesTypeOK'
      BY <1>1, DataInv, ControlInv DEF MessagesTypeOK, DataType, ControlType, States, Requests
    <2> QED
      BY <1>1, <2>1, SendersInv, NewestInv, RejoinedInv, MarkInv, BadgeInv DEF MessagesInv
  <1> QED
    BY <1>1, SocketInv, TickInv DEF MessagesNext

\* The invariant holds for any participants, requests, messages and instants.
THEOREM InvHolds == MessagesSpec => []MessagesInv
  BY InitInv, InvStep, PTL DEF MessagesSpec

\* The room's last_message_at is the time of the newest stored message, in
\* whatever order the senders commit, for any number of them.
THEOREM LastMessageAtHolds == MessagesSpec => []LastMessageAtIsNewest
  <1>1. MessagesInv => LastMessageAtIsNewest
    BY DEF MessagesInv
  <1> QED
    BY <1>1, InvHolds, PTL

\* Whoever was brought back sees a message of a partner that brought them back.
THEOREM RejoinedSees == MessagesSpec => []RejoinedSeesWhy
  <1>1. MessagesInv => RejoinedSeesWhy
    BY DEF MessagesInv
  <1> QED
    BY <1>1, InvHolds, PTL

\* No step takes a read mark back, however many devices read at once.
THEOREM ReadMarksGrow == MessagesSpec => ReadMarkForward
  <1>1. MessagesInv /\ [MessagesNext]_messagesVars => [\A u \in Participants : mark[u] <= mark'[u]]_messagesVars
    <2> SUFFICES ASSUME MessagesInv, MessagesNext PROVE \A u \in Participants : mark[u] <= mark'[u]
      OBVIOUS
    <2>1. ASSUME NEW p \in Procs, Step(p) PROVE \A u \in Participants : mark[u] <= mark'[u]
      BY <2>1, MarkMoves
    <2>2. ASSUME mark' = mark PROVE \A u \in Participants : mark[u] <= mark'[u]
      BY <2>2 DEF MessagesInv, MessagesTypeOK
    <2> QED
      BY <2>1, <2>2 DEF MessagesNext, JoinSocketRoom, Tick
  <1> QED
    BY <1>1, InvHolds, PTL DEF MessagesSpec, ReadMarkForward
=============================================================================
