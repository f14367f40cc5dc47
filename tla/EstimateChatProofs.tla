------------------------- MODULE EstimateChatProofs -------------------------
(***************************************************************************)
(* Proofs about EstimateChat, for every set of rooms, handlers and bodies. *)
(* The argument: whoever inserts a room has looked for one under the lock, *)
(* and while the lock is held nobody else inserts; a room the lookup       *)
(* passed over had been left, and that never changes back.                 *)
(***************************************************************************)
EXTENDS EstimateChat, TLAPS

USE NoneIsNull, BodiesAreBodies

\* Where the bodies lead: every call has a kind, and the fields of its kind.
LEMMA CallKinds ==
    ASSUME NEW c \in Calls
    PROVE  /\ c.kind \in {"create", "quote", "designate", "send"}
           /\ c.kind = "create" => /\ c.roomType \in RoomTypes
                                   /\ c.designatedMoverId \in BOOLEAN
                                   /\ c.quoteId \in BOOLEAN
           /\ c.kind = "quote" => c.as \in {"PENDING", "REJECTED", "CONFIRMED"}
           /\ c.kind = "send" => c.user \in Users /\ c.room \in Rooms
  BY DEF Calls, CreateBodies

LEMMA InitInv == Init => Inv
  <1> SUFFICES ASSUME Init PROVE Inv
    OBVIOUS
  <1>1. TypeOK
    BY DEF Init, TypeOK
  <1>2. CallsFit /\ LockDiscipline
    BY DEF Init, CallsFit, LockDiscipline, Is
  <1>3. ColumnsAgree /\ ReadsHold /\ AwayHaveLeft /\ SecondRoomAfterLeaving
    BY DEF Init, ColumnsAgree, ReadsHold, AwayHaveLeft, SecondRoomAfterLeaving,
           Exists
  <1> QED
    BY <1>1, <1>2, <1>3 DEF Inv

\* A handler that ends leaves everybody else where they are.
LEMMA FinishInv ==
    ASSUME Inv, NEW h \in Handlers, Finish(h),
           UNCHANGED <<request, columns, members>>
    PROVE  Inv'
  <1>1. TypeOK'
    BY DEF Inv, TypeOK, Finish, Goto, request, columns, members
  <1>2. CallsFit'
    BY DEF Inv, TypeOK, CallsFit, Is, Finish, Goto, request, columns, members
  <1>3. LockDiscipline'
    BY DEF Inv, TypeOK, LockDiscipline, Is, Finish, Goto, request
  <1>4. ReadsHold'
    BY DEF Inv, TypeOK, ReadsHold, Finish, Goto, columns, members, Exists
  <1> QED
    BY <1>1, <1>2, <1>3, <1>4
    DEF Inv, ColumnsAgree, AwayHaveLeft, SecondRoomAfterLeaving, Exists,
        request, columns, members

\* Where a call enters, its ids have been checked; nothing else changes.
LEMMA BeginInv ==
    ASSUME Inv, NEW h \in Handlers, NEW c \in Calls, Begin(h, c)
    PROVE  Inv'
  <1>1. /\ pc[h] = "idle" /\ call' = [call EXCEPT ![h] = c]
        /\ UNCHANGED <<request, columns, members, lock, found>>
    BY DEF Begin
  <1>2. PICK next \in {"lock", "byMover", "byQuote", "byPair", "member"} :
           /\ pc' = [pc EXCEPT ![h] = next]
           /\ c.kind = "create" =>
                 /\ next \in {"byMover", "byQuote", "byPair"}
                 /\ c.designatedMoverId => designated
                 /\ c.quoteId => quote # "NONE"
                 /\ c.roomType = "DESIGNATED" => c.designatedMoverId
           /\ c.kind = "quote" => next = "lock"
           /\ c.kind = "designate" => next = "lock" \/ (next = "byPair" /\ designated)
           /\ c.kind = "send" => next = "member"
    BY DEF Begin, BeginCreate, BeginQuote, BeginDesignate, findRoomForMessaging,
           Goto
  <1>3. c.kind \in {"create", "quote", "designate", "send"} /\ c # None
    BY CallKinds
  <1>4. lock # h /\ found[h] = None
    BY <1>1 DEF Inv, LockDiscipline, ReadsHold
  <1>5. TypeOK'
    BY <1>1, <1>2 DEF Inv, TypeOK, request, columns, members
  <1>6. CallsFit'
    BY <1>1, <1>2, <1>3 DEF Inv, TypeOK, CallsFit, Is, request
  <1>7. LockDiscipline'
    BY <1>1, <1>2, <1>3, <1>4 DEF Inv, TypeOK, LockDiscipline, Is, request
  <1>8. ReadsHold'
    BY <1>1, <1>2, <1>4 DEF Inv, TypeOK, ReadsHold, Exists, columns, members
  <1> QED
    BY <1>1, <1>5, <1>6, <1>7, <1>8
    DEF Inv, ColumnsAgree, AwayHaveLeft, SecondRoomAfterLeaving, Exists,
        request, columns, members

\* Taking the lock: nobody had it.
LEMMA LockInv ==
    ASSUME Inv, NEW h \in Handlers, Lock(h)
    PROVE  Inv'
  <1>1. CASE Finish(h) /\ UNCHANGED <<request, columns, members>>
    BY <1>1, FinishInv
  <1>2. CASE /\ pc[h] = "lock" /\ lock = None
             /\ \E next \in {"byMover", "byQuote", "byPair"} :
                   /\ pc' = [pc EXCEPT ![h] = next]
                   /\ next # "byPair" => Is(h, "create")
             /\ lock' = h \/ (lock' = lock /\ Is(h, "designate") /\ designated)
             /\ Is(h, "create") => isMessagingAllowedByEstimateStatus
             /\ UNCHANGED <<request, columns, members, call, found>>
    <2>1. TypeOK'
      BY <1>2 DEF Inv, TypeOK, request, columns, members
    <2>2. CallsFit'
      BY <1>2 DEF Inv, TypeOK, CallsFit, Is, request
    <2>3. LockDiscipline'
      BY <1>2 DEF Inv, TypeOK, LockDiscipline, CallsFit, Is, request,
                  isMessagingAllowedByEstimateStatus
    <2>4. ReadsHold'
      BY <1>2 DEF Inv, TypeOK, ReadsHold, Exists, columns, members
    <2> QED
      BY <1>2, <2>1, <2>2, <2>3, <2>4
      DEF Inv, ColumnsAgree, AwayHaveLeft, SecondRoomAfterLeaving, Exists,
          request, columns, members
  <1> QED
    BY <1>1, <1>2
    DEF Lock, LockCreate, LockQuote, LockDesignate, LockOr, Goto, Is

\* A lookup that takes a room remembers columns that will not be taken back;
\* one that finds none leaves nothing but rooms that somebody has left.
LEMMA TakeInv ==
    ASSUME Inv, NEW h \in Handlers, NEW r \in Rooms, Exists(r), Take(h, r),
           pc[h] \in {"byMover", "byQuote", "byPair"},
           UNCHANGED <<request, columns, members, lock, call>>
    PROVE  Inv'
  <1>1. PICK next \in {"reuse", "link", "promote"} :
           /\ pc' = [pc EXCEPT ![h] = next]
           /\ Is(h, "create") => next = "reuse"
           /\ Is(h, "quote") => next = "link"
           /\ Is(h, "designate") => next = "promote"
           /\ next = "reuse" => Is(h, "create")
           /\ next = "link" => Is(h, "quote")
           /\ next = "promote" => Is(h, "designate")
    <2>1. Is(h, "create") \/ Is(h, "quote") \/ Is(h, "designate")
      BY CallKinds DEF Inv, TypeOK, CallsFit, Is
    <2> QED
      BY <2>1 DEF Take, Goto, WriteAfter, Is
  <1>2. /\ found' = [found EXCEPT ![h] = [room |-> r, roomType |-> roomType[r],
                                          quoteId |-> r \in withQuote]]
        /\ [room |-> r, roomType |-> roomType[r], quoteId |-> r \in withQuote]
              \in Images
    BY DEF Take, Inv, TypeOK, Images, Exists
  <1>3. TypeOK'
    BY <1>1, <1>2 DEF Inv, TypeOK, request, columns, members
  <1>4. CallsFit'
    BY <1>1 DEF Inv, TypeOK, CallsFit, Is, request
  <1>5. LockDiscipline'
    BY <1>1 DEF Inv, TypeOK, LockDiscipline, Is, request
  <1>6. ReadsHold'
    BY <1>1, <1>2 DEF Inv, TypeOK, ReadsHold, Exists, columns, members
  <1> QED
    BY <1>3, <1>4, <1>5, <1>6
    DEF Inv, ColumnsAgree, AwayHaveLeft, SecondRoomAfterLeaving, Exists,
        request, columns, members

LEMMA FindInv ==
    ASSUME Inv, NEW h \in Handlers, Find(h)
    PROVE  Inv'
  <1>1. UNCHANGED <<request, columns, members, lock, call>>
    BY DEF Find, findRoomByDesignatedMoverId, findRoomByQuoteId,
           findRoomByEstimateAndParticipants
  <1>2. CASE \E r \in Rooms : Exists(r) /\ Take(h, r)
    BY <1>1, <1>2, TakeInv DEF Find, findRoomByDesignatedMoverId,
       findRoomByQuoteId, findRoomByEstimateAndParticipants
  <1>3. CASE /\ pc[h] \in {"byMover", "byQuote"}
             /\ \E next \in {"byQuote", "byPair"} : pc' = [pc EXCEPT ![h] = next]
             /\ UNCHANGED found
    <2>1. Is(h, "create")
      BY <1>3 DEF Inv, CallsFit
    <2>2. TypeOK'
      BY <1>1, <1>3 DEF Inv, TypeOK, request, columns, members
    <2>3. CallsFit'
      BY <1>1, <1>3, <2>1 DEF Inv, TypeOK, CallsFit, Is, request
    <2>4. LockDiscipline'
      BY <1>1, <1>3, <2>1 DEF Inv, TypeOK, LockDiscipline, Is, request
    <2>5. ReadsHold'
      BY <1>1, <1>3 DEF Inv, TypeOK, ReadsHold, Exists, columns, members
    <2> QED
      BY <1>1, <2>2, <2>3, <2>4, <2>5
      DEF Inv, ColumnsAgree, AwayHaveLeft, SecondRoomAfterLeaving, Exists,
          request, columns, members
  <1>4. CASE /\ pc[h] = "byPair"
             /\ \A r \in Rooms : ~Complete(r)
             /\ Goto(h, AfterNoRoom(h))
             /\ UNCHANGED found
    <2>1. \A r \in Rooms : Exists(r) => left[r] # {}
      <3>1. \A r \in Rooms : active[r] \subseteq Users
        BY DEF Inv, TypeOK
      <3>2. ASSUME NEW r \in Rooms, Exists(r) PROVE left[r] # {}
        <4>1. active[r] # Users /\ active[r] \subseteq Users
          BY <1>4, <3>1, <3>2 DEF Complete
        <4>2. PICK u : u \in Users /\ u \notin active[r]
          BY <4>1
        <4> QED
          BY <3>2, <4>2 DEF Inv, AwayHaveLeft
      <3> QED
        BY <3>2
    <2>2. PICK next \in {"lock", "insert", "link", "promote"} :
             /\ pc' = [pc EXCEPT ![h] = next]
             /\ next = "lock" => Is(h, "create") /\ lock # h
             /\ next = "insert" => Is(h, "create") /\ lock = h
             /\ next = "link" => Is(h, "quote")
             /\ next = "promote" => Is(h, "designate")
      <3>1. Is(h, "create") \/ Is(h, "quote") \/ Is(h, "designate")
        BY <1>4, CallKinds DEF Inv, TypeOK, CallsFit, Is
      <3> QED
        BY <1>4, <3>1 DEF Goto, AfterNoRoom, Is
    <2>3. TypeOK'
      BY <1>1, <1>4, <2>2 DEF Inv, TypeOK, request, columns, members
    <2>4. CallsFit'
      BY <1>1, <1>4, <2>2 DEF Inv, TypeOK, CallsFit, Is, request
    <2>5. LockDiscipline'
      BY <1>1, <1>4, <2>2 DEF Inv, TypeOK, LockDiscipline, Is, request
    <2>6. ReadsHold'
      BY <1>1, <1>4, <2>1, <2>2
      DEF Inv, TypeOK, ReadsHold, Exists, columns, members
    <2> QED
      BY <1>1, <2>3, <2>4, <2>5, <2>6
      DEF Inv, ColumnsAgree, AwayHaveLeft, SecondRoomAfterLeaving, Exists,
          request, columns, members
  <1> QED
    <2>1. withMover \cup withQuote \subseteq {r \in Rooms : Exists(r)}
      BY DEF Inv, TypeOK, ColumnsAgree
    <2> QED
      BY <1>2, <1>3, <1>4, <2>1 DEF Find, findRoomByDesignatedMoverId,
         findRoomByQuoteId, findRoomByEstimateAndParticipants, Complete, Goto

\* Columns of a room that exists are set, and the call allowed to set them.
LEMMA SetColumnsInv ==
    ASSUME Inv, NEW h \in Handlers, found[h] # None,
           NEW promote \in BOOLEAN, NEW bind \in BOOLEAN,
           SetColumns(h, promote, bind), Finish(h), UNCHANGED members,
           status' = status \/ (status' = "CONFIRMED" /\ lock = h),
           quote' = quote \/ quote' # "NONE", quote' \in {"NONE", "PENDING", "CONFIRMED", "REJECTED"},
           designated' \in BOOLEAN, designated => designated',
           promote => designated', bind => quote' # "NONE"
    PROVE  Inv'
  <1> DEFINE r == found[h].room
  <1>1. /\ r \in Rooms /\ Exists(r)
        /\ found[h].roomType = "DESIGNATED" => roomType[r] = "DESIGNATED"
        /\ found[h] \in Images
    BY DEF Inv, TypeOK, ReadsHold, Images
  <1>2. /\ roomType' = roomType \/ roomType' = [roomType EXCEPT ![r] = "DESIGNATED"]
        /\ withMover \subseteq withMover' /\ withMover' \subseteq withMover \cup {r}
        /\ withQuote \subseteq withQuote' /\ withQuote' \subseteq withQuote \cup {r}
        /\ roomType' # roomType => r \in withMover'
        /\ withMover' # withMover => promote
        /\ withQuote' # withQuote => bind
    BY DEF SetColumns
  <1>3. TypeOK'
    BY <1>1, <1>2 DEF Inv, TypeOK, Finish, Goto, members, RoomTypes
  <1>4. /\ \A s \in Rooms : Exists(s)' <=> Exists(s)
        /\ \A s \in Rooms : roomType[s] = "DESIGNATED" => roomType'[s] = "DESIGNATED"
    BY <1>1, <1>2 DEF Inv, TypeOK, Exists
  <1>5. ColumnsAgree'
    BY <1>1, <1>2, <1>4 DEF Inv, TypeOK, ColumnsAgree
  <1>6. CallsFit'
    BY DEF Inv, TypeOK, CallsFit, Is, Finish, Goto
  <1>7. LockDiscipline'
    BY DEF Inv, TypeOK, LockDiscipline, Is, Finish, Goto
  <1>8. ReadsHold'
    <2>1. \A g \in Handlers : found[g] # None => found[g].room \in Rooms
      BY DEF Inv, TypeOK, Images
    <2> QED
      BY <1>2, <1>4, <2>1 DEF Inv, TypeOK, ReadsHold, Finish, Goto, members
  <1> QED
    BY <1>3, <1>4, <1>5, <1>6, <1>7, <1>8
    DEF Inv, AwayHaveLeft, SecondRoomAfterLeaving, members

LEMMA ReuseInv ==
    ASSUME Inv, NEW h \in Handlers, ReuseRoom(h)
    PROVE  Inv'
  <1>1. /\ found[h] # None /\ Is(h, "create") /\ call[h] \in Calls
        /\ call[h].roomType = "DESIGNATED" => designated
        /\ call[h].quoteId => quote # "NONE"
    BY DEF ReuseRoom, Inv, TypeOK, CallsFit, ReadsHold, Is
  <1>2. call[h].quoteId \in BOOLEAN
    BY <1>1, CallKinds DEF Is
  <1>3. /\ SetColumns(h, call[h].roomType = "DESIGNATED", call[h].quoteId)
        /\ Finish(h) /\ UNCHANGED <<request, members>>
    BY DEF ReuseRoom
  <1>4. /\ status' = status /\ quote' = quote /\ designated' = designated
        /\ quote \in {"NONE", "PENDING", "CONFIRMED", "REJECTED"}
        /\ designated \in BOOLEAN
    BY <1>3 DEF request, Inv, TypeOK
  <1>5. (call[h].roomType = "DESIGNATED") \in BOOLEAN
    OBVIOUS
  <1> QED
    BY <1>1, <1>2, <1>3, <1>4, <1>5, SetColumnsInv

\* Under the lock: every other room has been left.
LEMMA CreateInv ==
    ASSUME Inv, NEW h \in Handlers, createChatRoom(h)
    PROVE  Inv'
  <1>1. PICK r \in Rooms :
           /\ ~Exists(r)
           /\ roomType' = [roomType EXCEPT ![r] = call[h].roomType]
           /\ withMover' = IF call[h].designatedMoverId THEN withMover \cup {r}
                                                        ELSE withMover
           /\ withQuote' = IF call[h].quoteId THEN withQuote \cup {r} ELSE withQuote
           /\ active' = [active EXCEPT ![r] = Users]
           /\ left' = [left EXCEPT ![r] = {}]
    BY DEF createChatRoom
  <1>2. pc[h] = "insert" /\ Finish(h) /\ UNCHANGED request
    BY DEF createChatRoom
  <1>3. /\ Is(h, "create") /\ call[h] \in Calls /\ lock = h /\ found[h] = None
        /\ call[h].designatedMoverId => designated
        /\ call[h].quoteId => quote # "NONE"
        /\ call[h].roomType = "DESIGNATED" => call[h].designatedMoverId
        /\ \A s \in Rooms : Exists(s) => left[s] # {}
    BY <1>2 DEF Inv, TypeOK, CallsFit, LockDiscipline, ReadsHold, Is
  <1>4. call[h].roomType \in RoomTypes
    BY <1>3, CallKinds DEF Is
  <1>5. \A s \in Rooms : Exists(s)' <=> Exists(s) \/ s = r
    BY <1>1, <1>4 DEF Inv, TypeOK, Exists, RoomTypes
  <1>6. TypeOK'
    BY <1>1, <1>2, <1>4 DEF Inv, TypeOK, Finish, Goto, request
  <1>7. ColumnsAgree'
    BY <1>1, <1>2, <1>3, <1>5 DEF Inv, TypeOK, ColumnsAgree, request
  <1>8. CallsFit' /\ LockDiscipline'
    BY <1>2 DEF Inv, TypeOK, CallsFit, LockDiscipline, Is, Finish, Goto, request
  <1>9. ReadsHold'
    <2>1. \A g \in Handlers : found[g] # None => found[g].room \in Rooms \ {r}
      BY <1>1 DEF Inv, TypeOK, Images, ReadsHold
    <2>2. \A s \in Rooms \ {r} : roomType'[s] = roomType[s]
      BY <1>1 DEF Inv, TypeOK
    <2>3. withQuote \subseteq withQuote' /\ lock' = None
      BY <1>1, <1>2, <1>3 DEF Finish
    <2> QED
      BY <1>2, <1>5, <2>1, <2>2, <2>3 DEF Inv, TypeOK, ReadsHold, Finish, Goto
  <1>10. AwayHaveLeft' /\ SecondRoomAfterLeaving'
    BY <1>1, <1>3, <1>5
    DEF Inv, TypeOK, AwayHaveLeft, SecondRoomAfterLeaving
  <1> QED
    BY <1>6, <1>7, <1>8, <1>9, <1>10 DEF Inv

\* Facts that the calls of others rely on may come true but not cease.
LEMMA RequestInv ==
    ASSUME Inv, NEW h \in Handlers, Finish(h), UNCHANGED <<columns, members>>,
           TypeOK', status' = status \/ lock = h,
           quote' = quote \/ quote' # "NONE", designated => designated'
    PROVE  Inv'
  <1>1. CallsFit' /\ LockDiscipline'
    BY DEF Inv, TypeOK, CallsFit, LockDiscipline, Is, Finish, Goto
  <1>2. ReadsHold'
    BY DEF Inv, TypeOK, ReadsHold, Finish, Goto, columns, members, Exists
  <1> QED
    BY <1>1, <1>2
    DEF Inv, ColumnsAgree, AwayHaveLeft, SecondRoomAfterLeaving, Exists,
        columns, members

LEMMA CommitQuoteInv ==
    ASSUME Inv, NEW h \in Handlers, CommitQuote(h)
    PROVE  Inv'
  <1>1. /\ Is(h, "quote") /\ call[h] \in Calls
        /\ quote' = call[h].as /\ Finish(h)
        /\ status' = status \/ (status' = "CONFIRMED" /\ lock = h)
        /\ UNCHANGED <<designated, members>> /\ designated \in BOOLEAN
    BY DEF CommitQuote, Inv, TypeOK, CallsFit, LockDiscipline, Is
  <1>2. quote' \in {"PENDING", "REJECTED", "CONFIRMED"}
    BY <1>1, CallKinds DEF Is
  <1>3. CASE found[h] = None
    <2>1. UNCHANGED columns
      BY <1>3 DEF CommitQuote, linkQuoteToChatRoom
    <2>2. TypeOK'
      BY <1>1, <1>2, <2>1 DEF Inv, TypeOK, Finish, Goto, columns, members
    <2> QED
      BY <1>1, <1>2, <2>1, <2>2, RequestInv
  <1>4. CASE found[h] # None
    <2>1. SetColumns(h, designated, TRUE)
      BY <1>4 DEF CommitQuote, linkQuoteToChatRoom
    <2> QED
      BY <1>1, <1>2, <1>4, <2>1, SetColumnsInv
  <1> QED
    BY <1>3, <1>4

LEMMA CommitDesignationInv ==
    ASSUME Inv, NEW h \in Handlers, CommitDesignation(h)
    PROVE  Inv'
  <1>1. /\ designated' = TRUE /\ Finish(h)
        /\ UNCHANGED <<status, quote, members>>
        /\ quote \in {"NONE", "PENDING", "CONFIRMED", "REJECTED"}
    BY DEF CommitDesignation, Inv, TypeOK
  <1>2. CASE found[h] = None
    <2>1. UNCHANGED columns
      BY <1>2 DEF CommitDesignation
    <2>2. TypeOK'
      BY <1>1, <2>1 DEF Inv, TypeOK, Finish, Goto, columns, members
    <2> QED
      BY <1>1, <2>1, <2>2, RequestInv
  <1>3. CASE found[h] # None
    <2>1. SetColumns(h, TRUE, FALSE)
      BY <1>3 DEF CommitDesignation
    <2> QED
      BY <1>1, <1>3, <2>1, SetColumnsInv
  <1> QED
    BY <1>2, <1>3

\* Messages and leaving touch no column; who is away has left before.
LEMMA SendInv ==
    ASSUME Inv, NEW h \in Handlers, Send(h)
    PROVE  Inv'
  <1>1. CASE Finish(h) /\ UNCHANGED <<request, columns, members>>
    BY <1>1, FinishInv
  <1>2. CASE /\ pc[h] = "member" /\ pc' = [pc EXCEPT ![h] = "send"]
             /\ UNCHANGED <<request, columns, members, lock, call, found>>
    <2>1. TypeOK' /\ CallsFit' /\ LockDiscipline'
      BY <1>2 DEF Inv, TypeOK, CallsFit, LockDiscipline, Is, request, columns,
                  members
    <2>2. ReadsHold'
      BY <1>2 DEF Inv, TypeOK, ReadsHold, Exists, columns, members
    <2> QED
      BY <1>2, <2>1, <2>2
      DEF Inv, ColumnsAgree, AwayHaveLeft, SecondRoomAfterLeaving, Exists,
          request, columns, members
  <1>3. CASE createMessageAndRejoin(h)
    <2>1. /\ Finish(h) /\ UNCHANGED <<request, columns, left>>
          /\ active' = [active EXCEPT ![call[h].room] =
                            @ \cup (Users \ {call[h].user})]
      BY <1>3 DEF createMessageAndRejoin
    <2>2. TypeOK'
      BY <2>1 DEF Inv, TypeOK, Finish, Goto, request, columns
    <2>3. CallsFit' /\ LockDiscipline'
      BY <2>1 DEF Inv, TypeOK, CallsFit, LockDiscipline, Is, Finish, Goto, request
    <2>4. ReadsHold'
      BY <2>1 DEF Inv, TypeOK, ReadsHold, Finish, Goto, columns, Exists
    <2>5. \A r \in Rooms : active[r] \subseteq active'[r]
      BY <2>1 DEF Inv, TypeOK
    <2> QED
      BY <2>1, <2>2, <2>3, <2>4, <2>5
      DEF Inv, ColumnsAgree, AwayHaveLeft, SecondRoomAfterLeaving, Exists,
          request, columns
  <1> QED
    BY <1>1, <1>2, <1>3 DEF Send, findActiveParticipation, Goto

LEMMA LeaveInv ==
    ASSUME Inv, NEW r \in Rooms, NEW u \in Users, leaveChatRoom(r, u)
    PROVE  Inv'
  <1>1. /\ active' = [active EXCEPT ![r] = @ \ {u}]
        /\ left' = [left EXCEPT ![r] = @ \cup {u}]
        /\ UNCHANGED <<request, columns, handlers>>
    BY DEF leaveChatRoom
  <1>2. TypeOK'
    BY <1>1 DEF Inv, TypeOK, request, columns, handlers
  <1>3. CallsFit' /\ LockDiscipline'
    BY <1>1 DEF Inv, TypeOK, CallsFit, LockDiscipline, Is, request, handlers
  <1>4. \A s \in Rooms : left[s] \subseteq left'[s]
    BY <1>1 DEF Inv, TypeOK
  <1>5. ReadsHold'
    BY <1>1, <1>4 DEF Inv, TypeOK, ReadsHold, columns, handlers, Exists
  <1>6. AwayHaveLeft'
    BY <1>1 DEF Inv, TypeOK, AwayHaveLeft, columns, Exists
  <1>7. SecondRoomAfterLeaving'
    BY <1>1, <1>4 DEF Inv, SecondRoomAfterLeaving, columns, Exists
  <1> QED
    BY <1>1, <1>2, <1>3, <1>5, <1>6, <1>7
    DEF Inv, ColumnsAgree, request, columns, Exists

LEMMA WorldInv ==
    ASSUME Inv, Submit \/ ConfirmAnother \/ CloseOverdue
    PROVE  Inv'
  <1>1. /\ UNCHANGED <<designated, columns, members, handlers>>
        /\ lock \notin Handlers
        /\ quote' = quote
        /\ status' \in {"SUBMITTED", "CONFIRMED", "COMPLETED", "EXPIRED"}
    BY DEF Submit, ConfirmAnother, CloseOverdue
  <1>2. TypeOK'
    BY <1>1 DEF Inv, TypeOK, columns, members, handlers
  <1>3. CallsFit' /\ LockDiscipline'
    BY <1>1 DEF Inv, CallsFit, LockDiscipline, Is, handlers
  <1>4. ReadsHold'
    BY <1>1 DEF Inv, ReadsHold, Exists, columns, members, handlers
  <1> QED
    BY <1>1, <1>2, <1>3, <1>4
    DEF Inv, ColumnsAgree, AwayHaveLeft, SecondRoomAfterLeaving, Exists,
        columns, members

LEMMA StepInv == Inv /\ [Next]_vars => Inv'
  <1> SUFFICES ASSUME Inv, [Next]_vars PROVE Inv'
    OBVIOUS
  <1>1. ASSUME NEW h \in Handlers, NEW c \in Calls, Begin(h, c) PROVE Inv'
    BY <1>1, BeginInv
  <1>2. ASSUME NEW h \in Handlers, Write(h) PROVE Inv'
    BY <1>2, ReuseInv, CreateInv, CommitQuoteInv, CommitDesignationInv DEF Write
  <1>3. ASSUME NEW h \in Handlers, Abort(h) PROVE Inv'
    BY <1>3, FinishInv DEF Abort
  <1>4. CASE UNCHANGED vars
    BY <1>4 DEF Inv, TypeOK, ColumnsAgree, CallsFit, LockDiscipline, ReadsHold,
                AwayHaveLeft, SecondRoomAfterLeaving, Exists, Is, vars, request,
                columns, members, handlers
  <1> QED
    BY <1>1, <1>2, <1>3, <1>4, LockInv, FindInv, SendInv, LeaveInv, WorldInv
    DEF Next

-----------------------------------------------------------------------------
\* The whole invariant, with what the handlers' statements rely on.
THEOREM InvHolds == Spec => []Inv
  <1> QED
    BY InitInv, StepInv, PTL DEF Spec

\* The pair of a request gets a second room only after somebody left the
\* first, whoever opens rooms at the same time.
THEOREM SecondRoomNeedsLeaving == Spec => []SecondRoomAfterLeaving
  <1>1. Inv => SecondRoomAfterLeaving
    BY DEF Inv
  <1> QED
    BY <1>1, InvHolds, PTL

\* No quote and no designation misses the only room of its pair.
LEMMA StepReaches ==
    ASSUME Inv, [Next]_vars, NEW r \in Rooms, OnlyRoom(r)
    PROVE  /\ quote' # quote => r \in withQuote'
           /\ ~designated /\ designated' => roomType'[r] = "DESIGNATED"
  <1>1. ASSUME NEW h \in Handlers, CommitQuote(h)
        PROVE  r \in withQuote'
    <2>1. Is(h, "quote") /\ lock = h
      BY <1>1 DEF CommitQuote, Inv, CallsFit, LockDiscipline
    <2>2. found[h] # None
      BY <1>1, <2>1 DEF CommitQuote, Inv, ReadsHold, OnlyRoom
    <2>3. found[h].room = r /\ (found[h].quoteId => r \in withQuote)
      <3>1. found[h].room \in Rooms
        BY <2>2 DEF Inv, TypeOK, Images
      <3> QED
        BY <1>1, <2>2, <3>1 DEF Inv, ReadsHold, OnlyRoom
    <2> QED
      BY <1>1, <2>2, <2>3 DEF CommitQuote, linkQuoteToChatRoom, SetColumns
  <1>2. ASSUME NEW h \in Handlers, CommitDesignation(h), ~designated
        PROVE  roomType'[r] = "DESIGNATED"
    <2>1. Is(h, "designate") /\ lock = h
      BY <1>2 DEF CommitDesignation, Inv, CallsFit, LockDiscipline
    <2>2. found[h] # None
      BY <1>2, <2>1 DEF CommitDesignation, Inv, ReadsHold, OnlyRoom
    <2>3. found[h] \in Images /\ found[h].room = r
      BY <2>2 DEF Inv, TypeOK, Images, ReadsHold, OnlyRoom
    <2>4. found[h].roomType # "DESIGNATED"
      BY <1>2, <2>2, <2>3 DEF Inv, ReadsHold, ColumnsAgree
    <2>5. found[h].roomType = "GENERAL"
      BY <2>3, <2>4 DEF Images, RoomTypes
    <2> QED
      BY <1>2, <2>2, <2>3, <2>5
      DEF CommitDesignation, SetColumns, Inv, TypeOK
  <1>3. ASSUME \A h \in Handlers : ~CommitQuote(h) /\ ~CommitDesignation(h)
        PROVE  designated' = designated /\ quote' = quote
    BY <1>3
    DEF Next, Begin, Lock, LockCreate, LockQuote, LockDesignate, LockOr, Find,
        findRoomByDesignatedMoverId, findRoomByQuoteId,
        findRoomByEstimateAndParticipants, Write, ReuseRoom, createChatRoom, Send,
        findActiveParticipation, createMessageAndRejoin, Abort, leaveChatRoom, Submit, ConfirmAnother,
        CloseOverdue, vars, request
  <1>4. ASSUME NEW h \in Handlers
        PROVE  /\ CommitQuote(h) => designated' = designated
               /\ CommitDesignation(h) => quote' = quote
    BY DEF CommitQuote, CommitDesignation
  <1> QED
    BY <1>1, <1>2, <1>3, <1>4

THEOREM CommitsReach == Spec => CommitsReachTheRoom
  <1>1. Inv /\ [Next]_vars =>
            [\A r \in Rooms : OnlyRoom(r) =>
               /\ quote' # quote => r \in withQuote'
               /\ ~designated /\ designated' => roomType'[r] = "DESIGNATED"]_vars
    BY StepReaches
  <1> QED
    BY <1>1, InvHolds, PTL DEF Spec, CommitsReachTheRoom

\* No room is opened for a request that takes no messages any more.
THEOREM NoRoomWhenClosed == Spec => NoRoomOnClosedRequest
  <1>1. ASSUME Inv, [Next]_vars, NEW r \in Rooms, ~Exists(r), Exists(r)'
        PROVE  isMessagingAllowedByEstimateStatus
    <2>1. ASSUME NEW h \in Handlers, createChatRoom(h)
          PROVE  isMessagingAllowedByEstimateStatus
      BY <1>1, <2>1 DEF createChatRoom, Inv, CallsFit, LockDiscipline,
                        isMessagingAllowedByEstimateStatus
    <2>2. ASSUME NEW h \in Handlers, found[h] # None, NEW up \in BOOLEAN,
                 NEW bind \in BOOLEAN, SetColumns(h, up, bind)
          PROVE  FALSE
      BY <1>1, <2>2 DEF SetColumns, Inv, TypeOK, ReadsHold, Exists, Images
    <2>3. ASSUME NEW h \in Handlers, ReuseRoom(h)
          PROVE  FALSE
      <3>1. Is(h, "create") /\ call[h] \in Calls /\ found[h] # None
        BY <1>1, <2>3 DEF ReuseRoom, Inv, TypeOK, CallsFit, ReadsHold, Is
      <3>2. call[h].quoteId \in BOOLEAN
        BY <3>1, CallKinds DEF Is
      <3>3. (call[h].roomType = "DESIGNATED") \in BOOLEAN
        OBVIOUS
      <3> QED
        BY <2>2, <2>3, <3>1, <3>2, <3>3 DEF ReuseRoom
    <2>4. roomType' # roomType
      BY <1>1 DEF Exists
    <2>5. ASSUME NEW h \in Handlers, CommitQuote(h) \/ CommitDesignation(h)
          PROVE  FALSE
      <3>1. found[h] # None
        BY <2>4, <2>5 DEF CommitQuote, CommitDesignation, linkQuoteToChatRoom,
                          columns
      <3>2. designated \in BOOLEAN
        BY <1>1 DEF Inv, TypeOK
      <3> QED
        BY <2>2, <2>5, <3>1, <3>2
        DEF CommitQuote, CommitDesignation, linkQuoteToChatRoom
    <2> QED
      BY <1>1, <2>1, <2>3, <2>4, <2>5
      DEF Next, Begin, Lock, LockCreate, LockQuote, LockDesignate, LockOr, Find,
          findRoomByDesignatedMoverId, findRoomByQuoteId,
          findRoomByEstimateAndParticipants, Write, Send,
          findActiveParticipation, createMessageAndRejoin, Abort, leaveChatRoom,
          Submit, ConfirmAnother, CloseOverdue, vars, columns
  <1>2. Inv /\ [Next]_vars =>
            [\A r \in Rooms : ~Exists(r) /\ Exists(r)' =>
               isMessagingAllowedByEstimateStatus]_vars
    BY <1>1
  <1> QED
    BY <1>2, InvHolds, PTL DEF Spec, NoRoomOnClosedRequest
=============================================================================
