---------------------------- MODULE AccountsProofs ----------------------------
(***************************************************************************)
(* Proofs about Accounts, for any users, administrators, Kakao accounts,   *)
(* requests and number of tokens.  The argument: a token that is about to  *)
(* be exchanged is locked by the one request that exchanges it (LocksHeld, *)
(* RequestsHold), a link that is not committed keeps every other link of   *)
(* its user and of its Kakao account out (LinksPending), and links are     *)
(* never taken back, so that what a request read of one still holds.       *)
(***************************************************************************)
EXTENDS Accounts, TLAPS

USE MaxTokensAssumption, NoneIsNobody, KindsAreApart

\* The invariant holds where the system starts.
LEMMA InitInv == Init => Inv
  <1> SUFFICES ASSUME Init PROVE Inv
    OBVIOUS
  <1>1. TypeOK
    BY DEF Init, TypeOK, Blank, UserTypes
  <1>2. EndedOnce /\ IdentityProven /\ Unissued /\ LocksHeld /\ AbsentIsBlank
    BY DEF Init, EndedOnce, IdentityProven, Unissued, LocksHeld, AbsentIsBlank, Tokens
  <1>3. RequestsHold /\ LinksPending /\ LoginsHold
    BY DEF Init, RequestsHold, LinksPending, LoginsHold, Blank
  <1> QED
    BY <1>1, <1>2, <1>3 DEF Inv

\* Where a request may stand, what it may hold, and the types of what is stored.
States == {"idle", "nickname", "signup", "delete", "deleting", "insert", "kakao",
           "byEmail", "resolve", "link", "create", "rotate", "password", "admin"}

\* What a request may hold.
Requests == [email : Emails \cup {None}, kakao : KakaoIds \cup {None},
             nick : Nicknames \cup KakaoIds \cup {None},
             pw : Passwords \cup {None}, type : UserTypes,
             token : Tokens \cup {None}, rows : SUBSET Tokens, link : BOOLEAN]

\* The type of who can log in with what.
AccountType ==
    /\ type \in [Emails -> UserTypes \cup {"NONE"}]
    /\ nick \in [Emails -> Nicknames \cup KakaoIds \cup {None}]
    /\ local \in [Emails -> Passwords \cup {None}]
    /\ kakao \in [Emails -> KakaoIds \cup {None}]

\* The type of the tokens' rows and of their history.
TokenType ==
    /\ issued \in 0 .. MaxTokens
    /\ live \subseteq 1 .. issued /\ expired \subseteq 1 .. issued
    /\ owner \in [Tokens -> Emails \cup Admins \cup {None}]
    /\ device \in [Tokens -> KakaoIds \cup {None}]
    /\ parent \in [Tokens -> Tokens \cup {None}]
    /\ ended \in [Tokens -> {"no", "rotated", "replaced", "logout"}]

\* The type of what is in flight.
ControlType ==
    /\ lock \in [Tokens -> Procs \cup {None}]
    /\ pc \in [Procs -> States]
    /\ req \in [Procs -> Requests]
    /\ before \in [Procs -> 0 .. MaxTokens]

\* The type invariant is these three.
LEMMA TypeParts == TypeOK <=> AccountType /\ TokenType /\ ControlType
  BY DEF TypeOK, AccountType, TokenType, ControlType, States, Requests

\* The steps of one request, and those of a token alone.
Step(p) == Begin(p) \/ Continue(p) \/ Abort(p)

\* A request that goes on keeps the types, if what it holds next has its type.
LEMMA GotoType ==
    ASSUME ControlType, NEW p \in Procs, NEW s \in States, NEW r \in Requests,
           Goto(p, s, r), lock' \in [Tokens -> Procs \cup {None}],
           before' \in [Procs -> 0 .. MaxTokens]
    PROVE  ControlType'
  BY DEF ControlType, Goto

\* What a request holds when it starts has its type.
LEMMA BlankType ==
    /\ Blank \in Requests
    /\ \A e \in Emails \cup {None}, n \in Nicknames, w \in Passwords, y \in UserTypes :
         [Blank EXCEPT !.email = e, !.nick = n, !.pw = w, !.type = y] \in Requests
    /\ \A e \in Emails \cup {None} : [Blank EXCEPT !.email = e] \in Requests
    /\ \A e \in Emails, w \in Passwords : [Blank EXCEPT !.email = e, !.pw = w] \in Requests
    /\ \A e \in Emails \cup {None}, k \in KakaoIds \cup {None} :
         [Blank EXCEPT !.email = e, !.kakao = k] \in Requests
    /\ \A e \in Emails \cup {None}, k \in KakaoIds, n \in Nicknames, y \in UserTypes :
         [Blank EXCEPT !.kakao = k, !.email = e, !.nick = n, !.type = y] \in Requests
    /\ \A t \in Tokens : [Blank EXCEPT !.token = t] \in Requests
    /\ \A t \in Tokens, e \in Emails, k \in KakaoIds \cup {None} :
         [Blank EXCEPT !.token = t, !.email = e, !.kakao = k] \in Requests
  <1>1. Blank \in Requests
    BY DEF Blank, Requests, UserTypes
  <1>2. \A e \in Emails \cup {None}, n \in Nicknames, w \in Passwords, y \in UserTypes :
         [Blank EXCEPT !.email = e, !.nick = n, !.pw = w, !.type = y] \in Requests
    BY <1>1 DEF Requests
  <1>3. /\ \A e \in Emails \cup {None} : [Blank EXCEPT !.email = e] \in Requests
        /\ \A e \in Emails, w \in Passwords : [Blank EXCEPT !.email = e, !.pw = w] \in Requests
    BY <1>1 DEF Requests
  <1>4. \A e \in Emails \cup {None}, k \in KakaoIds \cup {None} :
         [Blank EXCEPT !.email = e, !.kakao = k] \in Requests
    BY <1>1 DEF Requests
  <1>5. \A e \in Emails \cup {None}, k \in KakaoIds, n \in Nicknames, y \in UserTypes :
         [Blank EXCEPT !.kakao = k, !.email = e, !.nick = n, !.type = y] \in Requests
    BY <1>1 DEF Requests
  <1>6. \A t \in Tokens : [Blank EXCEPT !.token = t] \in Requests
    BY <1>1 DEF Requests
  <1>7. \A t \in Tokens, e \in Emails, k \in KakaoIds \cup {None} :
         [Blank EXCEPT !.token = t, !.email = e, !.kakao = k] \in Requests
    BY <1>1 DEF Requests
  <1> QED
    BY <1>1, <1>2, <1>3, <1>4, <1>5, <1>6, <1>7

\* The end of a transaction keeps the types.
LEMMA ReturnType ==
    ASSUME ControlType, NEW p \in Procs, Return(p)
    PROVE  ControlType'
  <1>1. lock' \in [Tokens -> Procs \cup {None}]
    BY DEF ControlType, Return
  <1>2. before' \in [Procs -> 0 .. MaxTokens]
    BY DEF ControlType, Return
  <1>3. "idle" \in States
    BY DEF States
  <1> QED
    BY <1>1, <1>2, <1>3, BlankType, GotoType DEF Return

\* Every step keeps the types of what is in flight.
LEMMA ControlInv ==
    ASSUME Inv, NEW p \in Procs, Step(p)
    PROVE  ControlType'
  <1>0. /\ ControlType /\ TokenType /\ AccountType
        /\ lock \in [Tokens -> Procs \cup {None}] /\ before \in [Procs -> 0 .. MaxTokens]
        /\ req[p] \in Requests /\ pc[p] \in States
    BY TypeParts DEF Inv, ControlType
  <1>1. CASE findUserByEmail(p)
    <2>1. PICK r \in Requests : Goto(p, "nickname", r)
      BY <1>1, BlankType DEF findUserByEmail
    <2>2. "nickname" \in States
      BY DEF States
    <2> QED
      BY <1>0, <1>1, <2>1, <2>2, GotoType DEF findUserByEmail
  <1>2. CASE authenticateUser(p)
    <2>1. PICK r \in Requests : Goto(p, "delete", r)
      BY <1>2, BlankType DEF authenticateUser
    <2>2. "delete" \in States
      BY DEF States
    <2> QED
      BY <1>0, <1>2, <2>1, <2>2, GotoType DEF authenticateUser
  <1>3. CASE fetchKakaoUserInfo(p)
    <2>1. PICK r \in Requests : Goto(p, "kakao", r)
      BY <1>3, BlankType DEF fetchKakaoUserInfo
    <2>2. "kakao" \in States
      BY DEF States
    <2> QED
      BY <1>0, <1>3, <2>1, <2>2, GotoType DEF fetchKakaoUserInfo
  <1>4. CASE refreshAuthToken(p)
    <2>1. PICK t \in live : /\ owner[t] \in Emails
                            /\ Goto(p, "rotate", [Blank EXCEPT !.token = t, !.email = owner[t],
                                                               !.kakao = device[t]])
      BY <1>4 DEF refreshAuthToken, verifyRefreshToken
    <2>2. t \in Tokens /\ device[t] \in KakaoIds \cup {None} /\ "rotate" \in States
      BY <1>0, <2>1 DEF TokenType, Tokens, States
    <2> QED
      BY <1>0, <1>4, <2>1, <2>2, BlankType, GotoType DEF refreshAuthToken
  <1>5. CASE resolvePasswordHashForUpdate(p)
    <2>1. PICK r \in Requests : Goto(p, "password", r)
      BY <1>5, BlankType DEF resolvePasswordHashForUpdate
    <2>2. "password" \in States
      BY DEF States
    <2> QED
      BY <1>0, <1>5, <2>1, <2>2, GotoType DEF resolvePasswordHashForUpdate
  <1>6. CASE authenticateAdmin(p)
    BY <1>0, <1>6 DEF authenticateAdmin, ControlType
  <1>7. CASE validateAdminRefreshToken(p)
    <2>1. PICK t \in live : Goto(p, "admin", [Blank EXCEPT !.token = t])
      BY <1>7 DEF validateAdminRefreshToken
    <2>2. t \in Tokens /\ "admin" \in States
      BY <1>0, <2>1 DEF TokenType, Tokens, States
    <2> QED
      BY <1>0, <1>7, <2>1, <2>2, BlankType, GotoType DEF validateAdminRefreshToken
  <1>8. CASE \/ createUserWithLocalAuth(p) \/ updatePasswordHash(p)
             \/ refreshAdminToken(p) \/ Abort(p) \/ Return(p)
    BY <1>0, <1>8, ReturnType DEF createUserWithLocalAuth, updatePasswordHash,
       refreshAdminToken, Abort
  <1>9. CASE findUserByNickname(p)
    <2>1. CASE Goto(p, "signup", req[p]) /\ UNCHANGED <<lock, before>>
      <3>1. "signup" \in States
        BY DEF States
      <3> QED
        BY <1>0, <2>1, <3>1, GotoType
    <2> QED
      BY <1>8, <1>9, <2>1 DEF findUserByNickname
  <1>10. CASE deleteRefreshTokensByUserId(p)
    <2>1. [req[p] EXCEPT !.rows = TokensOf(req[p].email)] \in Requests /\ "deleting" \in States
      <3>1. TokensOf(req[p].email) \subseteq Tokens
        <4>1. live \subseteq Tokens
          BY <1>0 DEF TokenType, Tokens
        <4> QED
          BY <4>1 DEF TokensOf
      <3>2. \A S \in SUBSET Tokens : [req[p] EXCEPT !.rows = S] \in Requests
        BY <1>0 DEF Requests
      <3> QED
        BY <3>1, <3>2 DEF States
    <2>2. before' \in [Procs -> 0 .. MaxTokens]
      BY <1>0, <1>10 DEF deleteRefreshTokensByUserId, TokenType
    <2> QED
      BY <1>0, <1>10, <2>1, <2>2, GotoType DEF deleteRefreshTokensByUserId
  <1>11. CASE LockRows(p)
    <2>1. [req[p] EXCEPT !.rows = {}] \in Requests /\ "insert" \in States
      BY <1>0 DEF Requests, States
    <2>2. lock' \in [Tokens -> Procs \cup {None}]
      BY <1>0, <1>11 DEF LockRows
    <2> QED
      BY <1>0, <1>11, <2>1, <2>2, GotoType DEF LockRows
  <1>12. CASE createRefreshTokenRecord(p) \/ createKakaoUser(p)
    BY <1>8, <1>12 DEF createRefreshTokenRecord, createKakaoUser
  <1>13. CASE kakaoLogin(p)
    <2>1. CASE Goto(p, "byEmail", req[p]) /\ UNCHANGED <<lock, before>>
      <3>1. "byEmail" \in States
        BY DEF States
      <3> QED
        BY <1>0, <2>1, <3>1, GotoType
    <2>2. CASE /\ UNCHANGED <<lock, before>>
               /\ \E e \in findUserByKakaoProviderAccountId(req[p].kakao) :
                    Goto(p, "delete", [Blank EXCEPT !.email = e, !.kakao = req[p].kakao])
      <3>1. PICK e \in Emails :
                Goto(p, "delete", [Blank EXCEPT !.email = e, !.kakao = req[p].kakao])
        BY <2>2 DEF findUserByKakaoProviderAccountId
      <3>2. "delete" \in States /\ req[p].kakao \in KakaoIds \cup {None}
        BY <1>0 DEF States, Requests
      <3> QED
        BY <1>0, <2>2, <3>1, <3>2, BlankType, GotoType
    <2> QED
      BY <1>8, <1>13, <2>1, <2>2 DEF kakaoLogin
  <1>14. CASE linkKakaoToExistingUser(p)
    <2>1. Session(req[p]) \in Requests /\ {"resolve", "link", "delete"} \subseteq States
      <3>1. req[p].email \in Emails \cup {None} /\ req[p].kakao \in KakaoIds \cup {None}
        BY <1>0 DEF Requests
      <3> QED
        BY <3>1, BlankType DEF Session, States
    <2>2. CASE /\ UNCHANGED <<lock, before>>
               /\ \/ Goto(p, "resolve", req[p]) \/ Goto(p, "link", Session(req[p]))
                  \/ Goto(p, "delete", Session(req[p]))
      BY <1>0, <2>1, <2>2, GotoType
    <2> QED
      BY <1>8, <1>14, <2>2 DEF linkKakaoToExistingUser
  <1>15. CASE linkKakaoAuthToUser(p)
    <2>1. CASE Goto(p, "delete", [req[p] EXCEPT !.link = TRUE]) /\ UNCHANGED <<lock, before>>
      <3>1. [req[p] EXCEPT !.link = TRUE] \in Requests /\ "delete" \in States
        BY <1>0 DEF Requests, States
      <3> QED
        BY <1>0, <2>1, <3>1, GotoType
    <2> QED
      BY <1>8, <1>15, <2>1 DEF linkKakaoAuthToUser
  <1>16. CASE resolveUniqueKakaoNickname(p)
    <2>1. PICK n \in {req[p].kakao, req[p].nick} :
             Goto(p, "create", [req[p] EXCEPT !.nick = n])
      BY <1>16 DEF resolveUniqueKakaoNickname
    <2>2. [req[p] EXCEPT !.nick = n] \in Requests /\ "create" \in States
      BY <1>0, <2>1 DEF Requests, States
    <2> QED
      BY <1>0, <1>16, <2>1, <2>2, GotoType DEF resolveUniqueKakaoNickname
  <1>17. CASE deleteRefreshTokenByHash(p)
    <2>1. CASE /\ lock' = [lock EXCEPT ![req[p].token] = p]
               /\ Goto(p, "insert", req[p]) /\ UNCHANGED before
      <3>1. "insert" \in States /\ lock' \in [Tokens -> Procs \cup {None}]
        BY <1>0, <2>1 DEF States
      <3> QED
        BY <1>0, <2>1, <3>1, GotoType
    <2> QED
      BY <1>8, <1>17, <2>1 DEF deleteRefreshTokenByHash
  <1> QED
    BY <1>1, <1>2, <1>3, <1>4, <1>5, <1>6, <1>7, <1>8, <1>9, <1>10, <1>11, <1>12,
       <1>13, <1>14, <1>15, <1>16, <1>17 DEF Step, Begin, Continue

\* A request in another's step stays where it is and keeps its locks.
LEMMA OthersKeep ==
    ASSUME Inv, NEW p \in Procs, Step(p), NEW q \in Procs \ {p}
    PROVE  /\ pc'[q] = pc[q] /\ req'[q] = req[q]
           /\ \A t \in Tokens : lock'[t] = q <=> lock[t] = q
           /\ before'[q] = before[q]
  <1>0. ControlType
    BY TypeParts DEF Inv
  <1>1. CASE authenticateAdmin(p)
    BY <1>1 DEF authenticateAdmin
  <1>2. CASE Return(p)
    BY <1>0, <1>2 DEF Return, Goto, ControlType
  <1>3. CASE deleteRefreshTokensByUserId(p)
    BY <1>0, <1>3 DEF deleteRefreshTokensByUserId, Goto, ControlType
  <1>4. CASE /\ \E s, r : Goto(p, s, r)
             /\ UNCHANGED <<lock, before>>
    BY <1>0, <1>4 DEF Goto, ControlType
  <1>5. CASE LockRows(p)
    <2>1. /\ pc'[q] = pc[q] /\ req'[q] = req[q] /\ before'[q] = before[q]
      BY <1>0, <1>5 DEF LockRows, Goto, ControlType
    <2>2. \A t \in Tokens : lock'[t] = lock[t] \/ (lock'[t] = p /\ lock[t] \in {None, p})
      BY <1>0, <1>5 DEF LockRows, ControlType
    <2> QED
      BY <2>1, <2>2
  <1>6. CASE deleteRefreshTokenByHash(p) /\ ~Return(p)
    <2>1. /\ pc'[q] = pc[q] /\ req'[q] = req[q] /\ before'[q] = before[q]
          /\ lock[req[p].token] = None
          /\ lock' = [lock EXCEPT ![req[p].token] = p]
      BY <1>0, <1>6 DEF deleteRefreshTokenByHash, Goto, ControlType
    <2> QED
      BY <1>0, <2>1 DEF ControlType
  <1>7. CASE \/ findUserByEmail(p) \/ authenticateUser(p) \/ fetchKakaoUserInfo(p)
             \/ refreshAuthToken(p) \/ resolvePasswordHashForUpdate(p)
             \/ validateAdminRefreshToken(p) \/ resolveUniqueKakaoNickname(p)
    BY <1>4, <1>7 DEF findUserByEmail, authenticateUser, fetchKakaoUserInfo,
       refreshAuthToken, resolvePasswordHashForUpdate, validateAdminRefreshToken,
       resolveUniqueKakaoNickname
  <1>8. CASE \/ findUserByNickname(p) \/ kakaoLogin(p) \/ linkKakaoToExistingUser(p)
             \/ linkKakaoAuthToUser(p)
    BY <1>2, <1>4, <1>8 DEF findUserByNickname, kakaoLogin, linkKakaoToExistingUser,
       linkKakaoAuthToUser
  <1>9. CASE createRefreshTokenRecord(p) \/ createKakaoUser(p)
    BY <1>2, <1>9 DEF createRefreshTokenRecord, createKakaoUser
  <1> QED
    BY <1>1, <1>2, <1>3, <1>5, <1>6, <1>7, <1>8, <1>9 DEF Step, Begin, Continue, Abort,
       createUserWithLocalAuth, updatePasswordHash, refreshAdminToken

\* A request's locks are those of the step that took them.
LEMMA OwnLocks ==
    ASSUME Inv, NEW p \in Procs
    PROVE  /\ LockedBy(p) \subseteq live
           /\ pc[p] # "insert" => LockedBy(p) = {}
  <1>1. \A t \in Tokens : lock[t] # None => t \in live /\ pc[lock[t]] = "insert"
    BY DEF Inv, LocksHeld
  <1> QED
    BY <1>1 DEF LockedBy

\* A new token keeps the types of the tokens.
LEMMA IssueType ==
    ASSUME Inv, NEW p, NEW u \in Emails \cup Admins, NEW k \in KakaoIds \cup {None},
           NEW from \in Tokens \cup {None}, NEW how \in {"rotated", "replaced"},
           Issue(p, u, k, from, how)
    PROVE  TokenType'
  <1>0. TokenType
    BY TypeParts DEF Inv
  <1>1. issued' \in 0 .. MaxTokens /\ issued' = issued + 1 /\ 1 .. issued \subseteq 1 .. issued'
        /\ issued + 1 \in 1 .. issued' /\ issued + 1 \in Tokens
    BY <1>0 DEF TokenType, Issue, Tokens
  <1>2. live' \subseteq 1 .. issued' /\ expired' \subseteq 1 .. issued'
    BY <1>0, <1>1 DEF TokenType, Issue
  <1>3. owner' \in [Tokens -> Emails \cup Admins \cup {None}]
        /\ device' \in [Tokens -> KakaoIds \cup {None}]
    BY <1>0, <1>1 DEF TokenType, Issue
  <1>4. parent' \in [Tokens -> Tokens \cup {None}]
    BY <1>0, <1>1 DEF TokenType, Issue
  <1>5. ended' \in [Tokens -> {"no", "rotated", "replaced", "logout"}]
    BY <1>0 DEF TokenType, Issue
  <1> QED
    BY <1>1, <1>2, <1>3, <1>4, <1>5 DEF TokenType

\* The one way a token ends beside a logout: with what is issued for it.
LEMMA IssueEnds ==
    ASSUME Inv, NEW p \in Procs, NEW u, NEW k, NEW from, NEW how,
           Issue(p, u, k, from, how),
           \/ from = None /\ how = "replaced"
           \/ from \in Tokens /\ how = "rotated" /\ LockedBy(p) = {from}
    PROVE  EndedOnce' /\ Unissued'
  <1>0. TokenType /\ EndedOnce /\ Unissued /\ LockedBy(p) \subseteq live
    BY TypeParts, OwnLocks DEF Inv
  <1>1. /\ issued \in Nat /\ issued' = issued + 1 /\ issued + 1 \in Tokens
        /\ Tokens \subseteq Nat /\ issued + 1 \notin live
    BY <1>0 DEF TokenType, Issue, Tokens
  <1>2. /\ live' = (live \ LockedBy(p)) \cup {issued + 1}
        /\ \A t \in Tokens : parent'[t] = IF t = issued + 1 THEN from ELSE parent[t]
        /\ \A t \in Tokens : device'[t] = IF t = issued + 1 THEN k ELSE device[t]
        /\ \A t \in Tokens : ended'[t] = IF t \in LockedBy(p) THEN how ELSE ended[t]
    BY <1>0, <1>1 DEF TokenType, Issue
  <1>3. issued + 1 \notin LockedBy(p) /\ LockedBy(p) \subseteq Tokens
    BY <1>0, <1>1 DEF LockedBy
  <1>4. parent[issued + 1] = None /\ ended[issued + 1] = "no"
    BY <1>0, <1>1 DEF Unissued
  <1>5. \A t \in LockedBy(p) : ended[t] = "no" /\ \A c \in Tokens : parent[c] # t
    BY <1>0, <1>3 DEF EndedOnce
  <1>6. ASSUME NEW t \in Tokens PROVE (t \in live <=> (t <= issued /\ ended[t] = "no"))'
    <2>1. t \in live <=> (t <= issued /\ ended[t] = "no")
      BY <1>0 DEF EndedOnce
    <2>2. CASE t = issued + 1
      BY <1>1, <1>2, <1>3, <1>4, <2>2
    <2>3. CASE t # issued + 1
      <3>1. t <= issued' <=> t <= issued
        BY <1>1, <2>3
      <3> QED
        BY <1>2, <2>1, <2>3, <3>1
    <2> QED
      BY <2>2, <2>3
  <1>7. ASSUME NEW c \in Tokens, NEW d \in Tokens, parent'[c] # None, parent'[c] = parent'[d]
        PROVE  c = d
    <2>1. parent[c] # None /\ parent[c] = parent[d] => c = d
      BY <1>0 DEF EndedOnce
    <2>2. from # None => \A x \in Tokens : parent[x] # from
      BY <1>5
    <2> QED
      BY <1>2, <1>7, <2>1, <2>2
  <1>8. ASSUME NEW t \in Tokens PROVE (ended[t] = "rotated" <=> \E c \in Tokens : parent[c] = t)'
    <2>1. ended[t] = "rotated" <=> \E c \in Tokens : parent[c] = t
      BY <1>0 DEF EndedOnce
    <2>2. CASE t \in LockedBy(p) /\ how = "rotated"
      <3>1. t = from
        BY <2>2
      <3> QED
        BY <1>1, <1>2, <2>2, <3>1
    <2>3. CASE t \in LockedBy(p) /\ how = "replaced"
      BY <1>2, <1>5, <2>3
    <2>4. CASE t \notin LockedBy(p)
      <3>1. from # t
        BY <2>4
      <3>2. (\E c \in Tokens : parent'[c] = t) <=> (\E c \in Tokens : parent[c] = t)
        BY <1>1, <1>2, <1>4, <3>1
      <3> QED
        BY <1>2, <2>1, <2>4, <3>2
    <2> QED
      BY <2>2, <2>3, <2>4
  <1>9. ASSUME NEW t \in Tokens, t > issued'
        PROVE  parent'[t] = None /\ device'[t] = None /\ ended'[t] = "no"
    <2>1. t > issued /\ t # issued + 1
      BY <1>1, <1>9
    <2>2. parent[t] = None /\ device[t] = None /\ ended[t] = "no"
      BY <1>0, <2>1 DEF Unissued
    <2>3. t \notin LockedBy(p)
      BY <1>0, <1>1, <2>1 DEF TokenType
    <2> QED
      BY <1>2, <2>1, <2>2, <2>3
  <1> QED
    BY <1>6, <1>7, <1>8, <1>9 DEF EndedOnce, Unissued

\* A new user, and a link, are the only changes of who logs in with what; neither
\* takes anything back.
LEMMA KakaoMoves ==
    ASSUME Inv, NEW p \in Procs, Step(p)
    PROVE  /\ AccountType'
           /\ \A e \in Emails : type[e] # "NONE" => type'[e] # "NONE"
           /\ \A e \in Emails :
                \/ kakao'[e] = kakao[e]
                \/ /\ e = req[p].email /\ kakao[e] = None /\ kakao'[e] = req[p].kakao
                   /\ type'[e] # "NONE" /\ ~LinkPending(p)
                   /\ \A f \in Emails : kakao[f] # req[p].kakao
  <1>0. /\ AccountType /\ RequestsHold /\ LinksPending /\ AbsentIsBlank
        /\ req[p] \in Requests /\ pc[p] \in States
    BY TypeParts DEF Inv, ControlType
  <1>1. CASE UNCHANGED account
    BY <1>0, <1>1 DEF AccountType, account
  <1>2. ASSUME InsertUser(req[p]), Unique(req[p]), req[p].email \in Emails,
               req[p].kakao = None \/ ~LinkPending(p)
        PROVE  /\ AccountType'
               /\ \A e \in Emails : type[e] # "NONE" => type'[e] # "NONE"
               /\ \A e \in Emails :
                    \/ kakao'[e] = kakao[e]
                    \/ /\ e = req[p].email /\ kakao[e] = None /\ kakao'[e] = req[p].kakao
                       /\ type'[e] # "NONE" /\ ~LinkPending(p)
                       /\ \A f \in Emails : kakao[f] # req[p].kakao
    <2>1. AccountType'
      BY <1>0, <1>2 DEF AccountType, InsertUser, Requests
    <2>2. /\ type[req[p].email] = "NONE" /\ kakao[req[p].email] = None
          /\ type'[req[p].email] # "NONE"
      BY <1>0, <1>2 DEF Unique, Exists, AbsentIsBlank, InsertUser, AccountType, Requests, UserTypes
    <2>3. \A e \in Emails \ {req[p].email} : kakao'[e] = kakao[e] /\ type'[e] = type[e]
      BY <1>0, <1>2 DEF AccountType, InsertUser
    <2>4. kakao'[req[p].email] = req[p].kakao
      BY <1>0, <1>2 DEF AccountType, InsertUser
    <2>5. req[p].kakao # None => \A f \in Emails : kakao[f] # req[p].kakao
      BY <1>2 DEF Unique
    <2> QED
      BY <1>2, <2>1, <2>2, <2>3, <2>4, <2>5
  <1>3. CASE createUserWithLocalAuth(p)
    <2>1. req[p].email \in Emails /\ req[p].kakao = None
      BY <1>0, <1>3 DEF RequestsHold, createUserWithLocalAuth
    <2> QED
      BY <1>1, <1>2, <1>3, <2>1 DEF createUserWithLocalAuth
  <1>4. CASE createKakaoUser(p)
    <2>1. req[p].email \in Emails
      BY <1>0, <1>4 DEF RequestsHold, createKakaoUser
    <2> QED
      BY <1>1, <1>2, <1>4, <2>1 DEF createKakaoUser
  <1>5. CASE createRefreshTokenRecord(p) /\ req[p].link
    <2>1. /\ req[p].email \in Emails /\ req[p].kakao \in KakaoIds
          /\ type[req[p].email] # "NONE" /\ kakao[req[p].email] = None
          /\ \A e \in Emails : kakao[e] # req[p].kakao
          /\ ~LinkPending(p)
      BY <1>0, <1>5 DEF RequestsHold, LinksPending, createRefreshTokenRecord, Exists
    <2>2. /\ kakao' = [kakao EXCEPT ![req[p].email] = req[p].kakao]
          /\ type' = type /\ nick' = nick /\ local' = local
      BY <1>5 DEF createRefreshTokenRecord
    <2> QED
      BY <1>0, <2>1, <2>2 DEF AccountType
  <1>6. CASE createRefreshTokenRecord(p) /\ ~req[p].link
    BY <1>1, <1>6 DEF createRefreshTokenRecord, account
  <1>7. CASE updatePasswordHash(p)
    <2>1. /\ kakao' = kakao /\ type' = type /\ nick' = nick
          /\ local' = [local EXCEPT ![req[p].email] = req[p].pw]
      BY <1>7 DEF updatePasswordHash
    <2> QED
      BY <1>0, <2>1 DEF AccountType, Requests
  <1> QED
    BY <1>1, <1>3, <1>4, <1>5, <1>6, <1>7 DEF Step, Begin, Continue, Abort, findUserByEmail,
       authenticateUser, fetchKakaoUserInfo, refreshAuthToken, resolvePasswordHashForUpdate,
       authenticateAdmin, validateAdminRefreshToken, findUserByNickname,
       deleteRefreshTokensByUserId, LockRows, kakaoLogin, linkKakaoToExistingUser,
       linkKakaoAuthToUser, resolveUniqueKakaoNickname, deleteRefreshTokenByHash,
       refreshAdminToken

\* What a step issues, and for whom.
Issues(p, u, k, from, how) ==
    /\ Issue(p, u, k, from, how)
    /\ u \in Emails \cup Admins /\ k \in KakaoIds \cup {None}
    /\ \/ from = None /\ how = "replaced"
       \/ from \in Tokens /\ how = "rotated" /\ LockedBy(p) = {from}
    /\ k # None => u \in Emails /\ kakao'[u] = k
    /\ u \in Emails => /\ u = req[p].email /\ pc[p] \in {"insert", "create"}
                       /\ Return(p)
    /\ u \in Admins => UNCHANGED <<lock, pc, req, before>> /\ pc[p] = "idle"

\* A step issues one token or leaves the tokens alone.
LEMMA TokensMove ==
    ASSUME Inv, NEW p \in Procs, Step(p)
    PROVE  UNCHANGED tokens \/ \E u, k, from, how : Issues(p, u, k, from, how)
  <1>0. /\ AccountType /\ RequestsHold /\ LinksPending
        /\ req[p] \in Requests /\ pc[p] \in States
    BY TypeParts DEF Inv, ControlType
  <1>1. CASE createRefreshTokenRecord(p)
    <2>1. req[p].email \in Emails /\ pc[p] = "insert"
      BY <1>0, <1>1 DEF RequestsHold, createRefreshTokenRecord
    <2>2. req[p].kakao # None => kakao'[req[p].email] = req[p].kakao
      <3>1. CASE req[p].link
        BY <1>0, <1>1, <2>1, <3>1 DEF createRefreshTokenRecord, AccountType
      <3>2. CASE ~req[p].link
        BY <1>0, <1>1, <2>1, <3>2 DEF createRefreshTokenRecord, RequestsHold
      <3> QED
        BY <3>1, <3>2
    <2>3. req[p].kakao \in KakaoIds \cup {None} /\ req[p].token \in Tokens \cup {None}
      BY <1>0 DEF Requests
    <2>4. req[p].token # None => LockedBy(p) = {req[p].token}
      BY <1>0, <2>1 DEF RequestsHold
    <2>5. /\ Issue(p, req[p].email, req[p].kakao, req[p].token,
                   IF req[p].token = None THEN "replaced" ELSE "rotated")
          /\ Return(p)
      BY <1>1 DEF createRefreshTokenRecord
    <2>6. Issues(p, req[p].email, req[p].kakao, req[p].token,
                 IF req[p].token = None THEN "replaced" ELSE "rotated")
      BY <2>1, <2>2, <2>3, <2>4, <2>5 DEF Issues
    <2> QED
      BY <2>6
  <1>2. CASE createKakaoUser(p) /\ Unique(req[p])
    <2>1. req[p].email \in Emails /\ req[p].kakao \in KakaoIds /\ pc[p] = "create"
      BY <1>0, <1>2 DEF RequestsHold, createKakaoUser
    <2>2. kakao'[req[p].email] = req[p].kakao
      BY <1>0, <1>2, <2>1 DEF createKakaoUser, InsertUser, AccountType
    <2>3. /\ Issue(p, req[p].email, req[p].kakao, None, "replaced")
          /\ Return(p)
      BY <1>2 DEF createKakaoUser
    <2>4. Issues(p, req[p].email, req[p].kakao, None, "replaced")
      BY <2>1, <2>2, <2>3 DEF Issues
    <2> QED
      BY <2>4
  <1>3. CASE authenticateAdmin(p)
    <2>1. PICK a \in Admins : Issue(p, a, None, None, "replaced")
      BY <1>3 DEF authenticateAdmin
    <2>2. Issues(p, a, None, None, "replaced")
      BY <1>3, <2>1 DEF Issues, authenticateAdmin
    <2> QED
      BY <2>2
  <1> QED
    BY <1>1, <1>2, <1>3 DEF Step, Begin, Continue, Abort, findUserByEmail,
       authenticateUser, fetchKakaoUserInfo, refreshAuthToken, resolvePasswordHashForUpdate,
       validateAdminRefreshToken, findUserByNickname, createUserWithLocalAuth,
       deleteRefreshTokensByUserId, LockRows, kakaoLogin, linkKakaoToExistingUser,
       linkKakaoAuthToUser, resolveUniqueKakaoNickname, deleteRefreshTokenByHash,
       createKakaoUser, updatePasswordHash, refreshAdminToken

\* What is issued, field by field.
LEMMA Issued ==
    ASSUME Inv, NEW p \in Procs, NEW u, NEW k, NEW from, NEW how, Issues(p, u, k, from, how)
    PROVE  /\ issued' = issued + 1 /\ issued + 1 \in Tokens /\ issued + 1 \notin live
           /\ live' = (live \ LockedBy(p)) \cup {issued + 1}
           /\ \A t \in Tokens : owner'[t] = IF t = issued + 1 THEN u ELSE owner[t]
           /\ \A t \in Tokens : device'[t] = IF t = issued + 1 THEN k ELSE device[t]
           /\ device[issued + 1] = None
  <1>0. TokenType /\ Unissued
    BY TypeParts DEF Inv
  <1>1. /\ issued \in Nat /\ issued' = issued + 1 /\ issued + 1 \in Tokens
        /\ Tokens \subseteq Nat /\ issued + 1 \notin live /\ issued + 1 > issued
    BY <1>0 DEF TokenType, Issues, Issue, Tokens
  <1> QED
    BY <1>0, <1>1 DEF TokenType, Issues, Issue, Unissued

\* A step keeps the tokens' types and the history of each.
LEMMA TokensInv ==
    ASSUME Inv, NEW p \in Procs, Step(p)
    PROVE  TokenType' /\ EndedOnce' /\ Unissued'
  <1>1. CASE UNCHANGED tokens
    BY <1>1, TypeParts DEF Inv, TokenType, EndedOnce, Unissued, tokens, history
  <1>2. ASSUME NEW u, NEW k, NEW from, NEW how, Issues(p, u, k, from, how)
        PROVE  TokenType' /\ EndedOnce' /\ Unissued'
    <2>1. TokenType'
      BY <1>2, IssueType DEF Issues
    <2>2. EndedOnce' /\ Unissued'
      BY <1>2, IssueEnds DEF Issues
    <2> QED
      BY <2>1, <2>2
  <1> QED
    BY <1>1, <1>2, TokensMove

\* No step gives a session of Kakao to a user its account is not linked to.
LEMMA IdentityInv ==
    ASSUME Inv, NEW p \in Procs, Step(p)
    PROVE  IdentityProven' /\ AbsentIsBlank'
  <1>0. AccountType /\ TokenType /\ IdentityProven /\ AbsentIsBlank
    BY TypeParts DEF Inv
  <1>1. ASSUME NEW t \in Tokens, device'[t] # None
        PROVE  owner'[t] \in Emails /\ kakao'[owner'[t]] = device'[t]
    <2>1. CASE device'[t] = device[t] /\ owner'[t] = owner[t]
      <3>1. owner[t] \in Emails /\ kakao[owner[t]] = device[t]
        BY <1>0, <1>1, <2>1 DEF IdentityProven, AbsentIsBlank
      <3> QED
        BY <1>1, <2>1, <3>1, KakaoMoves
    <2>2. ASSUME NEW u, NEW k, NEW from, NEW how, Issues(p, u, k, from, how)
          PROVE  owner'[t] \in Emails /\ kakao'[owner'[t]] = device'[t]
      BY <1>1, <2>1, <2>2, Issued DEF Issues
    <2> QED
      BY <2>1, <2>2, TokensMove DEF tokens, history
  <1>2. ASSUME NEW e \in Emails, NEW f \in Emails, kakao'[e] # None, kakao'[e] = kakao'[f]
        PROVE  e = f
    <2>1. kakao[e] # None /\ kakao[e] = kakao[f] => e = f
      BY <1>0 DEF IdentityProven
    <2> QED
      BY <1>2, <2>1, KakaoMoves
  <1>3. ASSUME NEW e \in Emails, type'[e] = "NONE" PROVE kakao'[e] = None
    BY <1>0, <1>3, KakaoMoves DEF AbsentIsBlank, Exists
  <1> QED
    BY <1>1, <1>2, <1>3 DEF IdentityProven, AbsentIsBlank, Exists

\* A request's answer ends what it held.
LEMMA ReturnEnds ==
    ASSUME Inv, NEW p \in Procs, Return(p)
    PROVE  /\ pc'[p] = "idle" /\ req'[p] = Blank
           /\ \A t \in Tokens : lock'[t] # p
  BY TypeParts DEF Inv, Return, Goto, ControlType

\* Which steps come with locks, and from where.
LEMMA OwnLocksMove ==
    ASSUME Inv, NEW p \in Procs, Step(p), NEW t \in Tokens, lock'[t] = p
    PROVE  /\ pc'[p] = "insert" /\ t \in live /\ UNCHANGED tokens
           /\ \/ LockRows(p) /\ t \in req[p].rows
              \/ deleteRefreshTokenByHash(p) /\ t = req[p].token
  <1>0. ControlType /\ RequestsHold
    BY TypeParts DEF Inv
  <1>1. ~Return(p)
    BY ReturnEnds
  <1>2. lock[t] = p => pc[p] = "insert"
    BY OwnLocks DEF LockedBy
  <1>3. CASE LockRows(p)
    <2>1. pc[p] = "deleting" /\ pc'[p] = "insert" /\ UNCHANGED tokens
      BY <1>0, <1>3 DEF LockRows, Goto, ControlType
    <2>2. t \in req[p].rows \cap live
      BY <1>2, <1>3, <2>1 DEF LockRows
    <2> QED
      BY <1>3, <2>1, <2>2
  <1>4. CASE deleteRefreshTokenByHash(p)
    <2>1. /\ pc[p] = "rotate" /\ pc'[p] = "insert" /\ UNCHANGED tokens
          /\ req[p].token \in live /\ lock' = [lock EXCEPT ![req[p].token] = p]
      BY <1>0, <1>1, <1>4 DEF deleteRefreshTokenByHash, Goto, ControlType
    <2>2. t = req[p].token
      BY <1>0, <1>2, <2>1 DEF ControlType
    <2> QED
      BY <1>4, <2>1, <2>2
  <1>5. CASE lock' = lock /\ pc[p] # "insert"
    BY <1>2, <1>5
  <1> QED
    BY <1>1, <1>3, <1>4, <1>5 DEF Step, Begin, Continue, Abort, findUserByEmail,
       authenticateUser, fetchKakaoUserInfo, refreshAuthToken, resolvePasswordHashForUpdate,
       authenticateAdmin, validateAdminRefreshToken, findUserByNickname,
       createUserWithLocalAuth, deleteRefreshTokensByUserId, createRefreshTokenRecord,
       kakaoLogin, linkKakaoToExistingUser, linkKakaoAuthToUser, createKakaoUser,
       resolveUniqueKakaoNickname, updatePasswordHash, refreshAdminToken

\* A locked row is there until its holder commits.
LEMMA LocksInv ==
    ASSUME Inv, NEW p \in Procs, Step(p)
    PROVE  LocksHeld'
  <1>0. ControlType /\ ControlType' /\ LocksHeld
    BY TypeParts, ControlInv DEF Inv
  <1>1. SUFFICES ASSUME NEW t \in Tokens, lock'[t] # None
                 PROVE  t \in live' /\ pc'[lock'[t]] = "insert"
    BY DEF LocksHeld
  <1>2. CASE lock'[t] = p
    BY <1>2, OwnLocksMove DEF tokens
  <1>3. CASE lock'[t] # p
    <2>1. lock'[t] \in Procs \ {p}
      BY <1>0, <1>1, <1>3 DEF ControlType
    <2>2. lock[t] = lock'[t] /\ pc'[lock'[t]] = pc[lock[t]]
      BY <2>1, OthersKeep
    <2>3. t \in live /\ pc[lock[t]] = "insert" /\ t \notin LockedBy(p)
      BY <1>0, <2>1, <2>2 DEF LocksHeld, LockedBy
    <2>4. t \in live'
      <3>1. CASE UNCHANGED tokens
        BY <2>3, <3>1 DEF tokens
      <3>2. ASSUME NEW u, NEW k, NEW from, NEW how, Issues(p, u, k, from, how)
            PROVE  t \in live'
        BY <2>3, <3>2, Issued
      <3> QED
        BY <3>1, <3>2, TokensMove
    <2> QED
      BY <2>2, <2>3, <2>4
  <1> QED
    BY <1>2, <1>3

\* What a request holds, one request at a time.
RequestHolds(q) ==
    /\ pc[q] \in {"nickname", "signup", "resolve", "create", "link", "byEmail", "delete",
                  "deleting", "insert", "rotate", "password"} => req[q].email \in Emails
    /\ pc[q] = "link" => Exists(req[q].email)
    /\ pc[q] \in {"nickname", "signup", "password"} => req[q].kakao = None
    /\ pc[q] \in {"kakao", "byEmail", "resolve", "create", "link"} => req[q].kakao \in KakaoIds
    /\ pc[q] \in {"rotate", "admin"} => req[q].token # None
    /\ req[q].token # None => pc[q] \in {"rotate", "insert", "admin"}
    /\ pc[q] = "insert" /\ req[q].token # None => LockedBy(q) = {req[q].token}
    /\ pc[q] \in {"delete", "deleting", "insert", "rotate"} /\ req[q].kakao # None
       /\ ~req[q].link => kakao[req[q].email] = req[q].kakao

\* What a request holds stays true in another's step.
LEMMA OthersRequest ==
    ASSUME Inv, NEW p \in Procs, Step(p), NEW q \in Procs \ {p}
    PROVE  RequestHolds(q)'
  <1>0. RequestHolds(q)
    BY DEF Inv, RequestsHold, RequestHolds
  <1>1. pc'[q] = pc[q] /\ req'[q] = req[q]
    BY OthersKeep
  <1>2. LockedBy(q)' = LockedBy(q)
    BY OthersKeep DEF LockedBy
  <1>3. ASSUME req[q].email \in Emails, kakao[req[q].email] = req[q].kakao, req[q].kakao # None
        PROVE  kakao'[req[q].email] = req[q].kakao
    BY <1>3, KakaoMoves
  <1>4. ASSUME req[q].email \in Emails, Exists(req[q].email)
        PROVE  type'[req[q].email] # "NONE"
    BY <1>4, KakaoMoves DEF Exists
  <1> QED
    BY <1>0, <1>1, <1>2, <1>3, <1>4 DEF RequestHolds, Exists

\* What a request holds is true after its own step.
LEMMA OwnRequest ==
    ASSUME Inv, NEW p \in Procs, Step(p)
    PROVE  RequestHolds(p)'
  <1>0. /\ ControlType /\ AccountType /\ TokenType /\ RequestHolds(p)
        /\ req[p] \in Requests /\ pc[p] \in States
        /\ IdentityProven
    BY TypeParts DEF Inv, RequestsHold, RequestHolds, ControlType
  <1>1. CASE Return(p)
    <2>1. pc'[p] = "idle" /\ req'[p] = Blank /\ Blank.token = None
      BY <1>1, ReturnEnds DEF Blank
    <2> QED
      BY <2>1 DEF RequestHolds
  <1>2. CASE findUserByEmail(p)
    <2>1. pc'[p] = "nickname" /\ req'[p].email \in Emails /\ req'[p].kakao = None
          /\ req'[p].token = None
      BY <1>0, <1>2 DEF findUserByEmail, Goto, ControlType, Blank
    <2> QED
      BY <2>1 DEF RequestHolds
  <1>3. CASE authenticateUser(p)
    <2>1. pc'[p] = "delete" /\ req'[p].email \in Emails /\ req'[p].kakao = None
          /\ req'[p].token = None
      BY <1>0, <1>3 DEF authenticateUser, Goto, ControlType, Blank
    <2> QED
      BY <2>1 DEF RequestHolds
  <1>4. CASE fetchKakaoUserInfo(p)
    <2>1. pc'[p] = "kakao" /\ req'[p].kakao \in KakaoIds /\ req'[p].token = None
      BY <1>0, <1>4 DEF fetchKakaoUserInfo, Goto, ControlType, Blank
    <2> QED
      BY <2>1 DEF RequestHolds
  <1>5. CASE refreshAuthToken(p)
    <2>1. PICK t \in live : /\ owner[t] \in Emails
                            /\ Goto(p, "rotate", [Blank EXCEPT !.token = t, !.email = owner[t],
                                                               !.kakao = device[t]])
      BY <1>5 DEF refreshAuthToken, verifyRefreshToken
    <2>2. /\ pc'[p] = "rotate" /\ req'[p].token = t /\ req'[p].email = owner[t]
          /\ req'[p].kakao = device[t]
      BY <1>0, <2>1 DEF Goto, ControlType, Blank
    <2>3. t \in Tokens /\ t # None
      BY <1>0, <2>1 DEF TokenType, Tokens
    <2>4. device[t] # None => kakao'[owner[t]] = device[t]
      BY <1>0, <1>5, <2>3 DEF IdentityProven, refreshAuthToken, account
    <2> QED
      BY <2>1, <2>2, <2>3, <2>4 DEF RequestHolds
  <1>6. CASE resolvePasswordHashForUpdate(p)
    <2>1. pc'[p] = "password" /\ req'[p].email \in Emails /\ req'[p].kakao = None
          /\ req'[p].token = None
      BY <1>0, <1>6 DEF resolvePasswordHashForUpdate, Goto, ControlType, Blank
    <2> QED
      BY <2>1 DEF RequestHolds
  <1>7. CASE authenticateAdmin(p)
    <2>1. pc'[p] = "idle" /\ req'[p].token = None
      BY <1>0, <1>7 DEF authenticateAdmin, RequestHolds
    <2> QED
      BY <2>1 DEF RequestHolds
  <1>8. CASE validateAdminRefreshToken(p)
    <2>1. PICK t \in live : Goto(p, "admin", [Blank EXCEPT !.token = t])
      BY <1>8 DEF validateAdminRefreshToken
    <2>2. t \in Tokens /\ t # None
      BY <1>0, <2>1 DEF TokenType, Tokens
    <2>3. pc'[p] = "admin" /\ req'[p].token = t
      BY <1>0, <2>1 DEF Goto, ControlType, Blank
    <2> QED
      BY <2>2, <2>3 DEF RequestHolds
  <1>9. CASE findUserByNickname(p) /\ ~Return(p)
    <2>1. pc[p] = "nickname" /\ pc'[p] = "signup" /\ req'[p] = req[p]
      BY <1>0, <1>9 DEF findUserByNickname, Goto, ControlType
    <2> QED
      BY <1>0, <2>1 DEF RequestHolds
  <1>10. CASE deleteRefreshTokensByUserId(p)
    <2>1. /\ pc[p] = "delete" /\ pc'[p] = "deleting" /\ kakao' = kakao
          /\ req'[p].email = req[p].email /\ req'[p].kakao = req[p].kakao
          /\ req'[p].token = req[p].token /\ req'[p].link = req[p].link
      BY <1>0, <1>10 DEF deleteRefreshTokensByUserId, Goto, ControlType, Requests, account
    <2> QED
      BY <1>0, <2>1 DEF RequestHolds
  <1>11. CASE LockRows(p)
    <2>1. /\ pc[p] = "deleting" /\ pc'[p] = "insert" /\ kakao' = kakao
          /\ req'[p].email = req[p].email /\ req'[p].kakao = req[p].kakao
          /\ req'[p].token = req[p].token /\ req'[p].link = req[p].link
      BY <1>0, <1>11 DEF LockRows, Goto, ControlType, Requests, account
    <2> QED
      BY <1>0, <2>1 DEF RequestHolds
  <1>12. CASE kakaoLogin(p) /\ ~Return(p)
    <2>1. CASE Goto(p, "byEmail", req[p]) /\ req[p].email # None /\ pc[p] = "kakao"
      <3>1. pc'[p] = "byEmail" /\ req'[p] = req[p] /\ req[p].email \in Emails
        BY <1>0, <2>1 DEF Goto, ControlType, Requests
      <3> QED
        BY <1>0, <2>1, <3>1 DEF RequestHolds
    <2>2. CASE \E e \in findUserByKakaoProviderAccountId(req[p].kakao) :
                 Goto(p, "delete", [Blank EXCEPT !.email = e, !.kakao = req[p].kakao])
      <3>1. PICK e \in Emails : /\ kakao[e] = req[p].kakao
                                /\ Goto(p, "delete", [Blank EXCEPT !.email = e, !.kakao = req[p].kakao])
        BY <2>2 DEF findUserByKakaoProviderAccountId
      <3>2. /\ pc'[p] = "delete" /\ req'[p].email = e /\ req'[p].kakao = req[p].kakao
            /\ req'[p].token = None
        BY <1>0, <3>1 DEF Goto, ControlType, Blank
      <3>3. kakao' = kakao
        BY <1>12 DEF kakaoLogin, account
      <3> QED
        BY <3>1, <3>2, <3>3 DEF RequestHolds
    <2> QED
      BY <1>12, <2>1, <2>2 DEF kakaoLogin
  <1>13. CASE linkKakaoToExistingUser(p) /\ ~Return(p)
    <2>1. /\ pc[p] = "byEmail" /\ kakao' = kakao /\ type' = type
          /\ req[p].email \in Emails /\ req[p].kakao \in KakaoIds /\ req[p].token = None
      BY <1>0, <1>13 DEF linkKakaoToExistingUser, RequestHolds, account
    <2>2. /\ Session(req[p]).email = req[p].email /\ Session(req[p]).kakao = req[p].kakao
          /\ Session(req[p]).token = None
      BY DEF Session, Blank
    <2>3. \/ pc'[p] = "resolve" /\ req'[p] = req[p]
          \/ /\ pc'[p] = "link" /\ req'[p] = Session(req[p])
             /\ type[req[p].email] # "NONE"
          \/ /\ pc'[p] = "delete" /\ req'[p] = Session(req[p])
             /\ kakao[req[p].email] = req[p].kakao
      BY <1>0, <1>13 DEF linkKakaoToExistingUser, MayLink, Exists, Goto, ControlType
    <2> QED
      BY <2>1, <2>2, <2>3 DEF RequestHolds, Exists
  <1>14. CASE linkKakaoAuthToUser(p) /\ ~Return(p)
    <2>1. /\ pc[p] = "link" /\ pc'[p] = "delete" /\ req'[p].email = req[p].email
          /\ req'[p].token = req[p].token /\ req'[p].link
      BY <1>0, <1>14 DEF linkKakaoAuthToUser, Goto, ControlType, Requests
    <2> QED
      BY <1>0, <2>1 DEF RequestHolds
  <1>15. CASE resolveUniqueKakaoNickname(p)
    <2>1. /\ pc[p] = "resolve" /\ pc'[p] = "create" /\ req'[p].email = req[p].email
          /\ req'[p].token = req[p].token /\ req'[p].kakao = req[p].kakao
      BY <1>0, <1>15 DEF resolveUniqueKakaoNickname, Goto, ControlType, Requests
    <2> QED
      BY <1>0, <2>1 DEF RequestHolds
  <1>16. CASE deleteRefreshTokenByHash(p) /\ ~Return(p)
    <2>1. /\ pc[p] = "rotate" /\ pc'[p] = "insert" /\ req'[p] = req[p] /\ kakao' = kakao
          /\ lock' = [lock EXCEPT ![req[p].token] = p]
      BY <1>0, <1>16 DEF deleteRefreshTokenByHash, Goto, ControlType, account
    <2>2. req[p].token \in Tokens
      BY <1>0, <2>1 DEF RequestHolds, Requests
    <2>3. LockedBy(p) = {}
      BY <2>1, OwnLocks
    <2>4. LockedBy(p)' = {req[p].token}
      BY <1>0, <2>1, <2>2, <2>3 DEF LockedBy, ControlType
    <2> QED
      BY <1>0, <2>1, <2>4 DEF RequestHolds
  <1>17. CASE \/ createUserWithLocalAuth(p) \/ createRefreshTokenRecord(p)
              \/ createKakaoUser(p) \/ updatePasswordHash(p) \/ refreshAdminToken(p) \/ Abort(p)
    BY <1>1, <1>17 DEF createUserWithLocalAuth, createRefreshTokenRecord, createKakaoUser,
       updatePasswordHash, refreshAdminToken, Abort
  <1> QED
    BY <1>1, <1>2, <1>3, <1>4, <1>5, <1>6, <1>7, <1>8, <1>9, <1>10, <1>11, <1>12,
       <1>13, <1>14, <1>15, <1>16, <1>17 DEF Step, Begin, Continue

\* What a link that is not committed rests on, one request at a time.
LinkHolds(q) ==
    req[q].link =>
        /\ pc[q] \in {"delete", "deleting", "insert"}
        /\ Exists(req[q].email)
        /\ req[q].kakao \in KakaoIds
        /\ kakao[req[q].email] = None
        /\ \A e \in Emails : kakao[e] # req[q].kakao
        /\ ~LinkPending(q)

\* A request that starts, and a session, holds no link.
LEMMA StartsUnlinked ==
    /\ Blank.link = FALSE
    /\ \A e : [Blank EXCEPT !.email = e].link = FALSE
    /\ \A e, k : [Blank EXCEPT !.email = e, !.kakao = k].link = FALSE
    /\ \A t : [Blank EXCEPT !.token = t].link = FALSE
  BY DEF Blank

\* Where a request that goes on stands, and what it holds.
LEMMA GotoHolds ==
    ASSUME ControlType, NEW p \in Procs, NEW s, NEW r, Goto(p, s, r)
    PROVE  req'[p] = r /\ pc'[p] = s
  BY DEF ControlType, Goto

\* A link is begun by linkKakaoAuthToUser, or a session is being made for it.
LEMMA OwnLink ==
    ASSUME Inv, NEW p \in Procs, Step(p), req'[p].link
    PROVE  /\ req'[p].email = req[p].email /\ req'[p].kakao = req[p].kakao
           /\ pc'[p] \in {"delete", "deleting", "insert"}
           /\ type' = type /\ kakao' = kakao
           /\ \/ req[p].link
              \/ /\ pc[p] = "link" /\ ~LinkPending(p) /\ kakao[req[p].email] = None
                 /\ \A e \in Emails : kakao[e] # req[p].kakao
  <1>0. /\ ControlType /\ req[p] \in Requests
        /\ req[p].link => pc[p] \in {"delete", "deleting", "insert"}
    BY TypeParts DEF Inv, LinksPending, ControlType
  <1>b. Blank.link = FALSE /\ req'[p].link # FALSE
    BY DEF Blank
  <1>1. ~Return(p)
    BY <1>b, ReturnEnds
  <1>2. CASE linkKakaoAuthToUser(p)
    BY <1>0, <1>1, <1>2 DEF linkKakaoAuthToUser, Goto, ControlType, Requests, account
  <1>3. CASE deleteRefreshTokensByUserId(p) \/ LockRows(p)
    BY <1>0, <1>3 DEF deleteRefreshTokensByUserId, LockRows, Goto, ControlType, Requests, account
  <1>4. CASE req'[p] = req[p] /\ pc[p] \notin {"delete", "deleting", "insert"}
    BY <1>0, <1>4
  <1>5. CASE \/ findUserByEmail(p) \/ authenticateUser(p) \/ fetchKakaoUserInfo(p)
             \/ refreshAuthToken(p) \/ resolvePasswordHashForUpdate(p)
             \/ validateAdminRefreshToken(p)
    <2>1. \E s, r : Goto(p, s, r) /\ r.link = FALSE
      <3>1. CASE findUserByEmail(p)
        <4>1. PICK e \in Emails, n \in Nicknames, w \in Passwords, y \in UserTypes :
                Goto(p, "nickname", [Blank EXCEPT !.email = e, !.nick = n, !.pw = w, !.type = y])
          BY <3>1 DEF findUserByEmail
        <4>2. [Blank EXCEPT !.email = e, !.nick = n, !.pw = w, !.type = y].link = FALSE
          BY DEF Blank
        <4> QED
          BY <4>1, <4>2
      <3>2. CASE authenticateUser(p)
        BY <3>2, StartsUnlinked DEF authenticateUser
      <3>3. CASE fetchKakaoUserInfo(p)
        <4>1. PICK k \in KakaoIds, e \in Emails \cup {None}, n \in Nicknames, y \in UserTypes :
                Goto(p, "kakao", [Blank EXCEPT !.kakao = k, !.email = e, !.nick = n, !.type = y])
          BY <3>3 DEF fetchKakaoUserInfo
        <4>2. [Blank EXCEPT !.kakao = k, !.email = e, !.nick = n, !.type = y].link = FALSE
          BY DEF Blank
        <4> QED
          BY <4>1, <4>2
      <3>4. CASE refreshAuthToken(p)
        <4>1. PICK t \in live :
                Goto(p, "rotate", [Blank EXCEPT !.token = t, !.email = owner[t], !.kakao = device[t]])
          BY <3>4 DEF refreshAuthToken
        <4>2. [Blank EXCEPT !.token = t, !.email = owner[t], !.kakao = device[t]].link = FALSE
          BY DEF Blank
        <4> QED
          BY <4>1, <4>2
      <3>5. CASE resolvePasswordHashForUpdate(p)
        <4>1. PICK e \in Emails, w \in Passwords :
                Goto(p, "password", [Blank EXCEPT !.email = e, !.pw = w])
          BY <3>5 DEF resolvePasswordHashForUpdate
        <4>2. [Blank EXCEPT !.email = e, !.pw = w].link = FALSE
          BY DEF Blank
        <4> QED
          BY <4>1, <4>2
      <3>6. CASE validateAdminRefreshToken(p)
        BY <3>6, StartsUnlinked DEF validateAdminRefreshToken
      <3> QED
        BY <1>5, <3>1, <3>2, <3>3, <3>4, <3>5, <3>6
    <2> QED
      BY <1>0, <1>b, <2>1, GotoHolds
  <1>6. CASE kakaoLogin(p) \/ linkKakaoToExistingUser(p)
    <2>1. \E s, r : Goto(p, s, r) /\ (r = req[p] \/ r.link = FALSE)
      <3>1. CASE kakaoLogin(p)
        <4>1. \/ Goto(p, "byEmail", req[p])
              \/ \E e \in Emails :
                   Goto(p, "delete", [Blank EXCEPT !.email = e, !.kakao = req[p].kakao])
          BY <1>1, <3>1 DEF kakaoLogin, findUserByKakaoProviderAccountId
        <4>2. CASE Goto(p, "byEmail", req[p])
          BY <4>2
        <4>3. CASE \E e \in Emails :
                     Goto(p, "delete", [Blank EXCEPT !.email = e, !.kakao = req[p].kakao])
          <5>1. PICK e \in Emails :
                  Goto(p, "delete", [Blank EXCEPT !.email = e, !.kakao = req[p].kakao])
            BY <4>3
          <5>2. [Blank EXCEPT !.email = e, !.kakao = req[p].kakao].link = FALSE
            BY DEF Blank
          <5> QED
            BY <5>1, <5>2
        <4> QED
          BY <4>1, <4>2, <4>3
      <3>2. CASE linkKakaoToExistingUser(p)
        <4>1. \/ Goto(p, "resolve", req[p]) \/ Goto(p, "link", Session(req[p]))
              \/ Goto(p, "delete", Session(req[p]))
          BY <1>1, <3>2 DEF linkKakaoToExistingUser
        <4>2. Session(req[p]).link = FALSE
          BY StartsUnlinked DEF Session
        <4> QED
          BY <4>1, <4>2
      <3> QED
        BY <1>6, <3>1, <3>2
    <2>2. pc[p] \in {"kakao", "byEmail"}
      BY <1>6 DEF kakaoLogin, linkKakaoToExistingUser
    <2>3. req'[p] = req[p] \/ req'[p].link = FALSE
      BY <1>0, <2>1, GotoHolds
    <2> QED
      BY <1>b, <1>4, <2>2, <2>3
  <1>7. CASE resolveUniqueKakaoNickname(p)
    <2>1. req'[p].link = req[p].link /\ pc[p] = "resolve"
      BY <1>0, <1>7 DEF resolveUniqueKakaoNickname, Goto, ControlType, Requests
    <2> QED
      BY <1>0, <2>1
  <1>8. CASE authenticateAdmin(p) \/ findUserByNickname(p) \/ deleteRefreshTokenByHash(p)
    <2>1. req'[p] = req[p] /\ pc[p] \in {"idle", "nickname", "rotate"}
      BY <1>0, <1>1, <1>8 DEF authenticateAdmin, findUserByNickname,
         deleteRefreshTokenByHash, Goto, ControlType
    <2> QED
      BY <1>4, <2>1
  <1> QED
    BY <1>1, <1>2, <1>3, <1>5, <1>6, <1>7, <1>8 DEF Step, Begin, Continue, Abort,
       createUserWithLocalAuth, createRefreshTokenRecord, createKakaoUser,
       updatePasswordHash, refreshAdminToken

\* A link that is not committed keeps others out, and stays to be made.
LEMMA LinksInv ==
    ASSUME Inv, NEW p \in Procs, Step(p)
    PROVE  LinksPending'
  <1>0. /\ ControlType /\ AccountType
        /\ \A q \in Procs : LinkHolds(q)
        /\ RequestsHold
        /\ AbsentIsBlank
    BY TypeParts DEF Inv, LinksPending, LinkHolds
  <1>1. ASSUME NEW q \in Procs, NEW o \in Procs \ {q}, req'[q].link, req'[o].link
        PROVE  req'[o].email # req'[q].email /\ req'[o].kakao # req'[q].kakao
    <2>1. \A x \in Procs : x # p => req'[x] = req[x]
      BY OthersKeep
    <2>2. \A x, y \in Procs : x # y /\ req[x].link /\ req[y].link =>
             req[x].email # req[y].email /\ req[x].kakao # req[y].kakao
      BY <1>0 DEF LinkHolds, LinkPending
    <2>3. ASSUME NEW y \in Procs \ {p}, req'[p].link, req[y].link
          PROVE  req'[p].email # req[y].email /\ req'[p].kakao # req[y].kakao
      <3>1. \/ req[p].link \/ ~LinkPending(p)
        BY <2>3, OwnLink
      <3>2. req'[p].email = req[p].email /\ req'[p].kakao = req[p].kakao
        BY <2>3, OwnLink
      <3> QED
        BY <2>2, <2>3, <3>1, <3>2 DEF LinkPending
    <2> QED
      BY <1>1, <2>1, <2>2, <2>3
  <1>2. ASSUME NEW q \in Procs, req'[q].link
        PROVE  /\ pc'[q] \in {"delete", "deleting", "insert"}
               /\ type'[req'[q].email] # "NONE"
               /\ req'[q].kakao \in KakaoIds
               /\ kakao'[req'[q].email] = None
               /\ \A e \in Emails : kakao'[e] # req'[q].kakao
    <2>1. CASE q = p
      <3>1. /\ req'[p].email = req[p].email /\ req'[p].kakao = req[p].kakao
            /\ pc'[p] \in {"delete", "deleting", "insert"}
            /\ type' = type /\ kakao' = kakao
            /\ \/ req[p].link
               \/ /\ pc[p] = "link" /\ ~LinkPending(p) /\ kakao[req[p].email] = None
                  /\ \A e \in Emails : kakao[e] # req[p].kakao
        BY <1>2, <2>1, OwnLink
      <3>2. CASE req[p].link
        BY <1>0, <2>1, <3>1, <3>2 DEF LinkHolds, Exists
      <3>3. CASE /\ pc[p] = "link" /\ ~LinkPending(p) /\ kakao[req[p].email] = None
                 /\ \A e \in Emails : kakao[e] # req[p].kakao
        <4>1. req[p].email \in Emails /\ req[p].kakao \in KakaoIds
          BY <1>0, <3>3 DEF RequestsHold
        <4>2. type[req[p].email] # "NONE"
          BY <1>0, <3>3 DEF RequestsHold, Exists
        <4> QED
          BY <2>1, <3>1, <3>3, <4>1, <4>2
      <3> QED
        BY <3>1, <3>2, <3>3
    <2>2. CASE q # p
      <3>1. req'[q] = req[q] /\ pc'[q] = pc[q] /\ req[q].link /\ LinkHolds(q)
        BY <1>0, <1>2, <2>2, OthersKeep
      <3>2. /\ pc[q] \in {"delete", "deleting", "insert"} /\ req[q].email \in Emails
            /\ type[req[q].email] # "NONE" /\ req[q].kakao \in KakaoIds
            /\ kakao[req[q].email] = None
            /\ \A e \in Emails : kakao[e] # req[q].kakao
        BY <1>0, <3>1 DEF LinkHolds, Exists, RequestsHold
      <3>3. \A e \in Emails : kakao'[e] = kakao[e] \/ (e # req[q].email /\ kakao'[e] # req[q].kakao)
        BY <2>2, <3>1, KakaoMoves DEF LinkPending
      <3> QED
        BY <3>1, <3>2, <3>3, KakaoMoves
    <2> QED
      BY <2>1, <2>2
  <1> QED
    BY <1>1, <1>2 DEF LinksPending, LinkPending, Exists

\* Who deletes and who inserts next.
LEMMA OwnMoves ==
    ASSUME Inv, NEW p \in Procs, Step(p)
    PROVE  /\ pc'[p] = "deleting" => deleteRefreshTokensByUserId(p)
           /\ pc'[p] = "insert" => LockRows(p) \/ deleteRefreshTokenByHash(p)
  <1>0. ControlType
    BY TypeParts DEF Inv
  <1>1. CASE Return(p)
    BY <1>0, <1>1, GotoHolds DEF Return
  <1>2. CASE authenticateAdmin(p)
    BY <1>2 DEF authenticateAdmin
  <1>3. CASE \E s \in States \ {"deleting", "insert"} : \E r : Goto(p, s, r)
    BY <1>0, <1>3, GotoHolds
  <1>4. CASE \/ findUserByEmail(p) \/ authenticateUser(p) \/ fetchKakaoUserInfo(p)
             \/ refreshAuthToken(p) \/ resolvePasswordHashForUpdate(p)
             \/ validateAdminRefreshToken(p)
    <2>1. \E s \in {"nickname", "delete", "kakao", "rotate", "password", "admin"} : \E r : Goto(p, s, r)
      BY <1>4 DEF findUserByEmail, authenticateUser, fetchKakaoUserInfo, refreshAuthToken,
         resolvePasswordHashForUpdate, validateAdminRefreshToken
    <2> QED
      BY <1>3, <2>1 DEF States
  <1>5. CASE \/ findUserByNickname(p) \/ kakaoLogin(p) \/ linkKakaoToExistingUser(p)
             \/ linkKakaoAuthToUser(p) \/ resolveUniqueKakaoNickname(p)
    <2>1. \/ Return(p)
          \/ \E s \in {"signup", "delete", "byEmail", "resolve", "link", "create"} : \E r : Goto(p, s, r)
      BY <1>5 DEF findUserByNickname, kakaoLogin, linkKakaoToExistingUser,
         linkKakaoAuthToUser, resolveUniqueKakaoNickname
    <2> QED
      BY <1>1, <1>3, <2>1 DEF States
  <1>6. CASE deleteRefreshTokensByUserId(p)
    BY <1>0, <1>6, GotoHolds DEF deleteRefreshTokensByUserId
  <1>7. CASE LockRows(p)
    BY <1>0, <1>7, GotoHolds DEF LockRows
  <1>8. CASE deleteRefreshTokenByHash(p)
    <2>1. Return(p) \/ \E r : Goto(p, "insert", r)
      BY <1>8 DEF deleteRefreshTokenByHash
    <2> QED
      BY <1>0, <1>1, <1>8, <2>1, GotoHolds
  <1>9. CASE \/ createUserWithLocalAuth(p) \/ createRefreshTokenRecord(p)
             \/ createKakaoUser(p) \/ updatePasswordHash(p) \/ refreshAdminToken(p) \/ Abort(p)
    BY <1>1, <1>9 DEF createUserWithLocalAuth, createRefreshTokenRecord, createKakaoUser,
       updatePasswordHash, refreshAdminToken, Abort
  <1> QED
    BY <1>2, <1>4, <1>5, <1>6, <1>7, <1>8, <1>9 DEF Step, Begin, Continue

\* What a user had when a login read the rows: the set only shrinks.
Earlier(p) == {t \in TokensOf(req[p].email) : t <= before[p]}

\* What a login is to delete holds all its user had when it read the rows.
LEMMA LoginsInv ==
    ASSUME Inv, NEW p \in Procs, Step(p)
    PROVE  LoginsHold'
  <1>0. /\ ControlType /\ TokenType /\ RequestsHold /\ req[p] \in Requests
        /\ issued \in Nat /\ live \subseteq Tokens /\ Tokens \subseteq Nat
        /\ \A q \in Procs :
             /\ before[q] \in Nat /\ before[q] <= issued
             /\ pc[q] = "deleting" => Earlier(q) \subseteq req[q].rows
             /\ pc[q] = "insert" /\ req[q].token = None => Earlier(q) \subseteq LockedBy(q)
    BY TypeParts DEF Inv, ControlType, TokenType, LoginsHold, Earlier, Tokens
  <1> DEFINE Grows == /\ issued' \in Nat /\ issued <= issued'
                      /\ \A e, n : n \in Nat /\ n <= issued =>
                            \A t \in TokensOf(e)' : t <= n => t \in TokensOf(e)
  <1>1. Grows
    <2>1. CASE UNCHANGED tokens
      BY <1>0, <2>1 DEF TokensOf, tokens
    <2>2. ASSUME NEW u, NEW k, NEW from, NEW how, Issues(p, u, k, from, how)
          PROVE  Grows
      <3>1. issued' = issued + 1 /\ ~(issued + 1 <= issued)
        BY <1>0, <2>2, Issued
      <3>2. /\ live' = (live \ LockedBy(p)) \cup {issued + 1}
            /\ \A t \in live : t # issued + 1 => owner'[t] = owner[t]
        BY <1>0, <2>2, Issued
      <3>3. \A n \in Nat : n <= issued => ~(issued + 1 <= n)
        BY <1>0
      <3> QED
        BY <1>0, <3>1, <3>2, <3>3 DEF TokensOf
    <2> QED
      BY <2>1, <2>2, TokensMove
  <1>2. ASSUME NEW q \in Procs \ {p}
        PROVE  /\ before'[q] <= issued'
               /\ pc'[q] = "deleting" => Earlier(q)' \subseteq req'[q].rows
               /\ pc'[q] = "insert" /\ req'[q].token = None => Earlier(q)' \subseteq LockedBy(q)'
    <2>1. /\ before'[q] = before[q] /\ pc'[q] = pc[q] /\ req'[q] = req[q]
          /\ LockedBy(q)' = LockedBy(q)
      BY <1>2, OthersKeep DEF LockedBy
    <2>2. Earlier(q)' \subseteq Earlier(q)
      BY <1>0, <1>1, <2>1 DEF Earlier
    <2> QED
      BY <1>0, <1>1, <2>1, <2>2
  <1>3. before'[p] <= issued'
    <2>1. before'[p] \in {0, issued, before[p]}
      <3>1. CASE Return(p)
        BY <1>0, <3>1 DEF Return, ControlType
      <3>2. CASE before' = before
        BY <3>2
      <3>3. CASE deleteRefreshTokensByUserId(p)
        BY <1>0, <3>3 DEF deleteRefreshTokensByUserId, ControlType
      <3> QED
        BY <3>1, <3>2, <3>3 DEF Step, Begin, Continue, Abort, findUserByEmail,
           authenticateUser, fetchKakaoUserInfo, refreshAuthToken,
           resolvePasswordHashForUpdate, authenticateAdmin, validateAdminRefreshToken,
           findUserByNickname, createUserWithLocalAuth, LockRows, createRefreshTokenRecord,
           kakaoLogin, linkKakaoToExistingUser, linkKakaoAuthToUser,
           resolveUniqueKakaoNickname, createKakaoUser, deleteRefreshTokenByHash,
           updatePasswordHash, refreshAdminToken
    <2> QED
      BY <1>0, <1>1, <2>1
  <1>4. ASSUME pc'[p] = "deleting" PROVE Earlier(p)' \subseteq req'[p].rows
    <2>1. deleteRefreshTokensByUserId(p)
      BY <1>4, OwnMoves
    <2>2. /\ req'[p].rows = TokensOf(req[p].email) /\ req'[p].email = req[p].email
          /\ UNCHANGED tokens
      BY <1>0, <2>1 DEF deleteRefreshTokensByUserId, Goto, ControlType, Requests
    <2> QED
      BY <2>2 DEF Earlier, TokensOf, tokens
  <1>5. ASSUME pc'[p] = "insert", req'[p].token = None
        PROVE  Earlier(p)' \subseteq LockedBy(p)'
    <2>1. LockRows(p) \/ deleteRefreshTokenByHash(p)
      BY <1>5, OwnMoves
    <2>2. ~deleteRefreshTokenByHash(p)
      <3>1. ASSUME deleteRefreshTokenByHash(p) PROVE req'[p] = req[p] /\ pc[p] = "rotate"
        BY <1>0, <1>5, <3>1 DEF deleteRefreshTokenByHash, Return, Goto, ControlType
      <3> QED
        BY <1>0, <1>5, <3>1 DEF RequestsHold
    <2>3. /\ pc[p] = "deleting" /\ before' = before /\ UNCHANGED tokens
          /\ req'[p].email = req[p].email
          /\ \A t \in req[p].rows \cap live : t \in Tokens => lock'[t] = p
      BY <1>0, <2>1, <2>2 DEF LockRows, Goto, ControlType, Requests
    <2>4. Earlier(p)' = Earlier(p) /\ Earlier(p) \subseteq req[p].rows \cap live
      BY <1>0, <2>3 DEF Earlier, TokensOf, tokens
    <2> QED
      BY <1>0, <2>3, <2>4 DEF LockedBy
  <1> QED
    BY <1>2, <1>3, <1>4, <1>5 DEF LoginsHold, Earlier

\* A logout and the end of a token's term.
LEMMA TokenStepInv ==
    ASSUME Inv, NEW t \in Tokens, logout(t) \/ Expire(t)
    PROVE  Inv'
  <1>0. AccountType /\ TokenType /\ ControlType
    BY TypeParts DEF Inv
  <1>1. /\ UNCHANGED <<account, owner, device, parent, issued, lock, pc, req, before>>
        /\ live' \subseteq live /\ expired' \subseteq expired \cup {t}
        /\ t \in live
    BY DEF logout, Expire, history
  <1>2. \/ UNCHANGED <<live, ended>>
        \/ /\ live' = live \ {t} /\ ended' = [ended EXCEPT ![t] = "logout"] /\ lock[t] = None
    BY DEF logout, Expire, history
  <1>3. TypeOK'
    <2>1. live' \subseteq 1 .. issued /\ expired' \subseteq 1 .. issued
      BY <1>0, <1>1 DEF TokenType
    <2>2. ended' \in [Tokens -> {"no", "rotated", "replaced", "logout"}]
      BY <1>0, <1>2 DEF TokenType
    <2> QED
      BY <1>0, <1>1, <2>1, <2>2 DEF AccountType, TokenType, ControlType, TypeOK, States,
         Requests, account
  <1>4. EndedOnce'
    <2>1. /\ \A x \in Tokens : x \in live <=> (x <= issued /\ ended[x] = "no")
          /\ \A c, d \in Tokens : parent[c] # None /\ parent[c] = parent[d] => c = d
          /\ \A x \in Tokens : ended[x] = "rotated" <=> \E c \in Tokens : parent[c] = x
      BY DEF Inv, EndedOnce
    <2>2. \A x \in Tokens : x \in live' <=> (x <= issued /\ ended'[x] = "no")
      BY <1>0, <1>2, <2>1 DEF TokenType
    <2>3. \A x \in Tokens : ended'[x] = "rotated" <=> ended[x] = "rotated"
      <3>1. ended[t] = "no"
        BY <1>1, <2>1
      <3> QED
        BY <1>0, <1>2, <3>1 DEF TokenType
    <2> QED
      BY <1>1, <2>1, <2>2, <2>3 DEF EndedOnce
  <1>5. IdentityProven' /\ AbsentIsBlank'
    BY <1>1 DEF Inv, IdentityProven, AbsentIsBlank, Exists, account
  <1>6. LoginsHold'
    BY <1>1 DEF Inv, LoginsHold, TokensOf, LockedBy
  <1>7. Unissued'
    <2>1. t <= issued
      <3>1. live \subseteq 1 .. issued
        BY <1>0 DEF TokenType
      <3>2. t \in 1 .. issued
        BY <1>1, <3>1
      <3> QED
        BY <3>2
    <2>2. issued \in Int /\ Tokens \subseteq Int
      BY <1>0 DEF TokenType, Tokens
    <2>3. \A x \in Tokens : x > issued => x # t
      BY <2>1, <2>2
    <2> QED
      BY <1>0, <1>1, <1>2, <2>3 DEF Inv, Unissued, TokenType
  <1>8. LocksHeld'
    BY <1>1, <1>2 DEF Inv, LocksHeld
  <1>9. RequestsHold' /\ LinksPending'
    BY <1>1 DEF Inv, RequestsHold, LinksPending, LinkPending, Exists, LockedBy, account
  <1> QED
    BY <1>3, <1>4, <1>5, <1>6, <1>7, <1>8, <1>9 DEF Inv

\* The invariant is inductive.
LEMMA InvStep == Inv /\ [Next]_vars => Inv'
  <1> SUFFICES ASSUME Inv, [Next]_vars PROVE Inv'
    OBVIOUS
  <1>1. CASE UNCHANGED vars
    BY <1>1 DEF Inv, TypeOK, EndedOnce, IdentityProven, LoginsHold, Unissued, LocksHeld,
       RequestsHold, LinksPending, AbsentIsBlank, TokensOf, LockedBy, LinkPending, Exists,
       vars, account, history
  <1>2. ASSUME NEW p \in Procs, Step(p) PROVE Inv'
    <2>1. TypeOK'
      BY <1>2, KakaoMoves, TokensInv, ControlInv
         DEF TypeOK, AccountType, TokenType, ControlType, States, Requests
    <2>2. RequestsHold'
      <3>1. \A q \in Procs : RequestHolds(q)'
        BY <1>2, OwnRequest, OthersRequest
      <3> QED
        BY <3>1 DEF RequestsHold, RequestHolds
    <2> QED
      BY <1>2, <2>1, <2>2, TokensInv, IdentityInv, LocksInv, LinksInv, LoginsInv DEF Inv
  <1> QED
    BY <1>1, <1>2, TokenStepInv DEF Next, Step

\* The invariant holds for any users, requests and number of tokens.
THEOREM InvHolds == Spec => []Inv
  BY InitInv, InvStep, PTL DEF Spec

\* A token ends once: by an exchange for one successor, or by a logout or a login
\* and without one.
THEOREM TokensEndOnce == Spec => []EndedOnce
  <1>1. Inv => EndedOnce
    BY DEF Inv
  <1> QED
    BY <1>1, InvHolds, PTL

\* A session that began with Kakao belongs to the user its Kakao account is linked
\* to, and to no other.
THEOREM IdentityIsProven == Spec => []IdentityProven
  <1>1. Inv => IdentityProven
    BY DEF Inv
  <1> QED
    BY <1>1, InvHolds, PTL

\* A login ends every session its user had when its DELETE read the rows.
THEOREM LoginsReplace == Spec => EarlierSessionsEnd
  <1>1. ASSUME Inv, NEW p \in Procs, createRefreshTokenRecord(p), req[p].token = None,
               NEW t \in live', owner'[t] = req[p].email
        PROVE  t > before[p]
    <2>0. /\ TokenType /\ ControlType /\ pc[p] = "insert" /\ before[p] <= issued
          /\ {x \in TokensOf(req[p].email) : x <= before[p]} \subseteq LockedBy(p)
      BY <1>1, TypeParts DEF Inv, LoginsHold, createRefreshTokenRecord
    <2>1. Issue(p, req[p].email, req[p].kakao, None, "replaced")
      BY <1>1 DEF createRefreshTokenRecord
    <2>2. /\ issued \in Nat /\ before[p] \in Nat /\ live \subseteq Nat
          /\ issued + 1 \in Tokens /\ live \subseteq Tokens
          /\ live' = (live \ LockedBy(p)) \cup {issued + 1}
          /\ owner' = [owner EXCEPT ![issued + 1] = req[p].email]
      BY <2>0, <2>1 DEF Issue, TokenType, ControlType, Tokens
    <2>3. CASE t = issued + 1
      BY <2>0, <2>2, <2>3
    <2>4. CASE t \in live \ LockedBy(p) /\ t # issued + 1
      <3>1. t \in TokensOf(req[p].email)
        BY <1>1, <2>0, <2>2, <2>4 DEF TokenType, TokensOf
      <3> QED
        BY <2>0, <2>2, <2>4, <3>1
    <2> QED
      BY <1>1, <2>2, <2>3, <2>4
  <1>2. Inv /\ [Next]_vars =>
          [\A p \in Procs :
              createRefreshTokenRecord(p) /\ req[p].token = None
              => \A t \in live' : owner'[t] = req[p].email => t > before[p]]_vars
    BY <1>1
  <1> QED
    BY <1>2, InvHolds, PTL DEF Spec, EarlierSessionsEnd
=============================================================================
