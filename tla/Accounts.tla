------------------------------- MODULE Accounts -------------------------------
(***************************************************************************)
(* Accounts and sessions (auth.service.ts, auth.repository.ts,             *)
(* admin-auth.repository.ts, password.util.ts): sign-up, login with a      *)
(* password or with Kakao, rotation of a refresh token, logout and the     *)
(* change of a password, side by side at READ COMMITTED.  A token is its   *)
(* hash; the rows a transaction deletes are locked until it commits.       *)
(***************************************************************************)
EXTENDS Integers, FiniteSets

CONSTANTS
    Procs,          \* requests in flight
    Emails,         \* a user is known by the e-mail, which never changes
    Admins,         \* admin_users rows
    KakaoIds,       \* Kakao member numbers
    Nicknames,      \* the nicknames people ask for
    Passwords,
    MaxTokens,      \* bound: refresh tokens issued in a behaviour
    None

Tokens == 1 .. MaxTokens
UserTypes == {"CUSTOMER", "MOVER"}

ASSUME MaxTokensAssumption == MaxTokens \in Nat
ASSUME NoneIsNobody ==
    None \notin Procs \cup Emails \cup Admins \cup KakaoIds \cup Nicknames
                \cup Passwords \cup Tokens
ASSUME KindsAreApart ==
    /\ Emails \cap Admins = {}
    /\ KakaoIds \cap Nicknames = {}

VARIABLES
    type, nick, local, kakao,   \* users and auth_accounts, by e-mail
    live,       \* committed rows of the two refresh token tables
    owner,      \* of each issued token, a user or an admin
    device,     \* history: the Kakao account its login proved, or None
    parent,     \* history: the token it was exchanged for
    ended,      \* history: what deleted its row
    expired,    \* rows whose exp has passed
    issued,     \* number of tokens issued
    lock,       \* the transaction that deleted a row and has not committed
    pc, req,    \* each request: where it stands and what it holds
    before      \* history: the tokens issued when a login's DELETE read the rows

account == <<type, nick, local, kakao>>
history == <<device, parent, ended>>
vars == <<account, live, owner, history, expired, issued, lock, pc, req, before>>

\* What a request keeps between its statements.
Blank == [email |-> None, kakao |-> None, nick |-> None, pw |-> None,
          type |-> "CUSTOMER", token |-> None, rows |-> {}, link |-> FALSE]

\* What is left of a login once its user is known.
Session(r) == [Blank EXCEPT !.email = r.email, !.kakao = r.kakao]

Exists(e) == type[e] # "NONE"
TokensOf(u) == {t \in live : owner[t] = u}

\* findUserWithLocalAuthByEmail and comparePassword.
Credentials(e, w) == Exists(e) /\ local[e] = w

findUserByKakaoProviderAccountId(k) == {e \in Emails : kakao[e] = k}

\* User tokens and admin tokens have secrets and subjects of their own.
verifyRefreshToken(t) == t \notin expired /\ owner[t] \in Emails

verifyAdminRefreshToken(t) == t \notin expired /\ owner[t] \in Admins
LockedBy(p) == {t \in Tokens : lock[t] = p}

\* The bound: a request begins only if the tokens left suffice for all in flight.
Room == issued + Cardinality({q \in Procs : pc[q] # "idle"}) < MaxTokens

Goto(p, next, r) ==
    /\ pc' = [pc EXCEPT ![p] = next]
    /\ req' = [req EXCEPT ![p] = r]

\* The request is answered, its transaction, if any, is over.
Return(p) ==
    /\ Goto(p, "idle", Blank)
    /\ lock' = [t \in Tokens |-> IF lock[t] = p THEN None ELSE lock[t]]
    /\ before' = [before EXCEPT ![p] = 0]

tokens == <<live, owner, history, expired, issued>>

-----------------------------------------------------------------------------
(* Sign-up.  A refusal changes nothing and is not a step of its own.        *)
findUserByEmail(p) ==
    \E e \in Emails, n \in Nicknames, w \in Passwords, y \in UserTypes :
        /\ pc[p] = "idle" /\ Room
        /\ ~Exists(e)
        /\ Goto(p, "nickname", [Blank EXCEPT !.email = e, !.nick = n, !.pw = w,
                                             !.type = y])
        /\ UNCHANGED <<account, tokens, lock, before>>

findUserByNickname(p) ==
    /\ pc[p] = "nickname"
    /\ IF \E e \in Emails : nick[e] = req[p].nick
       THEN Return(p)
       ELSE Goto(p, "signup", req[p]) /\ UNCHANGED <<lock, before>>
    /\ UNCHANGED <<account, tokens>>

\* The unique keys of users and auth_accounts.
Unique(r) ==
    /\ ~Exists(r.email)
    /\ \A e \in Emails : nick[e] # r.nick
    /\ r.kakao # None => \A e \in Emails : kakao[e] # r.kakao

InsertUser(r) ==
    /\ type' = [type EXCEPT ![r.email] = r.type]
    /\ nick' = [nick EXCEPT ![r.email] = r.nick]
    /\ local' = [local EXCEPT ![r.email] = r.pw]
    /\ kakao' = [kakao EXCEPT ![r.email] = r.kakao]

createUserWithLocalAuth(p) ==
    /\ pc[p] = "signup"
    /\ Return(p)
    /\ IF Unique(req[p]) THEN InsertUser(req[p]) ELSE UNCHANGED account
    /\ UNCHANGED tokens

-----------------------------------------------------------------------------
(* Login with a password: the row is read and the password compared before  *)
(* the transaction that replaces the tokens.                                *)
authenticateUser(p) ==
    \E e \in Emails, w \in Passwords, y \in UserTypes :
        /\ pc[p] = "idle" /\ Room
        /\ Credentials(e, w)
        /\ type[e] = y
        /\ Goto(p, "delete", [Blank EXCEPT !.email = e])
        /\ UNCHANGED <<account, tokens, lock, before>>

\* deleteRefreshTokensByUserId: the statement sees the rows committed when it
\* starts and waits for those another transaction has deleted.
deleteRefreshTokensByUserId(p) ==
    /\ pc[p] = "delete"
    /\ Goto(p, "deleting", [req[p] EXCEPT !.rows = TokensOf(req[p].email)])
    /\ before' = [before EXCEPT ![p] = issued]
    /\ UNCHANGED <<account, tokens, lock>>

\* Mutant: rows another transaction holds are passed over.
LockFreeRows(p) ==
    /\ pc[p] = "deleting"
    /\ lock' = [t \in Tokens |-> IF t \in req[p].rows \cap live /\ lock[t] = None
                                THEN p ELSE lock[t]]
    /\ Goto(p, "insert", [req[p] EXCEPT !.rows = {}])
    /\ UNCHANGED <<account, tokens, before>>

LockRows(p) ==
    /\ pc[p] = "deleting"
    /\ \A t \in req[p].rows : lock[t] \in {None, p}
    /\ lock' = [t \in Tokens |-> IF t \in req[p].rows \cap live THEN p ELSE lock[t]]
    /\ Goto(p, "insert", [req[p] EXCEPT !.rows = {}])
    /\ UNCHANGED <<account, tokens, before>>

\* The new row and its history.  How: what the deleted rows died of.
Issue(p, u, k, from, how) ==
    /\ issued < MaxTokens
    /\ issued' = issued + 1
    /\ live' = (live \ LockedBy(p)) \cup {issued + 1}
    /\ owner' = [owner EXCEPT ![issued + 1] = u]
    /\ device' = [device EXCEPT ![issued + 1] = k]
    /\ parent' = [parent EXCEPT ![issued + 1] = from]
    /\ ended' = [t \in Tokens |-> IF t \in LockedBy(p) THEN how ELSE ended[t]]
    /\ expired' = expired \ LockedBy(p)

\* createRefreshTokenRecord and COMMIT; a first Kakao login commits its link too.
createRefreshTokenRecord(p) ==
    /\ pc[p] = "insert"
    /\ Issue(p, req[p].email, req[p].kakao, req[p].token,
             IF req[p].token = None THEN "replaced" ELSE "rotated")
    /\ kakao' = IF req[p].link THEN [kakao EXCEPT ![req[p].email] = req[p].kakao]
                               ELSE kakao
    /\ Return(p)
    /\ UNCHANGED <<type, nick, local>>

-----------------------------------------------------------------------------
(* Login with Kakao.                                                        *)
\* exchangeKakaoAuthorizationCode and fetchKakaoUserInfo: the member number
\* and, when Kakao has verified it, the e-mail.
fetchKakaoUserInfo(p) ==
    \E k \in KakaoIds, e \in Emails \cup {None}, n \in Nicknames, y \in UserTypes :
        /\ pc[p] = "idle" /\ Room
        /\ Goto(p, "kakao", [Blank EXCEPT !.kakao = k, !.email = e, !.nick = n,
                                          !.type = y])
        /\ UNCHANGED <<account, tokens, lock, before>>

\* findUserByKakaoProviderAccountId; without a verified e-mail a stranger is
\* refused.
kakaoLogin(p) ==
    /\ pc[p] = "kakao"
    /\ LET linked == findUserByKakaoProviderAccountId(req[p].kakao) IN
       \/ /\ \E e \in linked :
                /\ type[e] = req[p].type
                /\ Goto(p, "delete", [Blank EXCEPT !.email = e, !.kakao = req[p].kakao])
          /\ UNCHANGED <<lock, before>>
       \/ /\ linked = {} /\ req[p].email # None
          /\ Goto(p, "byEmail", req[p])
          /\ UNCHANGED <<lock, before>>
       \/ /\ IF linked = {} THEN req[p].email = None
                            ELSE \A e \in linked : type[e] # req[p].type
          /\ Return(p)
    /\ UNCHANGED <<account, tokens>>

\* Mutant: any link will do.
MayLinkAny(r) == type[r.email] = r.type

\* May this Kakao account log in as the user with its e-mail?
MayLink(r) == type[r.email] = r.type /\ kakao[r.email] \in {None, r.kakao}

\* findUserWithKakaoAuthByEmail.
linkKakaoToExistingUser(p) ==
    /\ pc[p] = "byEmail"
    /\ \/ /\ ~Exists(req[p].email)
          /\ Goto(p, "resolve", req[p])
          /\ UNCHANGED <<lock, before>>
       \/ /\ Exists(req[p].email) /\ MayLink(req[p])
          /\ IF kakao[req[p].email] = None
             THEN Goto(p, "link", Session(req[p]))
             ELSE Goto(p, "delete", Session(req[p]))
          /\ UNCHANGED <<lock, before>>
       \/ Exists(req[p].email) /\ ~MayLink(req[p]) /\ Return(p)
    /\ UNCHANGED <<account, tokens>>

\* Another transaction has inserted a link of this user or this Kakao account
\* and not committed: a unique key waits for it.
LinkPending(p) ==
    \E q \in Procs \ {p} :
        req[q].link /\ (req[q].email = req[p].email \/ req[q].kakao = req[p].kakao)

linkKakaoAuthToUser(p) ==
    /\ pc[p] = "link"
    /\ ~LinkPending(p)
    /\ IF kakao[req[p].email] # None \/ \E e \in Emails : kakao[e] = req[p].kakao
       THEN Return(p)
       ELSE Goto(p, "delete", [req[p] EXCEPT !.link = TRUE]) /\ UNCHANGED <<lock, before>>
    /\ UNCHANGED <<account, tokens>>

\* The nickname of the Kakao profile, or one made from the member number.
resolveUniqueKakaoNickname(p) ==
    /\ pc[p] = "resolve"
    /\ LET taken == {nick[e] : e \in Emails} IN
       Goto(p, "create", [req[p] EXCEPT !.nick = IF @ \in taken THEN req[p].kakao ELSE @])
    /\ UNCHANGED <<account, tokens, lock, before>>

\* The user, its Kakao link and the first token in one transaction.
createKakaoUser(p) ==
    /\ pc[p] = "create"
    /\ ~LinkPending(p)
    /\ IF Unique(req[p])
       THEN /\ InsertUser(req[p])
            /\ Issue(p, req[p].email, req[p].kakao, None, "replaced")
       ELSE UNCHANGED <<account, tokens>>
    /\ Return(p)

-----------------------------------------------------------------------------
(* Rotation and logout.                                                     *)
\* A client presents any token it was ever given; findRefreshTokenByHash.
refreshAuthToken(p) ==
    \E t \in live :
        /\ pc[p] = "idle" /\ Room
        /\ verifyRefreshToken(t)
        /\ Goto(p, "rotate", [Blank EXCEPT !.token = t, !.email = owner[t],
                                           !.kakao = device[t]])
        /\ UNCHANGED <<account, tokens, lock, before>>

\* Mutant: the count of the delete is not looked at.
RotateUncounted(p) ==
    /\ pc[p] = "rotate"
    /\ lock[req[p].token] = None
    /\ lock' = [lock EXCEPT ![req[p].token] = IF @ = None /\ req[p].token \in live THEN p ELSE @]
    /\ Goto(p, "insert", req[p])
    /\ UNCHANGED <<account, tokens, before>>

\* The delete waits for whoever has deleted the row; a count of 0 is refused.
deleteRefreshTokenByHash(p) ==
    /\ pc[p] = "rotate"
    /\ lock[req[p].token] = None
    /\ IF req[p].token \in live
       THEN /\ lock' = [lock EXCEPT ![req[p].token] = p]
            /\ Goto(p, "insert", req[p])
            /\ UNCHANGED before
       ELSE Return(p)
    /\ UNCHANGED <<account, tokens>>

\* logout and logoutAdmin: one DELETE by hash, whatever the token is worth.
logout(t) ==
    /\ t \in live
    /\ lock[t] = None
    /\ live' = live \ {t}
    /\ ended' = [ended EXCEPT ![t] = "logout"]
    /\ expired' = expired \ {t}
    /\ UNCHANGED <<account, owner, device, parent, issued, lock, pc, req, before>>

\* exp passes; the row stays.
Expire(t) ==
    /\ t \in live \ expired
    /\ expired' = expired \cup {t}
    /\ UNCHANGED <<account, live, owner, history, issued, lock, pc, req, before>>

\* A request dies or its transaction is rolled back.
Abort(p) ==
    /\ pc[p] # "idle"
    /\ Return(p)
    /\ UNCHANGED <<account, tokens>>

-----------------------------------------------------------------------------
(* resolvePasswordHashForUpdate: the old password is compared with the hash *)
(* that was read, the new one is written in a later transaction.            *)
resolvePasswordHashForUpdate(p) ==
    \E e \in Emails, w \in Passwords :
        /\ pc[p] = "idle" /\ Room
        /\ Exists(e) /\ local[e] \notin {None, w}
        /\ Goto(p, "password", [Blank EXCEPT !.email = e, !.pw = w])
        /\ UNCHANGED <<account, tokens, lock, before>>

updatePasswordHash(p) ==
    /\ pc[p] = "password"
    /\ local' = [local EXCEPT ![req[p].email] = req[p].pw]
    /\ Return(p)
    /\ UNCHANGED <<type, nick, kakao, tokens>>

-----------------------------------------------------------------------------
(* Admins: any number of sessions, a refresh keeps the token.               *)
authenticateAdmin(p) ==
    \E a \in Admins :
        /\ pc[p] = "idle" /\ Room
        /\ Issue(p, a, None, None, "replaced")
        /\ UNCHANGED <<account, lock, pc, req, before>>

\* findAdminRefreshTokenByHash, then findAdminById.
validateAdminRefreshToken(p) ==
    \E t \in live :
        /\ pc[p] = "idle" /\ Room
        /\ verifyAdminRefreshToken(t)
        /\ Goto(p, "admin", [Blank EXCEPT !.token = t])
        /\ UNCHANGED <<account, tokens, lock, before>>

refreshAdminToken(p) ==
    /\ pc[p] = "admin"
    /\ Return(p)
    /\ UNCHANGED <<account, tokens>>

-----------------------------------------------------------------------------
Init ==
    /\ type = [e \in Emails |-> "NONE"]
    /\ nick = [e \in Emails |-> None]
    /\ local = [e \in Emails |-> None]
    /\ kakao = [e \in Emails |-> None]
    /\ live = {} /\ expired = {} /\ issued = 0
    /\ owner = [t \in Tokens |-> None]
    /\ device = [t \in Tokens |-> None]
    /\ parent = [t \in Tokens |-> None]
    /\ ended = [t \in Tokens |-> "no"]
    /\ lock = [t \in Tokens |-> None]
    /\ pc = [p \in Procs |-> "idle"]
    /\ req = [p \in Procs |-> Blank]
    /\ before = [p \in Procs |-> 0]

Begin(p) ==
    \/ findUserByEmail(p) \/ authenticateUser(p) \/ fetchKakaoUserInfo(p)
    \/ refreshAuthToken(p) \/ resolvePasswordHashForUpdate(p)
    \/ authenticateAdmin(p) \/ validateAdminRefreshToken(p)

Continue(p) ==
    \/ findUserByNickname(p) \/ createUserWithLocalAuth(p)
    \/ deleteRefreshTokensByUserId(p) \/ LockRows(p) \/ createRefreshTokenRecord(p)
    \/ kakaoLogin(p) \/ linkKakaoToExistingUser(p) \/ linkKakaoAuthToUser(p)
    \/ resolveUniqueKakaoNickname(p) \/ createKakaoUser(p)
    \/ deleteRefreshTokenByHash(p) \/ updatePasswordHash(p) \/ refreshAdminToken(p)

Next ==
    \/ \E p \in Procs : Begin(p) \/ Continue(p) \/ Abort(p)
    \/ \E t \in Tokens : logout(t) \/ Expire(t)

Spec == Init /\ [][Next]_vars

-----------------------------------------------------------------------------
(* Properties.                                                              *)
TypeOK ==
    /\ type \in [Emails -> UserTypes \cup {"NONE"}]
    /\ nick \in [Emails -> Nicknames \cup KakaoIds \cup {None}]
    /\ local \in [Emails -> Passwords \cup {None}]
    /\ kakao \in [Emails -> KakaoIds \cup {None}]
    /\ issued \in 0 .. MaxTokens
    /\ live \subseteq 1 .. issued /\ expired \subseteq 1 .. issued
    /\ owner \in [Tokens -> Emails \cup Admins \cup {None}]
    /\ device \in [Tokens -> KakaoIds \cup {None}]
    /\ parent \in [Tokens -> Tokens \cup {None}]
    /\ ended \in [Tokens -> {"no", "rotated", "replaced", "logout"}]
    /\ lock \in [Tokens -> Procs \cup {None}]
    /\ pc \in [Procs -> {"idle", "nickname", "signup", "delete", "deleting", "insert",
                         "kakao", "byEmail", "resolve", "link", "create", "rotate",
                         "password", "admin"}]
    /\ req \in [Procs -> [email : Emails \cup {None}, kakao : KakaoIds \cup {None},
                          nick : Nicknames \cup KakaoIds \cup {None},
                          pw : Passwords \cup {None}, type : UserTypes,
                          token : Tokens \cup {None}, rows : SUBSET Tokens,
                          link : BOOLEAN]]
    /\ before \in [Procs -> 0 .. MaxTokens]

\* A token ends once: it is exchanged for one successor, or it was logged out
\* or replaced by a login and has none, however rotations, logouts and logins
\* of it overlap (refreshAuthToken looks at the count of its delete).
EndedOnce ==
    /\ \A t \in Tokens : t \in live <=> (t <= issued /\ ended[t] = "no")
    /\ \A c, d \in Tokens : parent[c] # None /\ parent[c] = parent[d] => c = d
    /\ \A t \in Tokens : ended[t] = "rotated" <=> \E c \in Tokens : parent[c] = t

\* Whoever holds a session that began with Kakao holds the one Kakao account
\* that is linked to its user, and no Kakao account is linked to two users,
\* although the link was looked up before the transaction that relies on it.
IdentityProven ==
    /\ \A t \in Tokens : device[t] # None => kakao[owner[t]] = device[t]
    /\ \A e, f \in Emails : kakao[e] # None /\ kakao[e] = kakao[f] => e = f

\* A login ends every session its user had when its DELETE read the rows, also
\* one that a rotation, a logout or another login held or ended meanwhile: what
\* it leaves beside its own is no older than that.
EarlierSessionsEnd ==
    [][\A p \in Procs :
            createRefreshTokenRecord(p) /\ req[p].token = None
            => \A t \in live' : owner'[t] = req[p].email => t > before[p]]_vars

\* "사용자당 한 개 정책 — 기존 Refresh Token을 교체한다" (auth.service.ts:377): a user
\* has one session.  The code does not keep it (README, Findings).
OneSessionPerUser == \A e \in Emails : Cardinality(TokensOf(e)) <= 1

\* What was not issued yet has no history.
Unissued ==
    \A t \in Tokens : t > issued => parent[t] = None /\ device[t] = None /\ ended[t] = "no"

\* A locked row is there, and its transaction is about to commit.
LocksHeld ==
    \A t \in Tokens : lock[t] # None => t \in live /\ pc[lock[t]] = "insert"

\* Where a request stands bounds what it holds.
RequestsHold ==
    \A p \in Procs :
        /\ pc[p] \in {"nickname", "signup", "resolve", "create", "link", "byEmail", "delete",
                      "deleting", "insert", "rotate", "password"} => req[p].email \in Emails
        /\ pc[p] = "link" => Exists(req[p].email)
        /\ pc[p] \in {"nickname", "signup", "password"} => req[p].kakao = None
        /\ pc[p] \in {"kakao", "byEmail", "resolve", "create", "link"}
                => req[p].kakao \in KakaoIds
        /\ pc[p] \in {"rotate", "admin"} => req[p].token # None
        /\ req[p].token # None => pc[p] \in {"rotate", "insert", "admin"}
        /\ pc[p] = "insert" /\ req[p].token # None => LockedBy(p) = {req[p].token}
        /\ pc[p] \in {"delete", "deleting", "insert", "rotate"} /\ req[p].kakao # None
           /\ ~req[p].link => kakao[req[p].email] = req[p].kakao

\* An uncommitted link is the only one of its user and of its Kakao account.
LinksPending ==
    \A p \in Procs : req[p].link =>
        /\ pc[p] \in {"delete", "deleting", "insert"}
        /\ Exists(req[p].email)
        /\ req[p].kakao \in KakaoIds
        /\ kakao[req[p].email] = None
        /\ \A e \in Emails : kakao[e] # req[p].kakao
        /\ ~LinkPending(p)

AbsentIsBlank ==
    /\ \A e \in Emails : ~Exists(e) => kakao[e] = None
    /\ \A t \in Tokens : device[t] # None => owner[t] \in Emails

\* What a login is to delete holds all its user had when it read the rows.
LoginsHold ==
    \A p \in Procs :
        LET earlier == {t \in TokensOf(req[p].email) : t <= before[p]} IN
        /\ before[p] <= issued
        /\ pc[p] = "deleting" => earlier \subseteq req[p].rows
        /\ pc[p] = "insert" /\ req[p].token = None => earlier \subseteq LockedBy(p)

\* The inductive invariant.
Inv == /\ TypeOK /\ EndedOnce /\ IdentityProven /\ LoginsHold
       /\ Unissued /\ LocksHeld /\ RequestsHold /\ LinksPending /\ AbsentIsBlank
=============================================================================
