------------------------------ MODULE Community ------------------------------
(***************************************************************************)
(* The community board (post, comment and like services and repositories): *)
(* posts carry the number of their comments and likes in columns of their  *)
(* own, kept beside the rows they count by transactions at READ COMMITTED. *)
(* A comment is deleted with its direct replies, by its author or by an    *)
(* administrator who resolves a report (admin-report.repository.ts).       *)
(* What a transaction wrote is kept in req and published by its commit;    *)
(* the rows it wrote stay locked until then.                               *)
(***************************************************************************)
EXTENDS Integers, FiniteSets

CONSTANTS
    Procs,          \* requests in flight
    Users,
    Posts,
    MaxComments,    \* bound: comments and replies written
    None

Comments == 1 .. MaxComments

ASSUME MaxCommentsAssumption == MaxComments \in Nat
ASSUME FiniteAssumption == IsFiniteSet(Users) /\ IsFiniteSet(Posts)
ASSUME NoneIsNobody == None \notin Procs \cup Users \cup Posts \cup Comments

VARIABLES
    post,           \* "none", "live" or "gone" (deleted_at is set)
    completed,      \* posts.is_completed
    row,            \* comments rows, by id
    written,        \* the last comment id given out
    likes,          \* post_likes rows, pairs of a post and a user
    commentCount, likeCount,
    lock,           \* who holds a row
    pc, req

counts == <<commentCount, likeCount>>
vars == <<post, completed, row, written, likes, counts, lock, pc, req>>

\* An unused id, and a request's data between its statements.
NoComment == [post |-> None, parent |-> None, live |-> FALSE]
Blank == [post |-> None, user |-> None, comment |-> None, rows |-> {}]

Held == ({"comment"} \X Comments) \cup ({"post"} \X Posts)
        \cup ({"like"} \X (Posts \X Users))

Free(p, k) == lock[k] \in {None, p}
Hold(p, S) == lock' = [k \in Held |-> IF k \in S THEN p ELSE lock[k]]

Goto(p, step, r) ==
    /\ pc' = [pc EXCEPT ![p] = step]
    /\ req' = [req EXCEPT ![p] = r]

\* The request is answered; its transaction, if any, is over.
Return(p) ==
    /\ Goto(p, "idle", Blank)
    /\ lock' = [k \in Held |-> IF lock[k] = p THEN None ELSE lock[k]]

LiveComments(x) == {c \in Comments : row[c].live /\ row[c].post = x}
LikesOf(x) == {u \in Users : <<x, u>> \in likes}

-----------------------------------------------------------------------------
(* Posts.                                                                   *)
createPost(p) ==
    \E x \in Posts :
        /\ pc[p] = "idle"
        /\ post[x] = "none"
        /\ post' = [post EXCEPT ![x] = "live"]
        /\ UNCHANGED <<completed, row, written, likes, counts, lock, pc, req>>

findPostOwner(x) == post[x] = "live"

\* One conditional update; the owner was read before, and owners never change.
softDeletePost(p) ==
    \E x \in Posts :
        /\ pc[p] = "idle"
        /\ findPostOwner(x) /\ Free(p, <<"post", x>>)
        /\ post' = [post EXCEPT ![x] = "gone"]
        /\ UNCHANGED <<completed, row, written, likes, counts, lock, pc, req>>

findPostForComplete(p) ==
    \E x \in Posts :
        /\ pc[p] = "idle"
        /\ findPostOwner(x) /\ x \notin completed
        /\ Goto(p, "complete", [Blank EXCEPT !.post = x])
        /\ UNCHANGED <<post, completed, row, written, likes, counts, lock>>

completePost(p) ==
    LET x == req[p].post IN
    /\ pc[p] = "complete"
    /\ Free(p, <<"post", x>>)
    /\ completed' = IF post[x] = "live" THEN completed \cup {x} ELSE completed
    /\ Return(p)
    /\ UNCHANGED <<post, row, written, likes, counts>>

-----------------------------------------------------------------------------
(* Comments and replies.  A reply's parent is read twice, before the        *)
(* transaction and in it; neither read holds the row.                       *)
findCommentById(c) == row[c].live

createComment(p) ==
    \E x \in Posts :
        /\ pc[p] = "idle"
        /\ findPostOwner(x)
        /\ Goto(p, "insert", [Blank EXCEPT !.post = x])
        /\ UNCHANGED <<post, completed, row, written, likes, counts, lock>>

createReply(p) ==
    \E c \in Comments :
        /\ pc[p] = "idle"
        /\ findCommentById(c) /\ row[c].parent = None
        /\ findPostOwner(row[c].post)
        /\ Goto(p, "parent", [Blank EXCEPT !.post = row[c].post, !.comment = c])
        /\ UNCHANGED <<post, completed, row, written, likes, counts, lock>>

ParentInTransaction(p) ==
    /\ pc[p] = "parent"
    /\ IF findCommentById(req[p].comment)
       THEN Goto(p, "insert", req[p]) /\ UNCHANGED lock
       ELSE Return(p)
    /\ UNCHANGED <<post, completed, row, written, likes, counts>>

\* The update of the post holds its row to the commit, so that it, the insert
\* and the commit are one step.
insertComment(p) ==
    LET x == req[p].post IN
    /\ pc[p] = "insert"
    /\ written < MaxComments
    /\ Free(p, <<"post", x>>)
    /\ IF post[x] = "live"
       THEN /\ written' = written + 1
            /\ row' = [row EXCEPT ![written + 1] =
                        [post |-> x, parent |-> req[p].comment, live |-> TRUE]]
            /\ commentCount' = [commentCount EXCEPT ![x] = @ + 1]
       ELSE UNCHANGED <<row, written, commentCount>>
    /\ Return(p)
    /\ UNCHANGED <<post, completed, likes, likeCount>>

-----------------------------------------------------------------------------
(* Deleting a comment with its direct replies.                              *)
deleteComment(p) ==
    \E c \in Comments :
        /\ pc[p] = "idle"
        /\ findCommentById(c)
        /\ Goto(p, "delete", [Blank EXCEPT !.post = row[c].post, !.comment = c])
        /\ UNCHANGED <<post, completed, row, written, likes, counts, lock>>

\* Mutant: without deletedAt: null.
ThreadOnceMore(c) ==
    {d \in Comments : row[d].post # None /\ (d = c \/ row[d].parent = c)}

\* The rows one updateMany matches.
Thread(c) == {d \in Comments : row[d].live /\ (d = c \/ row[d].parent = c)}

\* The update waits for the rows another transaction is deleting and counts only
\* those still live when it gets them.
softDeleteComment(p) ==
    LET c == req[p].comment IN
    /\ pc[p] = "delete"
    /\ \A d \in Thread(c) : Free(p, <<"comment", d>>)
    /\ IF Thread(c) = {}
       THEN Return(p)
       ELSE /\ Hold(p, {"comment"} \X Thread(c))
            /\ Goto(p, "decrement", [req[p] EXCEPT !.rows = Thread(c)])
    /\ UNCHANGED <<post, completed, row, written, likes, counts>>

\* deleteResult.count.
Deleted(p) == Cardinality(req[p].rows)

\* A deleted post keeps its count.
decrementCommentCount(p) ==
    LET x == req[p].post IN
    /\ pc[p] = "decrement"
    /\ Free(p, <<"post", x>>)
    /\ row' = [d \in Comments |->
                 IF d \in req[p].rows THEN [row[d] EXCEPT !.live = FALSE] ELSE row[d]]
    /\ commentCount' = [commentCount EXCEPT
                          ![x] = IF post[x] = "live" THEN @ - Deleted(p) ELSE @]
    /\ Return(p)
    /\ UNCHANGED <<post, completed, written, likes, likeCount>>

-----------------------------------------------------------------------------
(* Likes: both directions read first and write in another transaction.      *)
findLike(x, u) == <<x, u>> \in likes

LikeWanted(p) ==
    \E x \in Posts, u \in Users :
        /\ pc[p] = "idle"
        /\ findPostOwner(x)
        /\ Goto(p, IF findLike(x, u) THEN "unlike" ELSE "like",
                [Blank EXCEPT !.post = x, !.user = u])
        /\ UNCHANGED <<post, completed, row, written, likes, counts, lock>>

\* The counter is raised first; the post's row is held.
createLike(p) ==
    LET x == req[p].post IN
    /\ pc[p] = "like"
    /\ Free(p, <<"post", x>>)
    /\ IF post[x] = "live"
       THEN Hold(p, {<<"post", x>>}) /\ Goto(p, "insertLike", req[p])
       ELSE Return(p)
    /\ UNCHANGED <<post, completed, row, written, likes, counts>>

\* Mutant: a duplicate is skipped and the transaction commits.
CommitLike(p) == TRUE

\* A second row of the same user fails on the unique key, and the count with it.
LikeIsNew(p) == ~findLike(req[p].post, req[p].user)

\* The unique key waits for a row that is being deleted.
insertLike(p) ==
    LET x == req[p].post
        u == req[p].user IN
    /\ pc[p] = "insertLike"
    /\ Free(p, <<"like", <<x, u>>>>)
    /\ IF LikeIsNew(p)
       THEN /\ likes' = likes \cup {<<x, u>>}
            /\ likeCount' = [likeCount EXCEPT ![x] = @ + 1]
       ELSE UNCHANGED <<likes, likeCount>>
    /\ Return(p)
    /\ UNCHANGED <<post, completed, row, written, commentCount>>

deleteLike(p) ==
    LET k == <<req[p].post, req[p].user>> IN
    /\ pc[p] = "unlike"
    /\ Free(p, <<"like", k>>)
    /\ IF k \in likes
       THEN Hold(p, {<<"like", k>>}) /\ Goto(p, "decrementLike", req[p])
       ELSE Return(p)
    /\ UNCHANGED <<post, completed, row, written, likes, counts>>

decrementLikeCount(p) ==
    LET x == req[p].post IN
    /\ pc[p] = "decrementLike"
    /\ Free(p, <<"post", x>>)
    /\ likes' = likes \ {<<x, req[p].user>>}
    /\ likeCount' = [likeCount EXCEPT ![x] = IF post[x] = "live" THEN @ - 1 ELSE @]
    /\ Return(p)
    /\ UNCHANGED <<post, completed, row, written, commentCount>>

\* An error, a crash, or the database's choice between two transactions that
\* wait for each other (a like inserted with the post's row held and the same
\* like deleted).
Rollback(p) ==
    /\ pc[p] # "idle"
    /\ Return(p)
    /\ UNCHANGED <<post, completed, row, written, likes, counts>>

-----------------------------------------------------------------------------
Init ==
    /\ post = [x \in Posts |-> "none"]
    /\ completed = {}
    /\ row = [c \in Comments |-> NoComment]
    /\ written = 0
    /\ likes = {}
    /\ commentCount = [x \in Posts |-> 0]
    /\ likeCount = [x \in Posts |-> 0]
    /\ lock = [k \in Held |-> None]
    /\ pc = [p \in Procs |-> "idle"]
    /\ req = [p \in Procs |-> Blank]

Step(p) ==
    \/ createPost(p) \/ softDeletePost(p)
    \/ findPostForComplete(p) \/ completePost(p)
    \/ createComment(p) \/ createReply(p) \/ ParentInTransaction(p) \/ insertComment(p)
    \/ deleteComment(p) \/ softDeleteComment(p) \/ decrementCommentCount(p)
    \/ LikeWanted(p) \/ createLike(p) \/ insertLike(p)
    \/ deleteLike(p) \/ decrementLikeCount(p)
    \/ Rollback(p)

Next == \E p \in Procs : Step(p)

Spec == Init /\ [][Next]_vars

-----------------------------------------------------------------------------
(* The type invariant.                                                      *)
TypeOK ==
    /\ post \in [Posts -> {"none", "live", "gone"}]
    /\ completed \subseteq Posts
    /\ row \in [Comments -> [post : Posts \cup {None}, parent : Comments \cup {None},
                             live : BOOLEAN]]
    /\ written \in 0 .. MaxComments
    /\ likes \subseteq Posts \X Users
    /\ commentCount \in [Posts -> Int]
    /\ likeCount \in [Posts -> Int]
    /\ lock \in [Held -> Procs \cup {None}]
    /\ pc \in [Procs -> {"idle", "complete", "insert", "parent", "delete", "decrement",
                         "like", "insertLike", "unlike", "decrementLike"}]
    /\ req \in [Procs -> [post : Posts \cup {None}, user : Users \cup {None},
                          comment : Comments \cup {None}, rows : SUBSET Comments]]

\* What a transaction wrote is its own until it commits.
RowsHeld ==
    \A p \in Procs :
        LET r == req[p] IN
        /\ pc[p] # "idle" => r.post \in Posts
        /\ pc[p] \in {"like", "insertLike", "unlike", "decrementLike"} => r.user \in Users
        /\ pc[p] \in {"parent", "delete", "decrement"} => r.comment \in Comments
        /\ pc[p] = "decrement" =>
             \A c \in r.rows : /\ lock[<<"comment", c>>] = p
                               /\ row[c].live /\ row[c].post = r.post
        /\ pc[p] = "insertLike" => lock[<<"post", r.post>>] = p /\ post[r.post] = "live"
        /\ pc[p] = "decrementLike" =>
             lock[<<"like", <<r.post, r.user>>>>] = p /\ <<r.post, r.user>> \in likes

\* Comments belong to posts that were written, replies to comments of one post.
RowsPlaced ==
    /\ \A c \in Comments :
         /\ c > written => row[c] = NoComment
         /\ row[c].live => row[c].post \in Posts /\ post[row[c].post] # "none"
    /\ \A c \in Comments : \A d \in Comments :
         row[d].live /\ row[d].parent = c => row[d].post = row[c].post
    /\ \A p \in Procs :
         pc[p] \in {"parent", "insert", "delete"} =>
             /\ post[req[p].post] # "none"
             /\ req[p].comment # None => row[req[p].comment].post = req[p].post
    /\ \A k \in likes : post[k[1]] # "none"

\* The comment count a reader of a post sees is the number of its comments and
\* replies, whatever was written and deleted side by side (a reply and the thread
\* it belongs to, the same comment by its author and by an administrator).
CommentCountExact ==
    \A x \in Posts : post[x] = "live" => commentCount[x] = Cardinality(LiveComments(x))

\* The like count of a post is the number of users who like it, also when one user
\* likes it twice at once or likes and takes the like back.
LikeCountExact ==
    \A x \in Posts : post[x] = "live" => likeCount[x] = Cardinality(LikesOf(x))

\* A post is written with nothing counted.
CountsFresh ==
    \A x \in Posts : post[x] = "none" => commentCount[x] = 0 /\ likeCount[x] = 0

\* The inductive invariant.
Inv ==
    /\ TypeOK /\ RowsHeld /\ RowsPlaced /\ CountsFresh
    /\ CommentCountExact /\ LikeCountExact
=============================================================================
