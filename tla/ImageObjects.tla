---------------------------- MODULE ImageObjects ----------------------------
(***************************************************************************)
(* Images are uploaded to S3 with a presigned URL and attached later, by   *)
(* key, to a post (post.service.ts), to a chat message                     *)
(* (chat-message.service.ts) or to a profile (customer-profile.service.ts, *)
(* mover-profile.service.ts).  The bucket and the database share no        *)
(* transaction: a request that fails or drops an image deletes the object  *)
(* itself, and every night cleanupOrphanS3Objects deletes what no row      *)
(* refers to.  Objects of one prefix are looked at; the prefixes have      *)
(* nothing in common.                                                      *)
(***************************************************************************)
EXTENDS Integers, FiniteSets

CONSTANTS
    Keys,           \* keys of uploads, each uploaded once (a UUID)
    Posts,          \* bound: ids posts may get
    Handlers,       \* requests running at once
    MaxCalls,       \* bound: requests in all
    PageSize,       \* objects of one page of the bucket's listing
    None

ASSUME ObjectsAssumption == PageSize \in Nat \ {0}

VARIABLES
    prefix,         \* "posts", "chat-attachments", "profile-images"
    object,         \* of a key: "none", "fresh", "old" (a day and more), "gone"
    post, images,   \* posts, and their rows in post_images
    attached,       \* keys in chat_attachments
    profileImage,   \* users.profile_image_key of one user
    profile,        \* whose: "mover", a customer with an "empty" or "saved" profile
    pc, request,    \* per handler: the statement to come, what it carries
    calls,          \* requests so far
    job,            \* the night's cleanup
    late            \* history: keys saved after the last look at them, or
                    \* named by a profile save that failed when they were saved

vars == <<prefix, object, post, images, attached, profileImage, profile, pc, request, calls, job, late>>
database == <<post, images, attached, profileImage, profile>>

Stored == {k \in Keys : object[k] \in {"fresh", "old"}}

\* findReferencedPostImageKeys, findReferencedChatAttachmentKeys: the rows of
\* a deleted post refer to their objects as well.
Referenced == IF prefix = "posts" THEN UNION {images[p] : p \in Posts} ELSE attached

NoRequest == [for |-> None, keys |-> {}, previous |-> {}, doomed |-> {}, written |-> FALSE]
\* due (history): the objects this run has to delete.
NoJob == [pc |-> "off", listed |-> {}, doomed |-> {}, due |-> {}]

\* deleteS3KeysSafely: whichever of the deletions succeed.
Delete(keys) == object' = [k \in Keys |-> IF k \in keys /\ k \in Stored THEN "gone" ELSE object[k]]

\* Keys somebody goes on to delete, without another look.
Condemned == {k \in Keys :
    \/ \E h \in Handlers : pc[h] = "delete" /\ k \in request[h].doomed
    \/ job.pc = "delete" /\ k \in job.doomed}

\* The rows of a commit now name these keys.
Attach(keys) == late' = late \cup (keys \cap (Condemned \cup (Keys \ Stored)))

-----------------------------------------------------------------------------
(* The client.                                                               *)
Upload(k) ==
    /\ object[k] = "none"
    /\ object' = [object EXCEPT ![k] = "fresh"]
    /\ UNCHANGED <<prefix, calls, database, pc, request, job, late>>

\* A day goes by for the object.
Age(k) ==
    /\ object[k] = "fresh"
    /\ object' = [object EXCEPT ![k] = "old"]
    /\ UNCHANGED <<prefix, calls, database, pc, request, job, late>>

Uploaded == {k \in Keys : object[k] # "none"}

Goto(h, place) == pc' = [pc EXCEPT ![h] = place]
Begin(h, place) == calls < MaxCalls /\ calls' = calls + 1 /\ Goto(h, place)
Answer(h) == Goto(h, "idle") /\ request' = [request EXCEPT ![h] = NoRequest]

-----------------------------------------------------------------------------
(* Posts.                                                                    *)
\* A post without images has nothing to say here.
createPost(h, keys) ==
    /\ prefix = "posts" /\ pc[h] = "idle" /\ keys # {}
    /\ Begin(h, "valid")
    /\ request' = [request EXCEPT ![h].keys = keys]
    /\ UNCHANGED <<prefix, object, database, job, late>>

\* assertPostOwner, then findImageKeysByPostId.
updatePost(h, p, keys) ==
    /\ prefix = "posts" /\ pc[h] = "idle"
    /\ post[p] = "live"
    /\ Begin(h, "valid")
    /\ request' = [request EXCEPT ![h].for = p, ![h].keys = keys, ![h].previous = images[p]]
    /\ UNCHANGED <<prefix, object, database, job, late>>

\* Every key has an object; otherwise the call is refused.
assertValidPostImageKeys(h) ==
    /\ prefix = "posts" /\ pc[h] = "valid"
    /\ IF request[h].keys \subseteq Stored
       THEN Goto(h, "unreferenced") /\ UNCHANGED request
       ELSE Answer(h)
    /\ UNCHANGED <<prefix, calls, object, database, job, late>>

newImageKeys(h) == request[h].keys \ request[h].previous

\* No post, deleted ones included, has a key that is new to this one.
assertImageKeysNotReferenced(h) ==
    /\ pc[h] = "unreferenced"
    /\ IF newImageKeys(h) \cap Referenced = {}
       THEN Goto(h, "write") /\ UNCHANGED request
       ELSE Answer(h)
    /\ UNCHANGED <<prefix, calls, object, database, job, late>>

\* The catch block: the upload is of no use any more.
Catch(h) ==
    /\ Goto(h, "references")
    /\ request' = [request EXCEPT ![h].doomed = newImageKeys(h), ![h].written = FALSE]

\* A post and its images; a deleted or unknown post writes nothing.  What is
\* committed may still look like an error to the caller.
insertPost(h, p) ==
    /\ prefix = "posts" /\ pc[h] = "write" /\ request[h].for = None
    /\ post[p] = "none"
    /\ post' = [post EXCEPT ![p] = "live"]
    /\ images' = [images EXCEPT ![p] = request[h].keys]
    /\ Attach(request[h].keys)
    /\ Answer(h) \/ Catch(h)
    /\ UNCHANGED <<prefix, calls, object, attached, profileImage, profile, job>>

replacePostImages(h) ==
    LET p == request[h].for
        removed == request[h].previous \ request[h].keys
    IN  /\ prefix = "posts" /\ pc[h] = "write" /\ p # None
        /\ post[p] = "live"
        /\ images' = [images EXCEPT ![p] = request[h].keys]
        /\ Attach(request[h].keys)
        /\ \/ Catch(h)
           \/ /\ Goto(h, "references")
              /\ request' = [request EXCEPT ![h].doomed = removed, ![h].written = TRUE]
        /\ UNCHANGED <<prefix, calls, object, post, attached, profileImage, profile, job>>

\* POST_NOT_FOUND, or an error that rolled back.
WriteFails(h) ==
    /\ prefix = "posts" /\ pc[h] = "write"
    /\ Catch(h)
    /\ UNCHANGED <<prefix, calls, object, database, job, late>>

deleteUnreferencedPostImageKeys(h) ==
    /\ prefix = "posts" /\ pc[h] = "references"
    /\ LET deletable == request[h].doomed \ Referenced
       IN  IF deletable = {}
           THEN Answer(h)
           ELSE Goto(h, "delete") /\ request' = [request EXCEPT ![h].doomed = deletable]
    /\ UNCHANGED <<prefix, calls, object, database, job, late>>

\* The look itself fails: inside the try it leads to the catch block.
LookFails(h) ==
    /\ pc[h] = "references"
    /\ IF request[h].written THEN Catch(h) ELSE Answer(h)
    /\ UNCHANGED <<prefix, calls, object, database, job, late>>

\* The mover's profile was saved: its embedding is next.
Reindex(h) ==
    /\ Goto(h, "reindex")
    /\ request' = [request EXCEPT ![h].doomed = {}]

deletePostImageKeysSafely(h) ==
    /\ pc[h] = "delete"
    /\ \E keys \in SUBSET request[h].doomed : Delete(keys)
    /\ IF prefix = "profile-images" /\ request[h].written THEN Reindex(h) ELSE Answer(h)
    /\ UNCHANGED <<prefix, calls, database, job, late>>

\* The rows of its images stay.
softDeletePost(p) ==
    /\ post[p] = "live"
    /\ post' = [post EXCEPT ![p] = "deleted"]
    /\ UNCHANGED <<prefix, calls, object, images, attached, profileImage, profile, pc, request, job, late>>

-----------------------------------------------------------------------------
(* Chat messages: an object may be sent more than once.                      *)
sendImageMessage(h, keys) ==
    /\ prefix = "chat-attachments" /\ pc[h] = "idle"
    /\ keys # {} /\ keys \subseteq Stored
    /\ Begin(h, "send")
    /\ request' = [request EXCEPT ![h].keys = keys]
    /\ UNCHANGED <<prefix, object, database, job, late>>

\* Committed, or not: nothing is cleaned up.
createImageMessage(h) ==
    /\ pc[h] = "send"
    /\ \/ /\ attached' = attached \cup request[h].keys
          /\ Attach(request[h].keys)
       \/ UNCHANGED <<attached, late>>
    /\ Answer(h)
    /\ UNCHANGED <<prefix, calls, object, post, images, profileImage, profile, job>>

-----------------------------------------------------------------------------
(* Profiles: at most one image, and nobody looks whether its object exists  *)
(* or is in use.                                                           *)

\* The profile and its image are read; keys is the image the body asks for,
\* none when it is to be removed.
BeginProfile(h, keys) ==
    /\ prefix = "profile-images" /\ pc[h] = "idle"
    /\ Cardinality(keys) <= 1
    /\ Begin(h, "profile")
    /\ request' = [request EXCEPT ![h].for = profile, ![h].keys = keys, ![h].previous = profileImage]
    /\ UNCHANGED <<prefix, object, database, job, late>>

\* A customer's update leaves out an image that is the same; the first save
\* of a customer and a mover's save do not.
registerCustomerProfile(h, keys) ==
    /\ profile \in {"empty", "saved"}
    /\ profile = "saved" => keys # profileImage
    /\ BeginProfile(h, keys)

readMover(h, keys) == profile = "mover" /\ BeginProfile(h, keys)

Discard(h, keys) ==
    IF keys = {} THEN Answer(h)
    ELSE Goto(h, "delete") /\ request' = [request EXCEPT ![h].doomed = keys]

CommitProfile(h) ==
    /\ profileImage' = request[h].keys
    /\ profile' = IF profile = "empty" THEN "saved" ELSE profile
    /\ UNCHANGED <<prefix, calls, object, post, images, attached, job>>

\* Saved: the image before it goes, unless the first save just left it out.
createCustomerProfile(h) ==
    /\ pc[h] = "profile" /\ request[h].for = "empty"
    /\ CommitProfile(h) /\ Attach(request[h].keys)
    /\ Discard(h, IF request[h].keys = {} THEN {} ELSE request[h].previous \ request[h].keys)

updateCustomerProfile(h) ==
    /\ pc[h] = "profile" /\ request[h].for = "saved"
    /\ CommitProfile(h) /\ Attach(request[h].keys)
    /\ Discard(h, request[h].previous \ request[h].keys)

\* A mover's: the image before it goes, and the embedding comes after.
saveMoverProfile(h) ==
    LET removed == request[h].previous \ request[h].keys
    IN  /\ pc[h] = "profile" /\ request[h].for = "mover"
        /\ CommitProfile(h) /\ Attach(request[h].keys)
        /\ Goto(h, IF removed = {} THEN "reindex" ELSE "delete")
        /\ request' = [request EXCEPT ![h].doomed = removed, ![h].written = TRUE]

\* A customer's nickname, phone number or password is refused before the
\* save: the upload stays where it is.
ProfileRefused(h) ==
    /\ pc[h] = "profile" /\ request[h].for # "mover"
    /\ Answer(h)
    /\ UNCHANGED <<prefix, calls, object, database, job, late>>

\* The catch block deletes the upload the body named, without a look.
CatchSave(h) ==
    /\ IF request[h].keys = {} THEN Answer(h)
       ELSE /\ Goto(h, "delete")
            /\ request' = [request EXCEPT ![h].doomed = request[h].keys, ![h].written = FALSE]
    /\ late' = late \cup (request[h].keys \cap profileImage')

\* A unique nickname or phone number, or the connection: rolled back.
ProfileNotSaved(h) ==
    /\ pc[h] = "profile"
    /\ UNCHANGED <<prefix, calls, object, database, job>>
    /\ CatchSave(h)

\* The commit went through and its answer was lost.
ProfileSavedUnheard(h) ==
    /\ pc[h] = "profile"
    /\ CommitProfile(h) /\ CatchSave(h)

\* Outside the transaction, in the same try block.
reindexMoverProfileEmbedding(h) ==
    /\ pc[h] = "reindex"
    /\ UNCHANGED <<prefix, calls, object, database, job>>
    /\ \/ Answer(h) /\ UNCHANGED late
       \/ CatchSave(h)

-----------------------------------------------------------------------------
(* The cleanup of the night.                                                 *)
CleanedPrefixes == {"posts", "chat-attachments"}

cleanupOrphanS3Objects ==
    /\ prefix \in CleanedPrefixes
    /\ job.pc = "off"
    /\ job' = [job EXCEPT !.pc = "list", !.due = {k \in Keys : object[k] = "old"} \ Referenced]
    /\ UNCHANGED <<prefix, calls, object, database, pc, request, late>>

\* The page that follows in the listing, and of it what is older than a day.
Page(page) ==
    /\ job.pc = "list"
    /\ page \subseteq Stored \ job.listed
    /\ Cardinality(page) <= PageSize /\ page # {}

\* Mutant: a page with nothing old on it ends the run.
StopAtCleanPage(page) ==
    /\ Page(page)
    /\ LET old == {k \in page : object[k] = "old"}
       IN  job' = IF old = {} THEN [NoJob EXCEPT !.due = job.due \cap Stored]
                  ELSE [job EXCEPT !.pc = "refs", !.listed = @ \cup page, !.doomed = old]
    /\ UNCHANGED <<prefix, calls, object, database, pc, request, late>>

listObjectsByPrefix(page) ==
    /\ Page(page)
    /\ job' = [job EXCEPT !.pc = "refs", !.listed = @ \cup page,
                         !.doomed = {k \in page : object[k] = "old"}]
    /\ UNCHANGED <<prefix, calls, object, database, pc, request, late>>

\* No continuation token: the run is over.
NightEnds ==
    /\ job.pc = "list" /\ Stored \subseteq job.listed
    /\ job' = [NoJob EXCEPT !.due = job.due \cap Stored]
    /\ UNCHANGED <<prefix, calls, object, database, pc, request, late>>

\* Mutant: whatever the second look finds, the first one's keys are deleted.
RecheckIgnored ==
    /\ job.pc \in {"refs", "recheck"}
    /\ LET orphans == IF job.pc = "refs" THEN job.doomed \ Referenced ELSE job.doomed
       IN  job' = [job EXCEPT !.doomed = orphans, !.due = @ \ (job.doomed \cap Referenced),
                              !.pc = CASE orphans = {}     -> "list"
                                       [] job.pc = "refs"  -> "recheck"
                                       [] OTHER            -> "delete"]
    /\ UNCHANGED <<prefix, calls, object, database, pc, request, late>>

findReferencedKeys ==
    /\ job.pc \in {"refs", "recheck"}
    /\ LET orphans == job.doomed \ Referenced
       IN  job' = [job EXCEPT !.doomed = orphans, !.due = @ \ (job.doomed \cap Referenced),
                              !.pc = CASE orphans = {}     -> "list"
                                       [] job.pc = "refs"  -> "recheck"
                                       [] OTHER            -> "delete"]
    /\ UNCHANGED <<prefix, calls, object, database, pc, request, late>>

deleteS3KeysSafely(keys) ==
    /\ job.pc = "delete" /\ keys \subseteq job.doomed
    /\ Delete(keys)
    /\ job' = [job EXCEPT !.pc = "list", !.doomed = {}, !.due = @ \ (job.doomed \ keys)]
    /\ UNCHANGED <<prefix, calls, database, pc, request, late>>

\* A listing or a look fails, or the process ends: the night's run is over.
JobFails ==
    /\ job.pc # "off"
    /\ job' = NoJob
    /\ UNCHANGED <<prefix, calls, object, database, pc, request, late>>

-----------------------------------------------------------------------------
Init ==
    /\ prefix \in {"posts", "chat-attachments", "profile-images"}
    /\ object = [k \in Keys |-> "none"]
    /\ post = [p \in Posts |-> "none"]
    /\ images = [p \in Posts |-> {}]
    /\ attached = {} /\ profileImage = {} /\ late = {}
    /\ profile \in IF prefix = "profile-images" THEN {"empty", "mover"} ELSE {"mover"}
    /\ pc = [h \in Handlers |-> "idle"]
    /\ request = [h \in Handlers |-> NoRequest]
    /\ job = NoJob /\ calls = 0

Request(h) ==
    \E keys \in SUBSET Uploaded :
          \/ createPost(h, keys)
          \/ \E p \in Posts : updatePost(h, p, keys)
          \/ sendImageMessage(h, keys)
          \/ registerCustomerProfile(h, keys)
          \/ readMover(h, keys)

Continue(h) ==
    \/ assertValidPostImageKeys(h)
    \/ assertImageKeysNotReferenced(h)
    \/ \E p \in Posts : insertPost(h, p)
    \/ replacePostImages(h)
    \/ WriteFails(h)
    \/ deleteUnreferencedPostImageKeys(h)
    \/ LookFails(h)
    \/ deletePostImageKeysSafely(h)
    \/ createImageMessage(h)
    \/ createCustomerProfile(h)
    \/ updateCustomerProfile(h)
    \/ saveMoverProfile(h)
    \/ ProfileRefused(h)
    \/ ProfileNotSaved(h)
    \/ ProfileSavedUnheard(h)
    \/ reindexMoverProfileEmbedding(h)

Night ==
    \/ cleanupOrphanS3Objects
    \/ \E page \in SUBSET Keys : listObjectsByPrefix(page)
    \/ NightEnds
    \/ findReferencedKeys
    \/ \E keys \in SUBSET Keys : deleteS3KeysSafely(keys)

Next ==
    \/ \E k \in Keys : Upload(k) \/ Age(k)
    \/ \E h \in Handlers : Request(h) \/ Continue(h)
    \/ \E p \in Posts : softDeletePost(p)
    \/ Night
    \/ JobFails

Spec == Init /\ [][Next]_vars

-----------------------------------------------------------------------------
\* Every variable keeps its type.
TypeOK ==
    /\ prefix \in CleanedPrefixes \cup {"profile-images"}
    /\ object \in [Keys -> {"none", "fresh", "old", "gone"}]
    /\ post \in [Posts -> {"none", "live", "deleted"}]
    /\ images \in [Posts -> SUBSET Keys]
    /\ attached \in SUBSET Keys /\ profileImage \in SUBSET Keys /\ late \in SUBSET Keys
    /\ profile \in {"empty", "saved", "mover"}
    /\ pc \in [Handlers -> {"idle", "valid", "unreferenced", "write", "references", "delete",
                             "send", "profile", "reindex"}]
    /\ request \in [Handlers -> [for : Posts \cup {None, "empty", "saved", "mover"},
                                 keys : SUBSET Keys, previous : SUBSET Keys,
                                 doomed : SUBSET Keys, written : BOOLEAN]]
    /\ job \in [pc : {"off", "list", "refs", "recheck", "delete"}, listed : SUBSET Keys,
                doomed : SUBSET Keys, due : SUBSET Keys]

InRows == (UNION {images[p] : p \in Posts}) \cup attached \cup profileImage

\* An image that a row refers to keeps its object, whatever requests fail or
\* drop it and whenever the night's job runs.  A key saved between a look and
\* the one after it is seen by the second.  What the code cannot keep is a key
\* saved after the last look and before the deletion (post-image.util.ts,
\* orphan-s3-cleanup.service.ts), and a saved profile image that a save which
\* fails has named too: the catch blocks of the profile services delete it
\* without a look.
ReferencedStay == InRows \subseteq Stored \cup late


\* A night's run that no error ended has deleted every object that was a day
\* old and unreferenced when it began, except those a row has referred to
\* since and those S3 refused to delete: no page of the listing is missed.
NightCleans == job.pc = "off" => job.due \cap Stored = {}

\* Why they are inductive.  One behaviour is about one prefix, so the rows that
\* are looked at are all there are.
OnePrefix ==
    /\ prefix # "posts" => \A p \in Posts : images[p] = {}
    /\ prefix # "chat-attachments" => attached = {}
    /\ prefix # "profile-images" => profileImage = {}
    /\ prefix \notin CleanedPrefixes => job.pc = "off"
    /\ \A h \in Handlers :
          /\ pc[h] \in {"valid", "unreferenced", "write", "references"} => prefix = "posts"
          /\ pc[h] = "send" => prefix = "chat-attachments"
          /\ pc[h] \in {"profile", "reindex"} => prefix = "profile-images"
          /\ prefix # "profile-images" => request[h].for \in Posts \cup {None}

\* Whoever goes on to delete a key found it in no row, or it was late.
CondemnedUnused == Condemned \cap InRows \subseteq late

\* What the run has listed and not deleted is in its hands.
InHand == IF job.pc \in {"refs", "recheck", "delete"} THEN job.doomed ELSE {}
NightOwes ==
    /\ job.pc = "off" => job = NoJob
    /\ \A k \in job.due : object[k] \in {"old", "gone"}
    /\ job.due \cap Stored \cap job.listed \subseteq InHand

\* The inductive invariant.
Inv == TypeOK /\ OnePrefix /\ ReferencedStay /\ CondemnedUnused /\ NightOwes
=============================================================================
