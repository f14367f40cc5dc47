---------------------------- MODULE CursorLists ----------------------------
(***************************************************************************)
(* The lists that are read page by page with a cursor: posts               *)
(* (post.repository.ts), comments (comment.repository.ts), requests a      *)
(* mover received (estimate-request.repository.ts), movers and favourites  *)
(* (movers.repository.ts), chat messages (chat-message.repository.ts,      *)
(* admin-chat.repository.ts) and a customer's past requests                *)
(* (quote.repository.ts).  Every list is stated the way its query is: what *)
(* it filters, its ORDER BY, what a cursor holds, and which rows come      *)
(* after a cursor.  The two latter are written apart from the ORDER BY in  *)
(* the code, and nothing but care keeps them in step.                      *)
(*                                                                         *)
(* r is a table: r[i] is the row with id i, key is the column the list     *)
(* sorts by and second the next one, 0 is null.  facet says how the row    *)
(* stands to the list's filters.                                           *)
(***************************************************************************)
EXTENDS Integers, FiniteSets, SequencesExt

CONSTANTS
    Ids,            \* ids of rows, in the order the sequence gives them out
    MaxKey,         \* bound: sort values are 1 .. MaxKey
    Limit           \* rows of one page

Null == 0
Absent == "absent"
Keys == 1 .. MaxKey

ASSUME ListsAssumption ==
    Ids \subseteq Nat \ {0} /\ IsFiniteSet(Ids) /\ MaxKey \in Nat \ {0} /\ Limit \in Nat \ {0}

PostLists == {"LATEST", "POPULAR", "MOST_COMMENTED"}
RequestLists == {"SUBMITTED_AT_ASC", "MOVE_DATE_ASC"}
MoverLists == {"career", "aggregate"}
MessageLists == {"messages", "adminMessages"}
CursorKinds == PostLists \cup RequestLists \cup MoverLists \cup MessageLists
                   \cup {"comments", "favorites", "pastRequests"}

\* A comparison with a column that is null is not true in SQL.
Lt(x, v) == x # Null /\ x < v
Gt(x, v) == x # Null /\ x > v

-----------------------------------------------------------------------------
(* What a list shows.  Region, keyword and the other narrowing filters are   *)
(* equalities on columns that no order depends on; they are left out.        *)

\* Without a category the furniture of the neighbourhood is not listed.
buildPostListBaseWhere(filter, facet) ==
    CASE filter = "all"       -> facet = "post"
      [] filter = "share"     -> facet \in {"share", "givenAway"}
      [] filter = "openShare" -> facet = "share"

\* Open, not over and not answered by this mover; then designated for the
\* mover, in the mover's regions, or either.
buildEstimateRequestListWhere(filter, facet) ==
    /\ facet \in {"elsewhere", "serviceArea", "designated"}
    /\ CASE filter = "all"         -> TRUE
         [] filter = "designated"  -> facet = "designated"
         [] filter = "serviceArea" -> facet = "serviceArea"
         [] filter = "either"      -> facet \in {"serviceArea", "designated"}

buildMoverListWhere(facet) == facet = "active"

buildFavoriteListWhere(facet) == facet = "active"

findTopLevelComments(facet) == facet = "topLevel"

\* Only what was sent since the reader joined; the console sees everything.
findMessagesByRoomCursor(facet) == facet = "sinceJoined"
findAdminChatMessagesByCursor(facet) == facet \in {"sinceJoined", "before"}

findCustomerPastEstimateRequests(filter, facet) ==
    facet \in (IF filter = "CONFIRMED" THEN {"confirmed"} ELSE {"confirmed", "over"})

CursorWhere(list, filter, facet) ==
    CASE list \in PostLists        -> buildPostListBaseWhere(filter, facet)
      [] list \in RequestLists     -> buildEstimateRequestListWhere(filter, facet)
      [] list \in MoverLists       -> buildMoverListWhere(facet)
      [] list = "favorites"        -> buildFavoriteListWhere(facet)
      [] list = "comments"         -> findTopLevelComments(facet)
      [] list = "messages"         -> findMessagesByRoomCursor(facet)
      [] list = "adminMessages"    -> findAdminChatMessagesByCursor(facet)
      [] list = "pastRequests"     -> findCustomerPastEstimateRequests(filter, facet)

\* How a row can stand to the filters of its list.
CursorFacets(list) ==
    CASE list \in PostLists    -> {"post", "share", "givenAway", "deleted"}
      [] list \in RequestLists -> {"elsewhere", "serviceArea", "designated", "answered"}
      [] list = "comments"     -> {"topLevel", "reply", "deleted"}
      [] list \in MessageLists -> {"sinceJoined", "before"}
      [] list = "pastRequests" -> {"confirmed", "over", "waiting"}
      [] OTHER                 -> {"active", "withdrawn"}

CursorFilters(list) ==
    CASE list \in PostLists    -> {"all", "share", "openShare"}
      [] list \in RequestLists -> {"all", "designated", "serviceArea", "either"}
      [] list = "pastRequests" -> {"ALL", "CONFIRMED"}
      [] OTHER                 -> {"all"}

\* What may happen to a row that is on the list.
CursorMoves(list) ==
    CASE list \in PostLists    -> {<<"share", "givenAway">>, <<"post", "deleted">>, <<"share", "deleted">>}
      [] list \in RequestLists -> {<<"elsewhere", "designated">>, <<"elsewhere", "answered">>,
                                   <<"serviceArea", "answered">>, <<"designated", "answered">>}
      [] list = "comments"     -> {<<"topLevel", "deleted">>}
      [] list \in MessageLists -> {}
      [] list = "pastRequests" -> {<<"waiting", "confirmed">>, <<"waiting", "over">>}
      [] OTHER                 -> {<<"active", "withdrawn">>}

\* Counters, the experience of a profile and what is counted of a mover
\* change while they are sorted by; times and ids do not.
CursorRekeyed(list) == list \in {"POPULAR", "MOST_COMMENTED"} \cup MoverLists

-----------------------------------------------------------------------------
(* ORDER BY: a comes before b.                                               *)
postOrderBy(r, a, b) ==
    r[a].key > r[b].key \/ (r[a].key = r[b].key /\ a > b)

commentOrderBy(r, a, b) ==
    r[a].key < r[b].key \/ (r[a].key = r[b].key /\ a < b)

\* submittedAt asc, id asc; or moveDate asc, submittedAt desc (null first), id desc.
findEstimateRequests(list, r, a, b) ==
    IF list = "SUBMITTED_AT_ASC"
    THEN r[a].key < r[b].key \/ (r[a].key = r[b].key /\ a < b)
    ELSE \/ r[a].key < r[b].key
         \/ /\ r[a].key = r[b].key
            /\ \/ r[a].second = Null /\ r[b].second # Null
               \/ r[b].second # Null /\ r[a].second > r[b].second
               \/ r[a].second = r[b].second /\ a > b

\* career desc nulls last, id desc.
findMovers(r, a, b) ==
    r[a].key > r[b].key \/ (r[a].key = r[b].key /\ a > b)

compareRankedDesc(r, a, b) ==
    IF r[a].key # r[b].key THEN r[a].key > r[b].key ELSE a > b

findFavoriteMoversById(r, a, b) ==
    r[a].key > r[b].key \/ (r[a].key = r[b].key /\ a > b)

pastOrderBy(r, a, b) ==
    r[a].key > r[b].key \/ (r[a].key = r[b].key /\ a > b)

CursorOrder(list, r, a, b) ==
    CASE list \in PostLists    -> postOrderBy(r, a, b)
      [] list = "comments"     -> commentOrderBy(r, a, b)
      [] list \in RequestLists -> findEstimateRequests(list, r, a, b)
      [] list = "career"       -> findMovers(r, a, b)
      [] list = "aggregate"    -> compareRankedDesc(r, a, b)
      [] list = "favorites"    -> findFavoriteMoversById(r, a, b)
      [] list \in MessageLists -> a > b
      [] list = "pastRequests" -> pastOrderBy(r, a, b)

-----------------------------------------------------------------------------
(* A cursor and the rows after it.  It holds the sort values its row had     *)
(* when the page was read.                                                   *)
NoCursor == [id |-> 0, key |-> 0, second |-> 0]

getCursorValue(r, i) == [id |-> i, key |-> r[i].key, second |-> 0]

getReceivedCursor(list, r, i) ==
    [id |-> i, key |-> r[i].key, second |-> IF list = "MOVE_DATE_ASC" THEN r[i].second ELSE 0]

buildCursorPaginationMeta(i) == [id |-> i, key |-> 0, second |-> 0]

CursorOf(list, r, i) ==
    CASE list \in RequestLists -> getReceivedCursor(list, r, i)
      [] list \in MessageLists -> buildCursorPaginationMeta(i)
      [] list = "pastRequests" -> buildCursorPaginationMeta(i)
      [] OTHER                 -> getCursorValue(r, i)

postCursorCondition(c, r, i) ==
    Lt(r[i].key, c.key) \/ (r[i].key = c.key /\ i < c.id)

buildTopLevelCursorCondition(c, r, i) ==
    Gt(r[i].key, c.key) \/ (r[i].key = c.key /\ i > c.id)

receivedCursorCondition(list, c, r, i) ==
    \/ Gt(r[i].key, c.key)
    \/ /\ list = "SUBMITTED_AT_ASC"
       /\ r[i].key = c.key
       /\ i > c.id
    \/ /\ list = "MOVE_DATE_ASC"
       /\ r[i].key = c.key
       /\ IF c.second = Null
          THEN r[i].second # Null \/ (r[i].second = Null /\ i < c.id)
          ELSE Lt(r[i].second, c.second) \/ (r[i].second = c.second /\ i < c.id)

\* Mutant: after a row with years of experience, those without are forgotten.
careerCursorForgetsNull(c, r, i) ==
    IF c.key = Null
    THEN r[i].key = Null /\ i < c.id
    ELSE Lt(r[i].key, c.key) \/ (r[i].key = c.key /\ i < c.id)

buildCareerCursorCondition(c, r, i) ==
    IF c.key = Null
    THEN r[i].key = Null /\ i < c.id
    ELSE \/ Lt(r[i].key, c.key)
         \/ r[i].key = c.key /\ i < c.id
         \/ r[i].key = Null

isAfterDescCursor(c, r, i) ==
    r[i].key < c.key \/ (r[i].key = c.key /\ i < c.id)

buildFavoriteListCursorCondition(c, r, i) ==
    Lt(r[i].key, c.key) \/ (r[i].key = c.key /\ i < c.id)

\* Prisma's own cursor: the rows from the one with this id on; skip: 1 is
\* meant to drop that one.
fromCursor(c, r, i) == i = c.id \/ pastOrderBy(r, c.id, i)
skipped(list, c) == IF list = "pastRequests" /\ c # NoCursor THEN 1 ELSE 0

AfterCursor(list, c, r, i) ==
    CASE list \in PostLists    -> postCursorCondition(c, r, i)
      [] list = "comments"     -> buildTopLevelCursorCondition(c, r, i)
      [] list \in RequestLists -> receivedCursorCondition(list, c, r, i)
      [] list = "career"       -> buildCareerCursorCondition(c, r, i)
      [] list = "aggregate"    -> isAfterDescCursor(c, r, i)
      [] list = "favorites"    -> buildFavoriteListCursorCondition(c, r, i)
      [] list \in MessageLists -> i < c.id
      [] list = "pastRequests" -> fromCursor(c, r, i)

\* The rows the way the query returns them: the order leaves one way.
CursorSorted(list, r, rows) ==
    {s \in SetToSeqs(rows) : \A m, n \in DOMAIN s : m < n => CursorOrder(list, r, s[m], s[n])}

\* limit + 1 rows are fetched: one more than the page tells that there is a
\* next one.
FetchPage(list, filter, c, r) ==
    LET found == {i \in Ids : /\ CursorWhere(list, filter, r[i].facet)
                              /\ c = NoCursor \/ AfterCursor(list, c, r, i)}
        last == skipped(list, c) + Limit
    IN  {[items   |-> SubSeq(s, 1 + skipped(list, c), IF Len(s) > last THEN last ELSE Len(s)),
          hasNext |-> Len(s) > last] : s \in CursorSorted(list, r, found)}
=============================================================================
