----------------------------- MODULE PagedLists -----------------------------
(***************************************************************************)
(* The lists that are read by page number, most of them the console's:     *)
(* requests and completed moves (admin-estimate-request.service.ts,        *)
(* admin-completed.service.ts), reviews, members, chat rooms and reports   *)
(* (admin-review, admin-member, admin-chat, admin-report), and a mover's   *)
(* quotes and reviews and a customer's reviews (quote.repository.ts,       *)
(* review.repository.ts).  From a detail page of the console one walks to  *)
(* the rows before and after it: the neighbours are found by queries of    *)
(* their own, written apart from the list's ORDER BY.                      *)
(* Tables are those of CursorLists.tla.                                    *)
(***************************************************************************)
EXTENDS CursorLists

DateLists == {"requests", "completed"}
CreatedAtLists == {"adminReviews", "members", "reports"}
ConsoleLists == DateLists \cup CreatedAtLists \cup {"rooms"}
OwnLists == {"moverReviews", "customerReviews", "writableQuotes", "sentQuotes"}
PagedKinds == ConsoleLists \cup OwnLists

-----------------------------------------------------------------------------
(* What a list shows.  Names, numbers and ids narrow every list alike and    *)
(* are left out.                                                             *)

\* One status, or all but the drafts and what has been completed.
createEstimateRequestListWhere(filter, facet) ==
    IF filter = "all" THEN facet \notin {"DRAFT", "COMPLETED"} ELSE facet = filter

createCompletedListWhere(facet) == facet = "COMPLETED"

buildAdminReviewListWhere(filter, facet) ==
    CASE filter = "all"     -> TRUE
      [] filter = "ACTIVE"  -> facet = "ACTIVE"
      [] filter = "DELETED" -> facet = "DELETED"

\* A member without a status row is an active one.
buildAdminMemberListWhere(filter, facet) ==
    /\ facet # "deleted"
    /\ CASE filter = "all"       -> TRUE
         [] filter = "ACTIVE"    -> facet \in {"noStatus", "ACTIVE"}
         [] filter = "SUSPENDED" -> facet = "SUSPENDED"

buildAdminChatListWhere(filter, facet) == filter = "all" \/ facet = filter

buildAdminReportListWhere(filter, facet) == filter = "all" \/ facet = filter

getReviewsByMoverId(facet) == facet = "ACTIVE"
getReviewsByCustomerId(facet) == facet = "ACTIVE"

\* Confirmed, over, and without a live review of the customer.
findWritableQuotesByCustomerId(facet) == facet = "unreviewed"

resolveListStatuses(filter, facet) ==
    facet \in (IF filter = "REJECTED" THEN {"REJECTED"} ELSE {"PENDING", "CONFIRMED"})

PagedWhere(list, filter, facet) ==
    /\ facet # Absent
    /\ CASE list = "requests"        -> createEstimateRequestListWhere(filter, facet)
         [] list = "completed"       -> createCompletedListWhere(facet)
         [] list = "adminReviews"    -> buildAdminReviewListWhere(filter, facet)
         [] list = "members"         -> buildAdminMemberListWhere(filter, facet)
         [] list = "rooms"           -> buildAdminChatListWhere(filter, facet)
         [] list = "reports"         -> buildAdminReportListWhere(filter, facet)
         [] list = "moverReviews"    -> getReviewsByMoverId(facet)
         [] list = "customerReviews" -> getReviewsByCustomerId(facet)
         [] list = "writableQuotes"  -> findWritableQuotesByCustomerId(facet)
         [] list = "sentQuotes"      -> resolveListStatuses(filter, facet)

\* What a detail page shows: a request that is a draft or completed has none
\* on the page of requests, and a member who is gone none at all.
DetailWhere(list, facet) ==
    CASE list = "requests"  -> facet \notin {Absent, "DRAFT", "COMPLETED"}
      [] list = "completed" -> facet = "COMPLETED"
      [] list = "members"   -> facet \notin {Absent, "deleted"}
      [] OTHER              -> facet # Absent

PagedFacets(list) ==
    CASE list \in DateLists        -> {"DRAFT", "SUBMITTED", "CONFIRMED", "COMPLETED"}
      [] list = "adminReviews"     -> {"ACTIVE", "DELETED"}
      [] list = "members"          -> {"noStatus", "ACTIVE", "SUSPENDED", "deleted"}
      [] list = "rooms"            -> {"GENERAL", "COMMUNITY"}
      [] list = "reports"          -> {"PENDING", "RESOLVED", "REJECTED"}
      [] list = "writableQuotes"   -> {"unreviewed", "reviewed"}
      [] list = "sentQuotes"       -> {"PENDING", "CONFIRMED", "REJECTED"}
      [] OTHER                     -> {"ACTIVE", "DELETED"}

PagedFilters(list) ==
    CASE list = "requests"     -> {"all", "SUBMITTED", "CONFIRMED"}
      [] list = "adminReviews" -> {"all", "ACTIVE", "DELETED"}
      [] list = "members"      -> {"all", "ACTIVE", "SUSPENDED"}
      [] list = "rooms"        -> {"all", "GENERAL"}
      [] list = "reports"      -> {"all", "PENDING"}
      [] list = "sentQuotes"   -> {"SENT", "REJECTED"}
      [] OTHER                 -> {"all"}

PagedMoves(list) ==
    CASE list \in DateLists        -> {<<"DRAFT", "SUBMITTED">>, <<"SUBMITTED", "CONFIRMED">>, <<"CONFIRMED", "COMPLETED">>}
      [] list = "members"          -> {<<"noStatus", "SUSPENDED">>, <<"SUSPENDED", "ACTIVE">>, <<"ACTIVE", "SUSPENDED">>, <<"ACTIVE", "deleted">>}
      [] list = "rooms"            -> {}
      [] list = "reports"          -> {<<"PENDING", "RESOLVED">>, <<"PENDING", "REJECTED">>}
      [] list = "writableQuotes"   -> {<<"unreviewed", "reviewed">>, <<"reviewed", "unreviewed">>}
      [] list = "sentQuotes"       -> {<<"PENDING", "CONFIRMED">>}
      [] OTHER                     -> {<<"ACTIVE", "DELETED">>}

\* A message moves its room to the top.
PagedRekeyed(list) == list = "rooms"

PagedSorts(list) == IF list \in DateLists \cup CreatedAtLists THEN {"ASC", "DESC"} ELSE {"DESC"}

-----------------------------------------------------------------------------
(* ORDER BY: a comes before b.                                               *)

\* asc with null last, desc with null first; the later id first either way.
createDateSortOrderBy(sort, r, a, b) ==
    \/ r[a].key = r[b].key /\ a > b
    \/ sort = "ASC" /\ r[a].key # Null /\ (r[b].key = Null \/ r[a].key < r[b].key)
    \/ sort = "DESC" /\ r[b].key # Null /\ (r[a].key = Null \/ r[a].key > r[b].key)

createdAtOrderBy(sort, r, a, b) ==
    \/ r[a].key = r[b].key /\ a > b
    \/ sort = "ASC" /\ r[a].key < r[b].key
    \/ sort = "DESC" /\ r[a].key > r[b].key

\* last_message_at desc nulls last, updated_at desc, id desc.
adminChatListOrderBy(r, a, b) ==
    \/ r[a].key > r[b].key
    \/ r[a].key = r[b].key /\ r[a].second > r[b].second
    \/ r[a].key = r[b].key /\ r[a].second = r[b].second /\ a > b

findAdminReviewsWithCount(sort, r, a, b) == createdAtOrderBy(sort, r, a, b)
findAdminMembersWithCount(sort, r, a, b) == createdAtOrderBy(sort, r, a, b)
findAdminReportsWithCount(sort, r, a, b) == createdAtOrderBy(sort, r, a, b)

\* A customer's and a mover's reviews, newest first; the quotes a review may
\* be written for by their move day.
ownOrderBy(r, a, b) == r[a].key > r[b].key \/ (r[a].key = r[b].key /\ a > b)

PagedOrder(list, sort, r, a, b) ==
    CASE list \in DateLists    -> createDateSortOrderBy(sort, r, a, b)
      [] list = "adminReviews" -> findAdminReviewsWithCount(sort, r, a, b)
      [] list = "members"      -> findAdminMembersWithCount(sort, r, a, b)
      [] list = "reports"      -> findAdminReportsWithCount(sort, r, a, b)
      [] list = "rooms"        -> adminChatListOrderBy(r, a, b)
      [] list \in OwnLists     -> ownOrderBy(r, a, b)

\* A mover's quotes are sorted by created_at alone: those of one instant come
\* in any order, and not in the same one every time.
findQuotesByMoverWithCount(rows, r) ==
    {s \in SetToSeqs(rows) : \A m, n \in DOMAIN s : m < n => r[s[m]].key >= r[s[n]].key}

\* The orders in which the database may return the rows: one, but for those.
PagedResults(list, q, r) ==
    LET rows == {i \in Ids : PagedWhere(list, q.filter, r[i].facet)}
    IN  IF list = "sentQuotes"
        THEN findQuotesByMoverWithCount(rows, r)
        ELSE {s \in SetToSeqs(rows) :
                 \A m, n \in DOMAIN s : m < n => PagedOrder(list, q.sort, r, s[m], s[n])}

\* Mutant: pages are counted from zero.
PageFromZero(sorted, page) ==
    LET skip == page * Limit
    IN  SubSeq(sorted, skip + 1, IF skip + Limit > Len(sorted) THEN Len(sorted) ELSE skip + Limit)

\* skip: (page - 1) * pageSize, take: pageSize
PageOf(sorted, page) ==
    LET skip == (page - 1) * Limit
    IN  SubSeq(sorted, skip + 1, IF skip + Limit > Len(sorted) THEN Len(sorted) ELSE skip + Limit)

totalPages(totalCount) == (totalCount + Limit - 1) \div Limit

-----------------------------------------------------------------------------
(* The neighbours of a row c read before: the rows before it and after it,   *)
(* and the first of those in the order they are searched in.                 *)
First(rows, Before(_, _)) ==
    IF rows = {} THEN 0 ELSE CHOOSE i \in rows : \A j \in rows \ {i} : Before(i, j)

\* createDateNeighborQuery
datePrevWhere(sort, c, r, i) ==
    CASE c.key = Null /\ sort = "ASC"  -> r[i].key # Null \/ i > c.id
      [] c.key = Null /\ sort = "DESC" -> r[i].key = Null /\ i > c.id
      [] c.key # Null /\ sort = "ASC"  -> Lt(r[i].key, c.key) \/ (r[i].key = c.key /\ i > c.id)
      [] c.key # Null /\ sort = "DESC" -> \/ r[i].key = Null
                                          \/ Gt(r[i].key, c.key)
                                          \/ r[i].key = c.key /\ i > c.id

\* Mutant: the rows without a date are forgotten behind the last date.
dateNextForgetsNull(sort, c, r, i) ==
    \/ r[i].key = c.key /\ i < c.id
    \/ sort = "ASC" /\ Gt(r[i].key, c.key)
    \/ sort = "DESC" /\ Lt(r[i].key, c.key)

dateNextWhere(sort, c, r, i) ==
    CASE c.key = Null /\ sort = "ASC"  -> r[i].key = Null /\ i < c.id
      [] c.key = Null /\ sort = "DESC" -> r[i].key # Null \/ i < c.id
      [] c.key # Null /\ sort = "ASC"  -> \/ Gt(r[i].key, c.key)
                                          \/ r[i].key = c.key /\ i < c.id
                                          \/ r[i].key = Null
      [] c.key # Null /\ sort = "DESC" -> Lt(r[i].key, c.key) \/ (r[i].key = c.key /\ i < c.id)

\* desc null first, id asc for ASC; asc null last, id asc for DESC.
datePrevOrderBy(sort, r, a, b) ==
    \/ r[a].key = r[b].key /\ a < b
    \/ sort = "ASC" /\ r[b].key # Null /\ (r[a].key = Null \/ r[a].key > r[b].key)
    \/ sort = "DESC" /\ r[a].key # Null /\ (r[b].key = Null \/ r[a].key < r[b].key)

createdAtPrevWhere(sort, c, r, i) ==
    \/ r[i].key = c.key /\ i > c.id
    \/ sort = "ASC" /\ r[i].key < c.key
    \/ sort = "DESC" /\ r[i].key > c.key

createdAtNextWhere(sort, c, r, i) ==
    \/ r[i].key = c.key /\ i < c.id
    \/ sort = "ASC" /\ r[i].key > c.key
    \/ sort = "DESC" /\ r[i].key < c.key

createdAtPrevOrderBy(sort, r, a, b) ==
    \/ r[a].key = r[b].key /\ a < b
    \/ sort = "ASC" /\ r[a].key > r[b].key
    \/ sort = "DESC" /\ r[a].key < r[b].key

\* A room nobody has written in has no last_message_at.
chatPrevWhere(c, r, i) ==
    \/ IF c.key # Null THEN Gt(r[i].key, c.key) ELSE r[i].key # Null
    \/ r[i].key = c.key /\ r[i].second > c.second
    \/ r[i].key = c.key /\ r[i].second = c.second /\ i > c.id

chatNextWhere(c, r, i) ==
    \/ c.key # Null /\ (Lt(r[i].key, c.key) \/ r[i].key = Null)
    \/ r[i].key = c.key /\ r[i].second < c.second
    \/ r[i].key = c.key /\ r[i].second = c.second /\ i < c.id

\* asc nulls first, asc, asc.
adminChatPrevOrderBy(r, a, b) ==
    \/ r[a].key < r[b].key
    \/ r[a].key = r[b].key /\ r[a].second < r[b].second
    \/ r[a].key = r[b].key /\ r[a].second = r[b].second /\ a < b

\* findPostNeighbors: in the order of the list, one way and the other.
postPrevWhere(c, r, i) == Gt(r[i].key, c.key) \/ (r[i].key = c.key /\ i > c.id)
postNextWhere(c, r, i) == Lt(r[i].key, c.key) \/ (r[i].key = c.key /\ i < c.id)
postPrevOrderBy(r, a, b) == r[a].key < r[b].key \/ (r[a].key = r[b].key /\ a < b)

\* adminReviews, members and reports ask alike, each of its own table.
CreatedAtNeighbour(side, sort, c, r, rows) ==
    IF side = "prev"
    THEN First({i \in rows : createdAtPrevWhere(sort, c, r, i)}, LAMBDA a, b : createdAtPrevOrderBy(sort, r, a, b))
    ELSE First({i \in rows : createdAtNextWhere(sort, c, r, i)}, LAMBDA a, b : createdAtOrderBy(sort, r, a, b))

findAdminReviewNeighborIds(side, q, c, r) ==
    CreatedAtNeighbour(side, q.sort, c, r,
        {i \in Ids : r[i].facet # Absent /\ buildAdminReviewListWhere(q.filter, r[i].facet)})

findAdminMemberNeighborIds(side, q, c, r) ==
    CreatedAtNeighbour(side, q.sort, c, r,
        {i \in Ids : r[i].facet # Absent /\ buildAdminMemberListWhere(q.filter, r[i].facet)})

findAdminReportNeighborIds(side, q, c, r) ==
    CreatedAtNeighbour(side, q.sort, c, r,
        {i \in Ids : r[i].facet # Absent /\ buildAdminReportListWhere(q.filter, r[i].facet)})

findNeighborIds(side, list, q, c, r) ==
    LET rows == {i \in Ids : PagedWhere(list, q.filter, r[i].facet)}
    IN  IF side = "prev"
        THEN First({i \in rows : datePrevWhere(q.sort, c, r, i)}, LAMBDA a, b : datePrevOrderBy(q.sort, r, a, b))
        ELSE First({i \in rows : dateNextWhere(q.sort, c, r, i)}, LAMBDA a, b : createDateSortOrderBy(q.sort, r, a, b))

findAdminChatNeighborIds(side, q, c, r) ==
    LET rows == {i \in Ids : r[i].facet # Absent /\ buildAdminChatListWhere(q.filter, r[i].facet)}
    IN  IF side = "prev"
        THEN First({i \in rows : chatPrevWhere(c, r, i)}, LAMBDA a, b : adminChatPrevOrderBy(r, a, b))
        ELSE First({i \in rows : chatNextWhere(c, r, i)}, LAMBDA a, b : adminChatListOrderBy(r, a, b))

findPostNeighbors(side, q, c, r) ==
    LET rows == {i \in Ids : buildPostListBaseWhere(q.filter, r[i].facet)}
    IN  IF side = "prev"
        THEN First({i \in rows : postPrevWhere(c, r, i)}, LAMBDA a, b : postPrevOrderBy(r, a, b))
        ELSE First({i \in rows : postNextWhere(c, r, i)}, LAMBDA a, b : postOrderBy(r, a, b))

Neighbour(side, list, q, c, r) ==
    CASE list \in DateLists     -> findNeighborIds(side, list, q, c, r)
      [] list = "adminReviews"  -> findAdminReviewNeighborIds(side, q, c, r)
      [] list = "members"       -> findAdminMemberNeighborIds(side, q, c, r)
      [] list = "reports"       -> findAdminReportNeighborIds(side, q, c, r)
      [] list = "rooms"         -> findAdminChatNeighborIds(side, q, c, r)
      [] list \in PostLists     -> findPostNeighbors(side, q, c, r)
=============================================================================
