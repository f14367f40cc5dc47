----------------------------- MODULE ListWalks -----------------------------
(***************************************************************************)
(* Someone reads a list of CursorLists.tla or PagedLists.tla while others  *)
(* change its rows: page after page to the end, or one row's page with its *)
(* neighbours.  A page is one request; between two pages anything may      *)
(* happen.  The neighbours of a row take four reads that no transaction    *)
(* holds together.                                                         *)
(***************************************************************************)
EXTENDS PagedLists

CONSTANTS
    Kinds,          \* the lists looked at
    MaxChanges      \* bound: changes made by others

ASSUME WalksAssumption == Kinds \subseteq CursorKinds \cup PagedKinds /\ MaxChanges \in Nat

VARIABLES
    list, q,        \* the list and what it is asked for
    table,          \* its table
    changes,
    stage, cursor, page,
    seen,           \* the rows of the pages read, in order
    read,           \* the row of a detail page, as it was read
    prev, next,     \* its neighbours, Unknown until they are looked for
    touched         \* history: rows inserted or changed since the reader began

walkVars == <<list, q, table, changes, stage, cursor, page, seen, read, prev, next, touched>>
reader == <<stage, cursor, page, seen, read, prev, next>>

Unknown == -1

Facets(l) == IF l \in CursorKinds THEN CursorFacets(l) ELSE PagedFacets(l)
Filters(l) == IF l \in CursorKinds THEN CursorFilters(l) ELSE PagedFilters(l)
Moves(l) == IF l \in CursorKinds THEN CursorMoves(l) ELSE PagedMoves(l)
Rekeyed(l) == CursorRekeyed(l) \/ PagedRekeyed(l)
Where(l, query, facet) ==
    IF l \in CursorKinds THEN CursorWhere(l, query.filter, facet) ELSE PagedWhere(l, query.filter, facet)
Before(l, query, r, a, b) ==
    IF l \in CursorKinds THEN CursorOrder(l, r, a, b) ELSE PagedOrder(l, query.sort, r, a, b)

Queries(l) == [filter : Filters(l), sort : IF l \in CursorKinds THEN {"DESC"} ELSE PagedSorts(l)]

\* Columns that may be null, and the one list that sorts by a third column.
KeysOf(l) == IF l \in DateLists \cup {"career", "rooms"} THEN Keys \cup {Null} ELSE Keys
SecondsOf(l) ==
    CASE l = "rooms"         -> Keys
      [] l = "MOVE_DATE_ASC" -> Keys \cup {Null}
      [] OTHER               -> {Null}

\* Ids come from a sequence, those of members are UUIDs.
Serial(l) == l # "members"

\* created_at of a new row is not before that of any other; a move day, a
\* count or the years of a profile may be anything.
AgeLists == {"LATEST", "comments", "favorites"} \cup CreatedAtLists
                \cup {"moverReviews", "customerReviews", "sentQuotes"}

NoRow == [key |-> Null, second |-> Null, facet |-> Absent]
Rows(l, facets) == [key : KeysOf(l), second : SecondsOf(l), facet : facets]
Present == {i \in Ids : table[i].facet # Absent}

-----------------------------------------------------------------------------
WalkInit ==
    /\ list \in Kinds
    /\ q \in Queries(list)
    /\ table \in [Ids -> Rows(list, {x \in Facets(list) : Where(list, q, x)}) \cup {NoRow}]
    /\ Serial(list) =>
          /\ \A i, j \in Ids : i < j /\ j \in Present => i \in Present
          /\ list \in AgeLists => \A i, j \in Present : i < j => table[i].key <= table[j].key
    /\ changes = 0
    /\ stage = "idle" /\ cursor = NoCursor /\ page = 0 /\ seen = <<>>
    /\ read = NoCursor /\ prev = Unknown /\ next = Unknown
    /\ touched = {}

Touch(i) ==
    /\ changes < MaxChanges
    /\ changes' = changes + 1
    /\ touched' = touched \cup {i}
    /\ UNCHANGED <<list, q, reader>>

Insert(i) ==
    /\ i \notin Present /\ (Serial(list) => \A j \in Ids : j < i => j \in Present)
    /\ \E x \in Rows(list, Facets(list)) :
          /\ list \in AgeLists => \A j \in Present : table[j].key <= x.key
          /\ table' = [table EXCEPT ![i] = x]
    /\ Touch(i)

Move(i) ==
    /\ \E facet \in Facets(list) :
          /\ <<table[i].facet, facet>> \in Moves(list)
          /\ table' = [table EXCEPT ![i].facet = facet]
    /\ Touch(i)

Rekey(i) ==
    /\ i \in Present /\ Rekeyed(list)
    /\ \E k \in KeysOf(list) \ {table[i].key} :
          /\ list = "rooms" => k > table[i].key
          /\ table' = [table EXCEPT ![i].key = k, ![i].second = IF list = "rooms" THEN k ELSE table[i].second]
    /\ Touch(i)

-----------------------------------------------------------------------------
(* Reading page after page.                                                  *)

\* One page and the cursor of its last row.
GetPage(kinds) ==
    /\ stage \in {"idle", "paging"} /\ list \in kinds
    /\ \E got \in FetchPage(list, q.filter, cursor, table) :
          /\ seen' = seen \o got.items
          /\ stage' = IF got.hasNext THEN "paging" ELSE "walked"
          /\ cursor' = IF got.hasNext THEN CursorOf(list, table, Last(got.items)) ELSE NoCursor
    /\ UNCHANGED <<list, q, table, changes, page, read, prev, next, touched>>

getPosts == GetPage(PostLists)
getComments == GetPage({"comments"})
getReceivedEstimateRequests == GetPage(RequestLists)
getMovers == GetPage(MoverLists)
getFavoriteMovers == GetPage({"favorites"})
getChatMessages == GetPage({"messages"})
getAdminChatMessages == GetPage({"adminMessages"})
getCustomerPastQuotes == GetPage({"pastRequests"})

\* findMany of a page; the count is a statement of its own.
FindMany(kind) ==
    /\ stage \in {"idle", "paging"} /\ list = kind
    /\ \E sorted \in PagedResults(list, q, table) : seen' = seen \o PageOf(sorted, page + 1)
    /\ page' = page + 1
    /\ stage' = "counting"
    /\ UNCHANGED <<list, q, table, changes, cursor, read, prev, next, touched>>

getEstimateRequestList == FindMany("requests")
getCompletedList == FindMany("completed")
getAdminReviewList == FindMany("adminReviews")
getAdminMemberList == FindMany("members")
getAdminChatList == FindMany("rooms")
getAdminReportList == FindMany("reports")
getMoverReviews == FindMany("moverReviews")
getCustomerReviews == FindMany("customerReviews")
getCustomerWritableQuotes == FindMany("writableQuotes")
getQuotes == FindMany("sentQuotes")

Count ==
    /\ stage = "counting"
    /\ LET totalCount == Cardinality({i \in Ids : PagedWhere(list, q.filter, table[i].facet)})
       IN  stage' = IF page < totalPages(totalCount) THEN "paging" ELSE "walked"
    /\ UNCHANGED <<list, q, table, changes, cursor, page, seen, read, prev, next, touched>>

-----------------------------------------------------------------------------
(* One row with its neighbours.                                              *)

\* A row that is not there, or not for this page, is answered with NOT_FOUND.
OpenDetail(kinds, i) ==
    /\ stage = "idle" /\ list \in kinds
    /\ IF list \in PostLists THEN table[i].facet \notin {Absent, "deleted"} ELSE DetailWhere(list, table[i].facet)
    /\ read' = [id |-> i, key |-> table[i].key, second |-> table[i].second]
    /\ stage' = "filter"
    /\ UNCHANGED <<list, q, table, changes, cursor, page, seen, prev, next, touched>>

getEstimateRequestDetail(i) == OpenDetail({"requests"}, i)
getCompletedRequestDetail(i) == OpenDetail({"completed"}, i)
getAdminReviewDetail(i) == OpenDetail({"adminReviews"}, i)
getAdminMemberDetail(i) == OpenDetail({"members"}, i)
getAdminChatDetail(i) == OpenDetail({"rooms"}, i)
getAdminReportDetail(i) == OpenDetail({"reports"}, i)
getPostNeighbors(i) == OpenDetail(PostLists, i)

\* Outside the list's filter a row has no neighbours.
InFilter ==
    /\ stage = "filter"
    /\ IF Where(list, q, table[read.id].facet)
       THEN stage' = "neighbours" /\ UNCHANGED <<prev, next>>
       ELSE stage' = "shown" /\ prev' = 0 /\ next' = 0
    /\ UNCHANGED <<list, q, table, changes, cursor, page, seen, read, touched>>

FindPrev ==
    /\ stage = "neighbours" /\ prev = Unknown
    /\ prev' = Neighbour("prev", list, q, read, table)
    /\ stage' = IF next = Unknown THEN stage ELSE "shown"
    /\ UNCHANGED <<list, q, table, changes, cursor, page, seen, read, next, touched>>

FindNext ==
    /\ stage = "neighbours" /\ next = Unknown
    /\ next' = Neighbour("next", list, q, read, table)
    /\ stage' = IF prev = Unknown THEN stage ELSE "shown"
    /\ UNCHANGED <<list, q, table, changes, cursor, page, seen, read, prev, touched>>

\* The reader starts over.
Close ==
    /\ stage \in {"walked", "shown"}
    /\ stage' = "idle" /\ cursor' = NoCursor /\ page' = 0 /\ seen' = <<>>
    /\ read' = NoCursor /\ prev' = Unknown /\ next' = Unknown
    /\ touched' = {}
    /\ UNCHANGED <<list, q, table, changes>>

\* Only the reader's own time is looked at: what changes before it is the start's.
Change(i) == stage # "idle" /\ (Insert(i) \/ Move(i) \/ Rekey(i))

WalkNext ==
    \/ \E i \in Ids : \/ Change(i)
                      \/ getEstimateRequestDetail(i) \/ getCompletedRequestDetail(i)
                      \/ getAdminReviewDetail(i) \/ getAdminMemberDetail(i)
                      \/ getAdminChatDetail(i) \/ getAdminReportDetail(i)
                      \/ getPostNeighbors(i)
    \/ getPosts \/ getComments \/ getReceivedEstimateRequests \/ getMovers
    \/ getFavoriteMovers \/ getChatMessages \/ getAdminChatMessages
    \/ getCustomerPastQuotes
    \/ getEstimateRequestList \/ getCompletedList \/ getAdminReviewList
    \/ getAdminMemberList \/ getAdminChatList \/ getAdminReportList
    \/ getMoverReviews \/ getCustomerReviews \/ getCustomerWritableQuotes \/ getQuotes
    \/ Count \/ InFilter \/ FindPrev \/ FindNext \/ Close

WalkSpec == WalkInit /\ [][WalkNext]_walkVars

-----------------------------------------------------------------------------
Listed == {i \in Ids : Where(list, q, table[i].facet)}
Kept == Listed \ touched
Precedes(a, b) == Before(list, q, table, a, b)

\* Domains of the variables.
WalkTypeOK ==
    /\ list \in Kinds /\ q \in Queries(list)
    /\ table \in [Ids -> Rows(list, Facets(list)) \cup {NoRow}]
    /\ changes \in 0 .. MaxChanges
    /\ stage \in {"idle", "paging", "counting", "walked", "filter", "neighbours", "shown"}
    /\ page \in Nat
    /\ seen \in Seq(Ids)
    /\ {prev, next} \subseteq Ids \cup {0, Unknown}
    /\ touched \subseteq Ids

\* Whatever others do to other rows, who reads a list by its cursors sees every
\* row that was there all along and was not changed, once, and in the order of
\* the list: between a page and the next nothing is skipped or shown twice.
WalkSeesKept ==
    list \in CursorKinds =>
        LET met == {n \in DOMAIN seen : seen[n] \in Kept}
        IN  /\ \A m, n \in met : m < n => Precedes(seen[m], seen[n])
            /\ \A i \in Kept :
                  stage = "walked" \/ (\E n \in met : Precedes(i, seen[n])) => \E n \in met : seen[n] = i

\* While nobody changes anything, the numbered pages one after the other are
\* the list, and the last one counted is the last; only a mover's quotes of
\* one instant, sorted by created_at alone, may be repeated or missed.
PagesAreTheList ==
    (/\ list \in PagedKinds /\ stage = "walked" /\ touched = {}
     /\ list = "sentQuotes" => \A i, j \in Listed : i # j => table[i].key # table[j].key)
    => /\ seen \in SetToSeqs(Listed)
       /\ \A m, n \in DOMAIN seen : m < n => Precedes(seen[m], seen[n])

\* i is the last of the rows before one, or the first of those behind it; 0 is
\* that there are none.
LastOf(i, rows) == IF rows = {} THEN i = 0 ELSE i \in rows /\ \A j \in rows \ {i} : Precedes(j, i)
FirstOf(i, rows) == IF rows = {} THEN i = 0 ELSE i \in rows /\ \A j \in rows \ {i} : Precedes(i, j)

\* If nothing changed meanwhile, the neighbours shown for a row are the rows
\* next to it in the list, none for a row that is not on it; and whatever changes
\* between the reads, in a list whose order nothing changes one row is never
\* shown on both sides: each neighbour stands on its own side.
NeighboursAdjacent ==
    stage = "shown" =>
        /\ touched = {} =>
              IF read.id \in Listed
              THEN /\ LastOf(prev, {i \in Listed : Precedes(i, read.id)})
                   /\ FirstOf(next, {i \in Listed : Precedes(read.id, i)})
              ELSE prev = 0 /\ next = 0
        /\ ~Rekeyed(list) =>
              /\ prev # 0 => Precedes(prev, read.id)
              /\ next # 0 => Precedes(read.id, next)
=============================================================================
