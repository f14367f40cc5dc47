-------------------------- MODULE CommunityProofs --------------------------
(***************************************************************************)
(* Proofs about the lists (ListWalks) and about the board (Community), for *)
(* any rows, users, posts, requests and number of comments.  The two       *)
(* specifications share no variable: the lists come first, then the board. *)
(***************************************************************************)
EXTENDS Community, ListWalks, FiniteSetTheorems, SequenceTheorems, TLAPS

(***************************************************************************)
(* The lists.  A list's order compares what two rows hold (Follows), and   *)
(* every query, of a page, of a count or of a neighbour, asks for that     *)
(* order in words of its own.  A reader finds whatever was there all along *)
(* (WalkInv), because each page is the beginning of what the order puts    *)
(* after the cursor.                                                       *)
(***************************************************************************)
\* A row, or a cursor, as a value of its own.
At(r, i) == [id |-> i, key |-> r[i].key, second |-> r[i].second]
Marks == [id : Nat, key : Nat, second : Nat]

\* The order of a cursor's list, between what is compared rather than who.
Follows(l, x, y) ==
    CASE l \in MessageLists -> y.id < x.id
      [] l \in {"comments", "SUBMITTED_AT_ASC"} ->
            x.key < y.key \/ (x.key = y.key /\ x.id < y.id)
      [] l = "MOVE_DATE_ASC" ->
            \/ x.key < y.key
            \/ /\ x.key = y.key
               /\ \/ x.second = Null /\ y.second # Null
                  \/ y.second # Null /\ x.second > y.second
                  \/ x.second = y.second /\ x.id > y.id
      [] OTHER -> x.key > y.key \/ (x.key = y.key /\ x.id > y.id)

\* The order of a cursor's list is a strict one, total on rows of different ids.
LEMMA FollowsOrders ==
    ASSUME NEW l, NEW x \in Marks, NEW y \in Marks, NEW z \in Marks
    PROVE  /\ ~Follows(l, x, x)
           /\ x.id # y.id => Follows(l, x, y) \/ Follows(l, y, x)
           /\ Follows(l, x, y) /\ Follows(l, y, z) => Follows(l, x, z)
  <1>1. CASE l \in MessageLists
    BY <1>1 DEF Marks, Follows, MessageLists
  <1>2. CASE l \in {"comments", "SUBMITTED_AT_ASC"}
    BY <1>2 DEF Marks, Follows, MessageLists
  <1>3. CASE l = "MOVE_DATE_ASC"
    BY <1>3 DEF Marks, Follows, MessageLists, Null
  <1>4. CASE l \notin MessageLists \cup {"comments", "SUBMITTED_AT_ASC", "MOVE_DATE_ASC"}
    BY <1>4 DEF Marks, Follows
  <1> QED
    BY <1>1, <1>2, <1>3, <1>4

\* A row that is there.
RowAt(l, r, i) == i \in Ids /\ r[i] \in Rows(l, Facets(l))

\* The values of a row that is there are of their types.
LEMMA RowMarks ==
    ASSUME NEW l, NEW r, NEW i, RowAt(l, r, i)
    PROVE  /\ At(r, i) \in Marks /\ i \in Nat
           /\ r[i].key \in KeysOf(l) /\ r[i].second \in SecondsOf(l)
           /\ r[i].key \in Nat /\ r[i].second \in Nat
  <1>1. i \in Nat
    BY ListsAssumption DEF RowAt
  <1>2. r[i].key \in KeysOf(l) /\ r[i].second \in SecondsOf(l)
    BY DEF RowAt, Rows
  <1>3. KeysOf(l) \subseteq Nat /\ SecondsOf(l) \subseteq Nat
    BY ListsAssumption DEF KeysOf, SecondsOf, Keys, Null
  <1> QED
    BY <1>1, <1>2, <1>3 DEF At, Marks

\* A cursor's query orders its rows by those values.
LEMMA CursorOrderFollows ==
    ASSUME NEW l \in CursorKinds, NEW r, NEW a, NEW b, RowAt(l, r, a), RowAt(l, r, b)
    PROVE  CursorOrder(l, r, a, b) <=> Follows(l, At(r, a), At(r, b))
  <1>1. /\ a \in Nat /\ r[a].key \in Nat /\ r[a].second \in Nat
        /\ b \in Nat /\ r[b].key \in Nat /\ r[b].second \in Nat
    BY RowMarks
  <1>2. CASE l \in PostLists
    BY <1>1, <1>2 DEF CursorOrder, postOrderBy, Follows, At, PostLists, MessageLists, RequestLists
  <1>3. CASE l = "comments"
    BY <1>1, <1>3 DEF CursorOrder, commentOrderBy, Follows, At, PostLists, MessageLists, RequestLists
  <1>4. CASE l \in RequestLists
    BY <1>1, <1>4 DEF CursorOrder, findEstimateRequests, Follows, At, PostLists, MessageLists, RequestLists, Null
  <1>5. CASE l = "career"
    BY <1>1, <1>5 DEF CursorOrder, findMovers, Follows, At, PostLists, MessageLists, RequestLists
  <1>6. CASE l = "aggregate"
    BY <1>1, <1>6 DEF CursorOrder, compareRankedDesc, Follows, At, PostLists, MessageLists, RequestLists
  <1>7. CASE l = "favorites"
    BY <1>1, <1>7 DEF CursorOrder, findFavoriteMoversById, Follows, At, PostLists, MessageLists, RequestLists
  <1>8. CASE l \in MessageLists
    BY <1>1, <1>8 DEF CursorOrder, Follows, At, PostLists, MessageLists, RequestLists
  <1>9. CASE l = "pastRequests"
    BY <1>1, <1>9 DEF CursorOrder, pastOrderBy, Follows, At, PostLists, MessageLists, RequestLists
  <1> QED
    BY <1>2, <1>3, <1>4, <1>5, <1>6, <1>7, <1>8, <1>9 DEF CursorKinds, MoverLists

\* What follows a cursor that was made of a row is what follows the row, as
\* it was then.
LEMMA AfterCursorFollows ==
    ASSUME NEW l \in CursorKinds \ {"pastRequests"}, NEW r, NEW i, RowAt(l, r, i),
           NEW c \in Marks, c.key \in KeysOf(l) \/ l \in MessageLists
    PROVE  AfterCursor(l, c, r, i) <=> Follows(l, c, At(r, i))
  <1>1. /\ i \in Nat /\ r[i].key \in Nat /\ r[i].second \in Nat /\ r[i].key \in KeysOf(l)
        /\ c.id \in Nat /\ c.key \in Nat /\ c.second \in Nat
    BY RowMarks DEF Marks
  <1>0. l # "career" => KeysOf(l) = Keys
    BY DEF KeysOf, DateLists, CursorKinds, PostLists, RequestLists, MoverLists, MessageLists
  <1>k. l # "career" => r[i].key # Null
    BY <1>0, <1>1, ListsAssumption DEF Keys, Null
  <1>2. CASE l \in PostLists
    BY <1>1, <1>2, <1>k
       DEF AfterCursor, postCursorCondition, Follows, At, PostLists, MessageLists, RequestLists, Lt
  <1>3. CASE l = "comments"
    BY <1>1, <1>3, <1>k
       DEF AfterCursor, buildTopLevelCursorCondition, Follows, At, PostLists, MessageLists, RequestLists, Gt
  <1>4. CASE l \in RequestLists
    <2>1. CASE l = "SUBMITTED_AT_ASC"
      BY <1>1, <2>1, <1>k
         DEF AfterCursor, receivedCursorCondition, Follows, At, PostLists, MessageLists, RequestLists, Gt
    <2>2. CASE l = "MOVE_DATE_ASC"
      BY <1>1, <2>2, <1>k
         DEF AfterCursor, receivedCursorCondition, Follows, At, PostLists, MessageLists, RequestLists, Gt, Lt, Null
    <2> QED
      BY <1>4, <2>1, <2>2 DEF RequestLists
  <1>5. CASE l = "career"
    BY <1>1, <1>5
       DEF AfterCursor, buildCareerCursorCondition, Follows, At, PostLists, MessageLists, RequestLists, Lt, Null
  <1>6. CASE l = "aggregate"
    BY <1>1, <1>6 DEF AfterCursor, isAfterDescCursor, Follows, At, PostLists, MessageLists, RequestLists
  <1>7. CASE l = "favorites"
    BY <1>1, <1>7, <1>k
       DEF AfterCursor, buildFavoriteListCursorCondition, Follows, At, PostLists, MessageLists, RequestLists, Lt
  <1>8. CASE l \in MessageLists
    BY <1>1, <1>8 DEF AfterCursor, Follows, At, PostLists, MessageLists, RequestLists
  <1> QED
    BY <1>2, <1>3, <1>4, <1>5, <1>6, <1>7, <1>8 DEF CursorKinds, MoverLists

-----------------------------------------------------------------------------
(* Finite orders: R is a strict order of the elements of S.                  *)
Orders(R, S) ==
    /\ \A x \in S : <<x, x>> \notin R
    /\ \A x, y \in S : x # y => <<x, y>> \in R \/ <<y, x>> \in R
    /\ \A x, y, z \in S : <<x, y>> \in R /\ <<y, z>> \in R => <<x, z>> \in R

\* Some element is the first.
LEMMA FirstExists ==
    ASSUME NEW S, IsFiniteSet(S), S # {}, NEW R, Orders(R, S)
    PROVE  \E x \in S : \A y \in S \ {x} : <<x, y>> \in R
  <1> DEFINE Below(x) == {y \in S : <<y, x>> \in R}
             T == {Below(x) : x \in S}
  <1>1. IsWellFoundedOn(StrictSubsetOrdering(S), SUBSET S)
    BY FS_StrictSubsetOrderingWellFounded, FS_FiniteSubsetsOfFinite
  <1>2. T \subseteq SUBSET S /\ T # {}
    OBVIOUS
  <1>3. PICK least \in T : \A B \in T : <<B, least>> \notin StrictSubsetOrdering(S)
    BY <1>1, <1>2, WFMin
  <1>4. PICK x \in S : least = Below(x)
    OBVIOUS
  <1>5. ASSUME NEW y \in S \ {x}, <<x, y>> \notin R PROVE FALSE
    <2>1. <<y, x>> \in R
      BY <1>5 DEF Orders
    <2>2. Below(y) \subseteq Below(x) /\ y \in Below(x) /\ y \notin Below(y)
      BY <2>1 DEF Orders
    <2>3. <<Below(y), Below(x)>> \in StrictSubsetOrdering(S)
      BY <2>2 DEF StrictSubsetOrdering
    <2> QED
      BY <2>3, <1>3, <1>4
  <1> QED
    BY <1>5

\* A finite ordered set that is not empty has a last element,
LEMMA LastExists ==
    ASSUME NEW S, IsFiniteSet(S), S # {}, NEW R, Orders(R, S)
    PROVE  \E x \in S : \A y \in S \ {x} : <<y, x>> \in R
  <1>1. \E Q : \A a, b \in S : <<a, b>> \in Q <=> <<b, a>> \in R
    <2>1. \A a, b \in S : <<a, b>> \in {p \in S \X S : <<p[2], p[1]>> \in R} <=> <<b, a>> \in R
      OBVIOUS
    <2> QED
      BY <2>1
  <1>2. PICK Q : \A a, b \in S : <<a, b>> \in Q <=> <<b, a>> \in R
    BY <1>1
  <1>3. Orders(Q, S)
    BY <1>2 DEF Orders
  <1>4. PICK k \in S : \A y \in S \ {k} : <<k, y>> \in Q
    BY <1>3, FirstExists, Zenon
  <1> QED
    BY <1>2, <1>4

\* and a set of numbers below a bound a least one.
LEMMA FirstNumber ==
    ASSUME NEW n \in Nat, NEW D, D \subseteq 1 .. n, D # {}
    PROVE  \E k \in D : \A m \in D : k <= m
  <1>1. IsFiniteSet(1 .. n)
    BY FS_Interval
  <1>2. IsFiniteSet(D)
    BY <1>1, FS_Subset
  <1>3. \E R : \A a, b \in D : <<a, b>> \in R <=> a < b
    <2>1. \A a, b \in D : <<a, b>> \in {p \in D \X D : p[1] < p[2]} <=> a < b
      OBVIOUS
    <2> QED
      BY <2>1
  <1>4. PICK R : \A a, b \in D : <<a, b>> \in R <=> a < b
    BY <1>3
  <1>5. Orders(R, D)
    BY <1>4 DEF Orders
  <1>6. PICK k \in D : \A y \in D \ {k} : <<k, y>> \in R
    BY <1>2, <1>5, FirstExists, Zenon
  <1>7. ASSUME NEW m \in D PROVE k <= m
    <2>1. k \in Int /\ m \in Int
      OBVIOUS
    <2>2. m # k => k < m
      BY <1>4, <1>6
    <2> QED
      BY <2>1, <2>2
  <1> QED
    BY <1>7

\* What it is to be one of the sequences of a set's elements.
LEMMA SeqsOfSet ==
    ASSUME NEW S, IsFiniteSet(S), NEW s \in SetToSeqs(S)
    PROVE  /\ s \in Seq(S) /\ Len(s) \in Nat /\ DOMAIN s = 1 .. Len(s)
           /\ Len(s) = Cardinality(S)
           /\ \A n \in 1 .. Len(s) : s[n] \in S
           /\ \A m, n \in 1 .. Len(s) : m # n => s[m] # s[n]
           /\ \A x \in S : \E n \in 1 .. Len(s) : s[n] = x
  <1> DEFINE N == Cardinality(S)
  <1>1. N \in Nat
    BY FS_CardinalityType
  <1>2. s \in [1 .. N -> S] /\ \A i, j \in 1 .. N : i # j => s[i] # s[j]
    BY DEF SetToSeqs
  <1>3. s \in Seq(S) /\ Len(s) = N
    BY <1>1, <1>2
  <1>4. s \in Injection(1 .. N, S)
    BY <1>2 DEF Injection, IsInjective
  <1>5. s \in Surjection(1 .. N, S)
    BY <1>1, <1>4, FS_Interval, FS_Injection
  <1> QED
    BY <1>1, <1>2, <1>3, <1>5 DEF Surjection

\* A sequence without repetitions that has every element is one of the set's.
LEMMA SetToSeqsMember ==
    ASSUME NEW S, IsFiniteSet(S), NEW s \in Seq(S),
           \A m, n \in 1 .. Len(s) : m # n => s[m] # s[n],
           \A x \in S : \E n \in 1 .. Len(s) : s[n] = x
    PROVE  s \in SetToSeqs(S)
  <1> DEFINE N == Len(s)
  <1>1. N \in Nat /\ s \in [1 .. N -> S]
    OBVIOUS
  <1>2. s \in Injection(1 .. N, S) /\ s \in Surjection(1 .. N, S)
    BY <1>1 DEF Injection, IsInjective, Surjection
  <1>3. Cardinality(S) = N
    <2>1. IsFiniteSet(1 .. N) /\ Cardinality(1 .. N) = N
      BY <1>1, FS_Interval
    <2> QED
      BY <1>2, <2>1, FS_Injection
  <1> QED
    BY <1>1, <1>3 DEF SetToSeqs

\* A set is put in order in one way.
LEMMA OneOrder ==
    ASSUME NEW S, IsFiniteSet(S), NEW R, Orders(R, S),
           NEW s \in SetToSeqs(S), \A m, n \in DOMAIN s : m < n => <<s[m], s[n]>> \in R,
           NEW t \in SetToSeqs(S), \A m, n \in DOMAIN t : m < n => <<t[m], t[n]>> \in R
    PROVE  s = t
  <1> DEFINE D == {k \in 1 .. Len(s) : s[k] # t[k]}
  <1>0. /\ s \in Seq(S) /\ Len(s) \in Nat /\ DOMAIN s = 1 .. Len(s)
        /\ t \in Seq(S) /\ Len(t) = Len(s) /\ DOMAIN t = 1 .. Len(s)
        /\ \A n \in 1 .. Len(s) : s[n] \in S /\ t[n] \in S
        /\ \A m, n \in 1 .. Len(s) : m # n => s[m] # s[n] /\ t[m] # t[n]
        /\ \A x \in S : (\E n \in 1 .. Len(s) : s[n] = x) /\ (\E n \in 1 .. Len(s) : t[n] = x)
    <2>1. /\ s \in Seq(S) /\ Len(s) \in Nat /\ DOMAIN s = 1 .. Len(s) /\ Len(s) = Cardinality(S)
          /\ \A n \in 1 .. Len(s) : s[n] \in S
          /\ \A m, n \in 1 .. Len(s) : m # n => s[m] # s[n]
          /\ \A x \in S : \E n \in 1 .. Len(s) : s[n] = x
      BY SeqsOfSet
    <2>2. /\ t \in Seq(S) /\ Len(t) \in Nat /\ DOMAIN t = 1 .. Len(t) /\ Len(t) = Cardinality(S)
          /\ \A n \in 1 .. Len(t) : t[n] \in S
          /\ \A m, n \in 1 .. Len(t) : m # n => t[m] # t[n]
          /\ \A x \in S : \E n \in 1 .. Len(t) : t[n] = x
      BY SeqsOfSet
    <2> QED
      BY <2>1, <2>2
  <1>1. ASSUME D # {} PROVE FALSE
    <2>1. PICK k \in D : \A m \in D : k <= m
      BY <1>0, <1>1, FirstNumber
    <2>2. PICK j \in 1 .. Len(s) : t[j] = s[k]
      BY <1>0
    <2>3. PICK i \in 1 .. Len(s) : s[i] = t[k]
      BY <1>0
    <2>4. i # k /\ j # k
      BY <1>0, <2>1, <2>2, <2>3
    <2>k. i \notin D => s[i] = t[i]
      OBVIOUS
    <2>l. j \notin D => s[j] = t[j]
      OBVIOUS
    <2>6. i \in D
      BY <1>0, <2>3, <2>4, <2>k
    <2>7. j \in D
      BY <1>0, <2>2, <2>4, <2>l
    <2>8. k < i /\ k < j
      BY <2>1, <2>4, <2>6, <2>7
    <2>5. <<t[k], s[k]>> \in R /\ <<s[k], t[k]>> \in R
      BY <1>0, <2>2, <2>3, <2>8
    <2> QED
      BY <1>0, <2>5 DEF Orders
  <1> QED
    BY <1>0, <1>1, SeqEqual

-----------------------------------------------------------------------------
(* One page of a list with cursors.                                          *)
Table(l, r) == r \in [Ids -> Rows(l, Facets(l)) \cup {NoRow}]
OnList(l, f, r) == {i \in Ids : CursorWhere(l, f, r[i].facet)}

\* What stands where the last page ended: the cursor's own values, or for
\* Prisma's cursor the row it names.
Mark(l, r, c) == IF l = "pastRequests" THEN At(r, c.id) ELSE c

\* A cursor one of the pages of the list ended with.
Fits(l, f, r, c) ==
    /\ c \in Marks /\ c # NoCursor
    /\ IF l = "pastRequests"
       THEN c.id \in OnList(l, f, r)
       ELSE c.key \in KeysOf(l) \/ l \in MessageLists

Rest(l, f, r, c) ==
    {i \in OnList(l, f, r) : c = NoCursor \/ Follows(l, Mark(l, r, c), At(r, i))}

\* Only rows that are there are listed.
LEMMA ListedIsRow ==
    ASSUME NEW l \in CursorKinds, NEW f \in CursorFilters(l), NEW r, Table(l, r),
           NEW i \in OnList(l, f, r)
    PROVE  RowAt(l, r, i)
  <1>1. i \in Ids /\ CursorWhere(l, f, r[i].facet)
    BY DEF OnList
  <1>2. ~CursorWhere(l, f, Absent)
    <2>1. CASE l \in PostLists
      BY <2>1 DEF CursorWhere, buildPostListBaseWhere, CursorFilters, Absent, PostLists, RequestLists,
                  MoverLists
    <2>2. CASE l \in RequestLists
      BY <2>2 DEF CursorWhere, buildEstimateRequestListWhere, CursorFilters, Absent, PostLists, RequestLists,
                  MoverLists
    <2>3. CASE l \in MoverLists \cup {"favorites", "comments", "messages", "adminMessages"}
      BY <2>3 DEF CursorWhere, buildMoverListWhere, buildFavoriteListWhere, findTopLevelComments,
                  findMessagesByRoomCursor, findAdminChatMessagesByCursor,
                  Absent, PostLists, RequestLists, MoverLists
    <2>4. CASE l = "pastRequests"
      BY <2>4 DEF CursorWhere, findCustomerPastEstimateRequests, Absent, PostLists, RequestLists, MoverLists
    <2> QED
      BY <2>1, <2>2, <2>3, <2>4 DEF CursorKinds, MessageLists
  <1>3. r[i] # NoRow
    BY <1>1, <1>2 DEF NoRow
  <1> QED
    BY <1>1, <1>3 DEF Table, RowAt

\* A page is the beginning of what follows the cursor, in the list's order,
\* and says whether that was all.
LEMMA PageOfRest ==
    ASSUME NEW l \in CursorKinds, NEW f \in CursorFilters(l), NEW r, Table(l, r),
           NEW c, c = NoCursor \/ Fits(l, f, r, c),
           NEW got \in FetchPage(l, f, c, r)
    PROVE  \E t \in SetToSeqs(Rest(l, f, r, c)) :
              /\ \A m, n \in DOMAIN t : m < n => Follows(l, At(r, t[m]), At(r, t[n]))
              /\ got.items = SubSeq(t, 1, IF Len(t) > Limit THEN Limit ELSE Len(t))
              /\ got.hasNext = (Len(t) > Limit)
  <1> DEFINE found == {i \in Ids : CursorWhere(l, f, r[i].facet) /\ (c = NoCursor \/ AfterCursor(l, c, r, i))}
             rest == Rest(l, f, r, c)
  <1>0. Limit \in Nat
    BY ListsAssumption
  <1>1. PICK s \in CursorSorted(l, r, found) :
           LET last == skipped(l, c) + Limit
           IN  got = [items   |-> SubSeq(s, 1 + skipped(l, c), IF Len(s) > last THEN last ELSE Len(s)),
                      hasNext |-> Len(s) > last]
    BY DEF FetchPage
  <1>2. found \subseteq OnList(l, f, r) /\ rest \subseteq OnList(l, f, r) /\ OnList(l, f, r) \subseteq Ids
    BY DEF OnList, Rest
  <1>3. IsFiniteSet(found) /\ IsFiniteSet(rest)
    BY <1>2, ListsAssumption, FS_Subset
  <1>4. \A i \in OnList(l, f, r) : RowAt(l, r, i)
    BY ListedIsRow
  <1>5. s \in SetToSeqs(found) /\ \A m, n \in DOMAIN s : m < n => CursorOrder(l, r, s[m], s[n])
    BY <1>1 DEF CursorSorted
  <1> HIDE DEF found
  <1>6. /\ s \in Seq(found) /\ Len(s) \in Nat /\ DOMAIN s = 1 .. Len(s)
        /\ \A n \in 1 .. Len(s) : s[n] \in found
        /\ \A m, n \in 1 .. Len(s) : m # n => s[m] # s[n]
        /\ \A x \in found : \E n \in 1 .. Len(s) : s[n] = x
    BY <1>3, <1>5, SeqsOfSet
  <1>7. \A m, n \in DOMAIN s : m < n => Follows(l, At(r, s[m]), At(r, s[n]))
    BY <1>2, <1>4, <1>5, <1>6, CursorOrderFollows
  <1>8. CASE l # "pastRequests" \/ c = NoCursor
    <2>1. skipped(l, c) = 0
      BY <1>8 DEF skipped
    <2>2. found = rest
      <3>1. ASSUME c # NoCursor, NEW i \in OnList(l, f, r)
            PROVE  AfterCursor(l, c, r, i) <=> Follows(l, Mark(l, r, c), At(r, i))
        BY <1>4, <1>8, <3>1, AfterCursorFollows DEF Fits, Mark
      <3> QED
        BY <3>1 DEF found, Rest, OnList
    <2> QED
      BY <1>0, <1>1, <1>5, <1>7, <2>1, <2>2
  <1>9. CASE l = "pastRequests" /\ c # NoCursor
    <2>1. skipped(l, c) = 1 /\ c.id \in OnList(l, f, r) /\ Mark(l, r, c) = At(r, c.id)
      BY <1>9 DEF skipped, Fits, Mark
    <2>2. \A i \in OnList(l, f, r) : AfterCursor(l, c, r, i) <=> i = c.id \/ Follows(l, At(r, c.id), At(r, i))
      <3>1. ASSUME NEW i \in OnList(l, f, r)
            PROVE  pastOrderBy(r, c.id, i) <=> Follows(l, At(r, c.id), At(r, i))
        <4>1. CursorOrder(l, r, c.id, i) <=> Follows(l, At(r, c.id), At(r, i))
          BY <1>4, <2>1, CursorOrderFollows
        <4>2. CursorOrder(l, r, c.id, i) <=> pastOrderBy(r, c.id, i)
          BY <1>9 DEF CursorOrder, PostLists, RequestLists, MessageLists
        <4> QED
          BY <4>1, <4>2
      <3> QED
        BY <1>9, <3>1 DEF AfterCursor, fromCursor, PostLists, RequestLists, MessageLists
    <2>3. \A i \in OnList(l, f, r) : At(r, i) \in Marks /\ At(r, i).id = i
      BY <1>4, RowMarks DEF At
    <2>4. c.id \notin rest /\ found = rest \cup {c.id}
      <3>1. ~Follows(l, At(r, c.id), At(r, c.id))
        BY <2>1, <2>3, FollowsOrders
      <3> QED
        BY <1>9, <2>1, <2>2, <3>1 DEF found, Rest, OnList
    <2>5. Len(s) >= 1 /\ s[1] = c.id
      <3>1. PICK n \in 1 .. Len(s) : s[n] = c.id
        BY <1>6, <2>4
      <3>2. ASSUME n # 1 PROVE FALSE
        <4>1. 1 \in 1 .. Len(s) /\ 1 < n
          BY <1>6, <3>2
        <4>2. Follows(l, At(r, s[1]), At(r, c.id)) /\ s[1] \in rest
          BY <1>6, <1>7, <2>4, <3>1, <3>2, <4>1
        <4>3. Follows(l, At(r, c.id), At(r, s[1])) /\ s[1] \in OnList(l, f, r)
          BY <1>9, <2>1, <4>2 DEF Rest
        <4>4. At(r, c.id) \in Marks /\ At(r, s[1]) \in Marks
          BY <2>1, <2>3, <4>3
        <4>5. Follows(l, At(r, c.id), At(r, c.id)) /\ ~Follows(l, At(r, c.id), At(r, c.id))
          BY <4>2, <4>3, <4>4, FollowsOrders, Zenon
        <4> QED
          BY <4>5
      <3> QED
        BY <1>6, <3>1, <3>2
    <2> DEFINE t == SubSeq(s, 2, Len(s))
    <2>6. \A n \in 2 .. Len(s) : s[n] \in rest
      <3>1. \A n \in 2 .. Len(s) : n \in 1 .. Len(s) /\ n # 1
        BY <1>6
      <3>2. 1 \in 1 .. Len(s)
        BY <1>6, <2>5
      <3> QED
        BY <1>6, <2>4, <2>5, <3>1, <3>2
    <2>7. t \in Seq(rest) /\ Len(t) = Len(s) - 1 /\ \A n \in 1 .. Len(t) : t[n] = s[n + 1]
      <3>1. /\ t \in Seq(rest) /\ Len(t) = (IF 2 <= Len(s) THEN Len(s) - 2 + 1 ELSE 0)
            /\ \A i \in 1 .. Len(s) - 2 + 1 : t[i] = s[2 + i - 1]
        BY <1>6, <2>6, SubSeqProperties
      <3> QED
        BY <1>6, <2>5, <3>1
    <2> HIDE DEF t
    <2>8. t \in SetToSeqs(rest)
      <3>1. ASSUME NEW m \in 1 .. Len(t), NEW n \in 1 .. Len(t), m # n PROVE t[m] # t[n]
        <4>1. m + 1 \in 1 .. Len(s) /\ n + 1 \in 1 .. Len(s) /\ m + 1 # n + 1
          BY <1>6, <2>7, <3>1
        <4>2. t[m] = s[m + 1] /\ t[n] = s[n + 1]
          BY <2>7
        <4> QED
          BY <1>6, <4>1, <4>2
      <3>2. ASSUME NEW x \in rest PROVE \E n \in 1 .. Len(t) : t[n] = x
        <4>1. PICK n \in 1 .. Len(s) : s[n] = x
          BY <1>6, <2>4
        <4>2. n # 1
          BY <2>4, <2>5, <4>1
        <4>3. n - 1 \in 1 .. Len(t) /\ t[n - 1] = x
          BY <1>6, <2>7, <4>1, <4>2
        <4> QED
          BY <4>3
      <3> QED
        BY <1>3, <2>7, <3>1, <3>2, SetToSeqsMember
    <2>9. ASSUME NEW m \in DOMAIN t, NEW n \in DOMAIN t, m < n
          PROVE  Follows(l, At(r, t[m]), At(r, t[n]))
      <3>1. DOMAIN t = 1 .. Len(t) /\ Len(t) \in Nat
        BY <2>7
      <3>2. m + 1 \in DOMAIN s /\ n + 1 \in DOMAIN s /\ m + 1 < n + 1
        BY <1>6, <2>7, <2>9, <3>1
      <3>3. t[m] = s[m + 1] /\ t[n] = s[n + 1]
        BY <2>7, <3>1
      <3> QED
        BY <1>7, <3>2, <3>3
    <2>10. got.items = SubSeq(t, 1, IF Len(t) > Limit THEN Limit ELSE Len(t)) /\ got.hasNext = (Len(t) > Limit)
      <3> DEFINE e == IF Len(t) > Limit THEN Limit ELSE Len(t)
      <3>1. e \in Nat /\ e <= Len(t) /\ e + 1 <= Len(s) /\ (Len(s) > 1 + Limit <=> Len(t) > Limit)
        BY <1>0, <1>6, <2>7
      <3>2. got.items = SubSeq(s, 2, e + 1) /\ got.hasNext = (Len(t) > Limit)
        BY <1>0, <1>1, <1>6, <2>1, <2>7
      <3> HIDE DEF e
      <3>3. \A n \in 1 .. e : t[n] = s[n + 1]
        BY <2>7, <3>1
      <3>4. /\ SubSeq(t, 1, e) \in Seq(rest) /\ Len(SubSeq(t, 1, e)) = e
            /\ \A i \in 1 .. e : SubSeq(t, 1, e)[i] = t[i]
        <4>1. \A i \in 1 .. e : t[i] \in rest
          BY <2>7, <3>1
        <4>2. /\ SubSeq(t, 1, e) \in Seq(rest) /\ Len(SubSeq(t, 1, e)) = (IF 1 <= e THEN e - 1 + 1 ELSE 0)
              /\ \A i \in 1 .. e - 1 + 1 : SubSeq(t, 1, e)[i] = t[1 + i - 1]
          BY <3>1, <4>1, SubSeqProperties
        <4> QED
          BY <3>1, <4>2
      <3>5. /\ SubSeq(s, 2, e + 1) \in Seq(rest) /\ Len(SubSeq(s, 2, e + 1)) = e
            /\ \A i \in 1 .. e : SubSeq(s, 2, e + 1)[i] = s[i + 1]
        <4>1. \A i \in 2 .. e + 1 : s[i] \in rest
          BY <2>6, <3>1
        <4>2. /\ SubSeq(s, 2, e + 1) \in Seq(rest)
              /\ Len(SubSeq(s, 2, e + 1)) = (IF 2 <= e + 1 THEN e + 1 - 2 + 1 ELSE 0)
              /\ \A i \in 1 .. e + 1 - 2 + 1 : SubSeq(s, 2, e + 1)[i] = s[2 + i - 1]
          BY <3>1, <4>1, SubSeqProperties
        <4> QED
          BY <3>1, <4>2
      <3>6. SubSeq(s, 2, e + 1) = SubSeq(t, 1, e)
        BY <3>3, <3>4, <3>5, SeqEqual
      <3> QED
        BY <3>2, <3>6 DEF e
    <2> QED
      BY <2>8, <2>9, <2>10
  <1> QED
    BY <1>8, <1>9

-----------------------------------------------------------------------------
(* The order of every list is one.                                           *)
LEMMA PagedOrders ==
    ASSUME NEW l \in PagedKinds, NEW sort \in PagedSorts(l), NEW r,
           NEW a, NEW b, NEW c, RowAt(l, r, a), RowAt(l, r, b), RowAt(l, r, c)
    PROVE  /\ ~PagedOrder(l, sort, r, a, a)
           /\ a # b => PagedOrder(l, sort, r, a, b) \/ PagedOrder(l, sort, r, b, a)
           /\ PagedOrder(l, sort, r, a, b) /\ PagedOrder(l, sort, r, b, c) => PagedOrder(l, sort, r, a, c)
  <1>1. /\ a \in Nat /\ r[a].key \in Nat /\ r[a].second \in Nat
        /\ b \in Nat /\ r[b].key \in Nat /\ r[b].second \in Nat
        /\ c \in Nat /\ r[c].key \in Nat /\ r[c].second \in Nat
    BY RowMarks
  <1>2. CASE l \in DateLists
    <2>1. sort \in {"ASC", "DESC"}
      BY <1>2 DEF PagedSorts
    <2>2. \A i, j : PagedOrder(l, sort, r, i, j) <=> createDateSortOrderBy(sort, r, i, j)
      BY <1>2 DEF PagedOrder, DateLists, OwnLists
    <2> HIDE <1>2
    <2> QED
      BY <1>1, <2>1, <2>2 DEF createDateSortOrderBy, Null
  <1>3. CASE l \in CreatedAtLists
    <2>1. sort \in {"ASC", "DESC"}
      BY <1>3 DEF PagedSorts
    <2>2. \A i, j : PagedOrder(l, sort, r, i, j) <=> createdAtOrderBy(sort, r, i, j)
      BY <1>3 DEF PagedOrder, DateLists, OwnLists, CreatedAtLists, findAdminReviewsWithCount,
                  findAdminMembersWithCount, findAdminReportsWithCount
    <2> QED
      BY <1>1, <2>1, <2>2 DEF createdAtOrderBy
  <1>4. CASE l = "rooms"
    <2>1. \A i, j : PagedOrder(l, sort, r, i, j) <=> adminChatListOrderBy(r, i, j)
      BY <1>4 DEF PagedOrder, DateLists, OwnLists
    <2>2. ~adminChatListOrderBy(r, a, a)
      BY <1>1 DEF adminChatListOrderBy
    <2>3. a # b => adminChatListOrderBy(r, a, b) \/ adminChatListOrderBy(r, b, a)
      BY <1>1 DEF adminChatListOrderBy
    <2>4. adminChatListOrderBy(r, a, b) /\ adminChatListOrderBy(r, b, c) => adminChatListOrderBy(r, a, c)
      BY <1>1 DEF adminChatListOrderBy
    <2> QED
      BY <2>1, <2>2, <2>3, <2>4
  <1>5. CASE l \in OwnLists
    <2>1. \A i, j : PagedOrder(l, sort, r, i, j) <=> ownOrderBy(r, i, j)
      BY <1>5 DEF PagedOrder, DateLists, OwnLists
    <2> QED
      BY <1>1, <2>1 DEF ownOrderBy
  <1> QED
    BY <1>2, <1>3, <1>4, <1>5 DEF PagedKinds, ConsoleLists

\* No list is read both by a cursor and by numbered pages.
LEMMA KindsApart == CursorKinds \cap PagedKinds = {}
  BY DEF CursorKinds, PagedKinds, PostLists, RequestLists, MoverLists, MessageLists, ConsoleLists, DateLists,
         CreatedAtLists, OwnLists

\* The order of every list is strict and total.
LEMMA BeforeOrders ==
    ASSUME NEW l \in CursorKinds \cup PagedKinds, NEW query \in Queries(l), NEW r,
           NEW a, NEW b, NEW c, RowAt(l, r, a), RowAt(l, r, b), RowAt(l, r, c)
    PROVE  /\ ~Before(l, query, r, a, a)
           /\ a # b => Before(l, query, r, a, b) \/ Before(l, query, r, b, a)
           /\ Before(l, query, r, a, b) /\ Before(l, query, r, b, c) => Before(l, query, r, a, c)
  <1>1. CASE l \in CursorKinds
    <2>1. /\ At(r, a) \in Marks /\ At(r, b) \in Marks /\ At(r, c) \in Marks
          /\ At(r, a).id = a /\ At(r, b).id = b
      BY RowMarks DEF At
    <2>2. \A i, j \in {a, b, c} : Before(l, query, r, i, j) <=> Follows(l, At(r, i), At(r, j))
      BY <1>1, CursorOrderFollows DEF Before
    <2>3. /\ ~Follows(l, At(r, a), At(r, a))
          /\ a # b => Follows(l, At(r, a), At(r, b)) \/ Follows(l, At(r, b), At(r, a))
          /\ Follows(l, At(r, a), At(r, b)) /\ Follows(l, At(r, b), At(r, c)) => Follows(l, At(r, a), At(r, c))
      BY <2>1, FollowsOrders
    <2> QED
      BY <2>2, <2>3
  <1>2. CASE l \in PagedKinds
    <2>1. l \notin CursorKinds
      BY <1>2, KindsApart
    <2>2. query.sort \in PagedSorts(l)
      BY <2>1 DEF Queries
    <2> QED
      BY <1>2, <2>1, <2>2, PagedOrders DEF Before
  <1> QED
    BY <1>1, <1>2

\* As a relation, over rows that are there.
LEMMA BeforeRelation ==
    ASSUME NEW l \in CursorKinds \cup PagedKinds, NEW query \in Queries(l), NEW r,
           NEW S, \A i \in S : RowAt(l, r, i)
    PROVE  \E R : Orders(R, S) /\ \A a, b \in S : <<a, b>> \in R <=> Before(l, query, r, a, b)
  <1>1. PICK R : R = {p \in S \X S : Before(l, query, r, p[1], p[2])}
    OBVIOUS
  <1>2. \A a, b \in S : <<a, b>> \in R <=> Before(l, query, r, a, b)
    BY <1>1
  <1>3. Orders(R, S)
    BY <1>2, BeforeOrders DEF Orders
  <1> QED
    BY <1>2, <1>3

-----------------------------------------------------------------------------
(* The neighbours of a row.                                                  *)
DetailLists == ConsoleLists \cup PostLists
Shown(l, query, r) == {i \in Ids : Where(l, query, r[i].facet)}

\* What a filter shows is a row that is there.
LEMMA ShownIsRow ==
    ASSUME NEW l \in CursorKinds \cup PagedKinds, NEW query \in Queries(l), NEW r, Table(l, r),
           NEW i \in Shown(l, query, r)
    PROVE  RowAt(l, r, i)
  <1>1. CASE l \in CursorKinds
    <2>1. query.filter \in CursorFilters(l)
      BY <1>1 DEF Queries, Filters
    <2>2. i \in OnList(l, query.filter, r)
      BY <1>1 DEF Shown, Where, OnList
    <2> QED
      BY <1>1, <2>1, <2>2, ListedIsRow
  <1>2. CASE l \notin CursorKinds
    <2>1. i \in Ids /\ r[i].facet # Absent
      BY <1>2 DEF Shown, Where, PagedWhere
    <2>2. r[i] # NoRow
      BY <2>1 DEF NoRow
    <2> QED
      BY <2>1, <2>2 DEF Table, RowAt
  <1> QED
    BY <1>1, <1>2

\* Rows have a first one and a last one.
LEMMA EndsExist ==
    ASSUME NEW l \in CursorKinds \cup PagedKinds, NEW query \in Queries(l), NEW r,
           NEW S, S \subseteq Ids, S # {}, \A i \in S : RowAt(l, r, i)
    PROVE  /\ \E i \in S : \A j \in S \ {i} : Before(l, query, r, i, j)
           /\ \E i \in S : \A j \in S \ {i} : Before(l, query, r, j, i)
  <1>0. IsFiniteSet(S)
    BY ListsAssumption, FS_Subset
  <1>1. PICK R : Orders(R, S) /\ \A a, b \in S : <<a, b>> \in R <=> Before(l, query, r, a, b)
    BY BeforeRelation
  <1>2. PICK i \in S : \A y \in S \ {i} : <<i, y>> \in R
    BY <1>0, <1>1, FirstExists, Zenon
  <1>3. PICK k \in S : \A y \in S \ {k} : <<y, k>> \in R
    BY <1>0, <1>1, LastExists, Zenon
  <1> QED
    BY <1>1, <1>2, <1>3

\* The queries for the neighbours of a row find the two next to it.
Beside(l, query, r, x) ==
    LET before == {i \in Shown(l, query, r) : Before(l, query, r, i, x)}
        after == {i \in Shown(l, query, r) : Before(l, query, r, x, i)}
        p == Neighbour("prev", l, query, At(r, x), r)
        n == Neighbour("next", l, query, At(r, x), r)
    IN  /\ IF before = {} THEN p = 0 ELSE p \in before /\ \A j \in before \ {p} : Before(l, query, r, j, p)
        /\ IF after = {} THEN n = 0 ELSE n \in after /\ \A j \in after \ {n} : Before(l, query, r, n, j)

\* Each side chooses among the rows on that side, by the list's order one way
\* or the other.
Chooses(l, query, r, x) ==
    LET before == {i \in Shown(l, query, r) : Before(l, query, r, i, x)}
        after == {i \in Shown(l, query, r) : Before(l, query, r, x, i)}
    IN  /\ Neighbour("prev", l, query, At(r, x), r) =
              IF before = {} THEN 0
              ELSE CHOOSE i \in before : \A j \in before \ {i} : Before(l, query, r, j, i)
        /\ Neighbour("next", l, query, At(r, x), r) =
              IF after = {} THEN 0
              ELSE CHOOSE i \in after : \A j \in after \ {i} : Before(l, query, r, i, j)

\* The row a neighbour query chooses is the one next to the row read.
LEMMA ChosenIsBeside ==
    ASSUME NEW l \in CursorKinds \cup PagedKinds, NEW query \in Queries(l), NEW r, Table(l, r),
           NEW x, Chooses(l, query, r, x)
    PROVE  Beside(l, query, r, x)
  <1> DEFINE before == {i \in Shown(l, query, r) : Before(l, query, r, i, x)}
             after == {i \in Shown(l, query, r) : Before(l, query, r, x, i)}
  <1>1. before \subseteq Ids /\ after \subseteq Ids
    BY DEF Shown
  <1>2. (\A i \in before : RowAt(l, r, i)) /\ (\A i \in after : RowAt(l, r, i))
    BY ShownIsRow
  <1>3. before # {} => \E i \in before : \A j \in before \ {i} : Before(l, query, r, j, i)
    <2> HIDE DEF before
    <2> QED
      BY <1>1, <1>2, EndsExist
  <1>4. after # {} => \E i \in after : \A j \in after \ {i} : Before(l, query, r, i, j)
    <2> HIDE DEF after
    <2> QED
      BY <1>1, <1>2, EndsExist
  <1>5. /\ Neighbour("prev", l, query, At(r, x), r) =
              IF before = {} THEN 0
              ELSE CHOOSE i \in before : \A j \in before \ {i} : Before(l, query, r, j, i)
        /\ Neighbour("next", l, query, At(r, x), r) =
              IF after = {} THEN 0
              ELSE CHOOSE i \in after : \A j \in after \ {i} : Before(l, query, r, i, j)
    BY DEF Chooses
  <1> HIDE DEF before, after
  <1>6. IF before = {} THEN Neighbour("prev", l, query, At(r, x), r) = 0
        ELSE /\ Neighbour("prev", l, query, At(r, x), r) \in before
             /\ \A j \in before \ {Neighbour("prev", l, query, At(r, x), r)} :
                   Before(l, query, r, j, Neighbour("prev", l, query, At(r, x), r))
    BY <1>3, <1>5
  <1>7. IF after = {} THEN Neighbour("next", l, query, At(r, x), r) = 0
        ELSE /\ Neighbour("next", l, query, At(r, x), r) \in after
             /\ \A j \in after \ {Neighbour("next", l, query, At(r, x), r)} :
                   Before(l, query, r, Neighbour("next", l, query, At(r, x), r), j)
    BY <1>4, <1>5
  <1> QED
    BY <1>6, <1>7 DEF Beside, before, after

\* Each list's neighbour queries choose so: the lists by date (dateNextWhere),
LEMMA DateNeighbours ==
    ASSUME NEW l \in DateLists, NEW query \in Queries(l), NEW r, Table(l, r), NEW x, RowAt(l, r, x)
    PROVE  Chooses(l, query, r, x)
  <1> DEFINE rows == Shown(l, query, r)
             c == At(r, x)
  <1>0. l \in PagedKinds /\ l \notin CursorKinds
    BY KindsApart DEF PagedKinds, ConsoleLists
  <1>1. /\ query.sort \in {"ASC", "DESC"}
        /\ \A i, j : Before(l, query, r, i, j) <=> createDateSortOrderBy(query.sort, r, i, j)
    BY <1>0 DEF Queries, PagedSorts, Before, PagedOrder, OwnLists, DateLists
  <1>2. rows = {i \in Ids : PagedWhere(l, query.filter, r[i].facet)}
    BY <1>0 DEF Shown, Where
  <1>3. \A i \in rows : i \in Nat /\ r[i].key \in Nat
    BY <1>0, ShownIsRow, RowMarks
  <1>4. x \in Nat /\ r[x].key \in Nat /\ c.id = x /\ c.key = r[x].key
    BY RowMarks DEF At
  <1> HIDE DEF c, rows
  <1>5. {i \in rows : datePrevWhere(query.sort, c, r, i)} = {i \in rows : Before(l, query, r, i, x)}
    BY <1>1, <1>3, <1>4 DEF datePrevWhere, createDateSortOrderBy, Lt, Gt, Null
  <1>6. {i \in rows : dateNextWhere(query.sort, c, r, i)} = {i \in rows : Before(l, query, r, x, i)}
    BY <1>1, <1>3, <1>4 DEF dateNextWhere, createDateSortOrderBy, Lt, Gt, Null
  <1>7. \A i, j \in rows : datePrevOrderBy(query.sort, r, i, j) <=> Before(l, query, r, j, i)
    BY <1>1, <1>3 DEF datePrevOrderBy, createDateSortOrderBy, Null
  <1>8. \A side : Neighbour(side, l, query, c, r) = findNeighborIds(side, l, query, c, r)
    BY DEF Neighbour, DateLists, PostLists
  <1> QED
    BY <1>1, <1>2, <1>5, <1>6, <1>7, <1>8 DEF Chooses, findNeighborIds, First, c, rows

\* the lists by creation (createdAtOrderBy),
LEMMA CreatedAtNeighbours ==
    ASSUME NEW l \in CreatedAtLists, NEW query \in Queries(l), NEW r, Table(l, r), NEW x, RowAt(l, r, x)
    PROVE  Chooses(l, query, r, x)
  <1> DEFINE rows == Shown(l, query, r)
             c == At(r, x)
  <1>0. l \in PagedKinds /\ l \notin CursorKinds
    BY KindsApart DEF PagedKinds, ConsoleLists
  <1>1. /\ query.sort \in {"ASC", "DESC"}
        /\ \A i, j : Before(l, query, r, i, j) <=> createdAtOrderBy(query.sort, r, i, j)
    BY <1>0 DEF Queries, PagedSorts, Before, PagedOrder, OwnLists, DateLists, CreatedAtLists,
                findAdminReviewsWithCount, findAdminMembersWithCount, findAdminReportsWithCount
  <1>2. rows = {i \in Ids : PagedWhere(l, query.filter, r[i].facet)}
    BY <1>0 DEF Shown, Where
  <1>3. \A i \in rows : i \in Nat /\ r[i].key \in Nat
    BY <1>0, ShownIsRow, RowMarks
  <1>4. x \in Nat /\ r[x].key \in Nat /\ c.id = x /\ c.key = r[x].key
    BY RowMarks DEF At
  <1>8. \A side : Neighbour(side, l, query, c, r) = CreatedAtNeighbour(side, query.sort, c, r, rows)
    BY <1>2 DEF Neighbour, DateLists, CreatedAtLists, PostLists, PagedWhere, findAdminReviewNeighborIds,
                findAdminMemberNeighborIds, findAdminReportNeighborIds
  <1> HIDE DEF c, rows
  <1>5. {i \in rows : createdAtPrevWhere(query.sort, c, r, i)} = {i \in rows : Before(l, query, r, i, x)}
    BY <1>1, <1>3, <1>4 DEF createdAtPrevWhere, createdAtOrderBy
  <1>6. {i \in rows : createdAtNextWhere(query.sort, c, r, i)} = {i \in rows : Before(l, query, r, x, i)}
    BY <1>1, <1>3, <1>4 DEF createdAtNextWhere, createdAtOrderBy
  <1>7. \A i, j \in rows : createdAtPrevOrderBy(query.sort, r, i, j) <=> Before(l, query, r, j, i)
    BY <1>1, <1>3 DEF createdAtPrevOrderBy, createdAtOrderBy
  <1> QED
    BY <1>1, <1>5, <1>6, <1>7, <1>8 DEF Chooses, CreatedAtNeighbour, First, c, rows

\* the rooms (findAdminChatNeighborIds),
LEMMA RoomNeighbours ==
    ASSUME NEW query \in Queries("rooms"), NEW r, Table("rooms", r), NEW x, RowAt("rooms", r, x)
    PROVE  Chooses("rooms", query, r, x)
  <1> DEFINE l == "rooms"
             rows == Shown(l, query, r)
             c == At(r, x)
  <1>0. l \in PagedKinds /\ l \notin CursorKinds
    BY KindsApart DEF PagedKinds, ConsoleLists
  <1>1. \A i, j : Before(l, query, r, i, j) <=> adminChatListOrderBy(r, i, j)
    BY <1>0 DEF Before, PagedOrder, OwnLists, DateLists
  <1>2. rows = {i \in Ids : PagedWhere(l, query.filter, r[i].facet)}
    BY <1>0 DEF Shown, Where
  <1>3. \A i \in rows : i \in Nat /\ r[i].key \in Nat /\ r[i].second \in Nat
    BY <1>0, ShownIsRow, RowMarks
  <1>4. /\ x \in Nat /\ r[x].key \in Nat /\ r[x].second \in Nat
        /\ c.id = x /\ c.key = r[x].key /\ c.second = r[x].second
    BY RowMarks DEF At
  <1>8. rows = {i \in Ids : r[i].facet # Absent /\ buildAdminChatListWhere(query.filter, r[i].facet)}
    BY <1>2 DEF PagedWhere
  <1>9. \A side : Neighbour(side, l, query, c, r) = findAdminChatNeighborIds(side, query, c, r)
    BY DEF Neighbour, DateLists, CreatedAtLists, PostLists
  <1> HIDE DEF c, rows
  <1>5. {i \in rows : chatPrevWhere(c, r, i)} = {i \in rows : Before(l, query, r, i, x)}
    BY <1>1, <1>3, <1>4 DEF chatPrevWhere, adminChatListOrderBy, Gt, Null
  <1>6. {i \in rows : chatNextWhere(c, r, i)} = {i \in rows : Before(l, query, r, x, i)}
    BY <1>1, <1>3, <1>4 DEF chatNextWhere, adminChatListOrderBy, Lt, Null
  <1>7. \A i, j \in rows : adminChatPrevOrderBy(r, i, j) <=> Before(l, query, r, j, i)
    BY <1>1, <1>3 DEF adminChatPrevOrderBy, adminChatListOrderBy
  <1> QED
    BY <1>1, <1>5, <1>6, <1>7, <1>8, <1>9 DEF Chooses, findAdminChatNeighborIds, First, c, rows

\* and the posts (findPostNeighbors),
LEMMA PostNeighbours ==
    ASSUME NEW l \in PostLists, NEW query \in Queries(l), NEW r, Table(l, r), NEW x, RowAt(l, r, x)
    PROVE  Chooses(l, query, r, x)
  <1> DEFINE rows == Shown(l, query, r)
             c == At(r, x)
  <1>0. l \in CursorKinds
    BY DEF CursorKinds
  <1>1. \A i, j : Before(l, query, r, i, j) <=> postOrderBy(r, i, j)
    BY <1>0 DEF Before, CursorOrder, PostLists, RequestLists, MessageLists
  <1>2. rows = {i \in Ids : buildPostListBaseWhere(query.filter, r[i].facet)}
    BY <1>0 DEF Shown, Where, CursorWhere, PostLists, RequestLists, MoverLists
  <1>n. \A i : RowAt(l, r, i) => r[i].key \in Nat /\ i \in Nat /\ r[i].key # Null
    <2>1. KeysOf(l) = Keys
      BY DEF KeysOf, DateLists, PostLists
    <2> QED
      BY <2>1, RowMarks, ListsAssumption DEF Keys, Null
  <1>3. \A i \in rows : i \in Nat /\ r[i].key \in Nat /\ r[i].key # Null
    BY <1>0, <1>n, ShownIsRow
  <1>4. x \in Nat /\ r[x].key \in Nat /\ r[x].key # Null /\ c.id = x /\ c.key = r[x].key
    BY <1>n DEF At
  <1>9. \A side : Neighbour(side, l, query, c, r) = findPostNeighbors(side, query, c, r)
    BY DEF Neighbour, DateLists, CreatedAtLists, PostLists
  <1> HIDE DEF c, rows
  <1>5. {i \in rows : postPrevWhere(c, r, i)} = {i \in rows : Before(l, query, r, i, x)}
    BY <1>1, <1>3, <1>4 DEF postPrevWhere, postOrderBy, Gt
  <1>6. {i \in rows : postNextWhere(c, r, i)} = {i \in rows : Before(l, query, r, x, i)}
    BY <1>1, <1>3, <1>4 DEF postNextWhere, postOrderBy, Lt
  <1>7. \A i, j \in rows : postPrevOrderBy(r, i, j) <=> Before(l, query, r, j, i)
    BY <1>1, <1>3 DEF postPrevOrderBy, postOrderBy
  <1> QED
    BY <1>1, <1>2, <1>5, <1>6, <1>7, <1>9 DEF Chooses, findPostNeighbors, First, c, rows

\* so the neighbours of any detail page are the rows next to it.
LEMMA NeighbourIsBeside ==
    ASSUME NEW l \in DetailLists, NEW query \in Queries(l), NEW r, Table(l, r), NEW x, RowAt(l, r, x)
    PROVE  Beside(l, query, r, x)
  <1>1. l \in CursorKinds \cup PagedKinds
    BY DEF DetailLists, CursorKinds, PagedKinds
  <1>2. Chooses(l, query, r, x)
    BY DateNeighbours, CreatedAtNeighbours, RoomNeighbours, PostNeighbours DEF DetailLists, ConsoleLists
  <1> QED
    BY <1>1, <1>2, ChosenIsBeside

-----------------------------------------------------------------------------
(* What others may change.                                                   *)
LEMMA FacetsOfRows ==
    ASSUME NEW l \in CursorKinds \cup PagedKinds
    PROVE  Absent \notin Facets(l) /\ \A m \in Moves(l) : m[1] # Absent
  <1>1. CASE l \in CursorKinds
    <2>1. Absent \notin CursorFacets(l)
      BY <1>1 DEF CursorFacets, Absent, CursorKinds, PostLists, RequestLists, MoverLists, MessageLists
    <2>2. \A m \in CursorMoves(l) : m[1] # Absent
      BY <1>1 DEF CursorMoves, Absent, CursorKinds, PostLists, RequestLists, MoverLists, MessageLists
    <2> QED
      BY <1>1, <2>1, <2>2 DEF Facets, Moves
  <1>2. CASE l \in PagedKinds
    <2>1. Absent \notin PagedFacets(l)
      BY <1>2 DEF PagedFacets, Absent, PagedKinds, ConsoleLists, OwnLists, DateLists, CreatedAtLists
    <2>2. \A m \in PagedMoves(l) : m[1] # Absent
      BY <1>2 DEF PagedMoves, Absent, PagedKinds, ConsoleLists, OwnLists, DateLists, CreatedAtLists
    <2> QED
      BY <1>2, <2>1, <2>2, KindsApart DEF Facets, Moves
  <1> QED
    BY <1>1, <1>2

\* A row that is there has one of its list's facets.
LEMMA PresentIsRow ==
    ASSUME NEW l \in CursorKinds \cup PagedKinds, NEW r, Table(l, r), NEW i \in Ids
    PROVE  RowAt(l, r, i) <=> r[i].facet # Absent
  <1>1. r[i] \in Rows(l, Facets(l)) \cup {NoRow}
    BY DEF Table
  <1>2. r[i] \in Rows(l, Facets(l)) => r[i].facet \in Facets(l)
    BY DEF Rows
  <1>3. NoRow.facet = Absent
    BY DEF NoRow
  <1> QED
    BY <1>1, <1>2, <1>3, FacetsOfRows DEF RowAt

\* Somebody else's write changes one row, notes it, and leaves the reader alone.
LEMMA ChangeStep ==
    ASSUME list \in CursorKinds \cup PagedKinds, Table(list, table), NEW i \in Ids, Change(i)
    PROVE  /\ UNCHANGED <<list, q, reader>>
           /\ stage # "idle" /\ touched' = touched \cup {i}
           /\ Table(list, table')
           /\ \A j \in Ids \ {i} : table'[j] = table[j]
           /\ RowAt(list, table, i) =>
                 /\ RowAt(list, table', i)
                 /\ ~Rekeyed(list) => At(table', i) = At(table, i)
                 /\ list = "pastRequests" => table[i].facet = "waiting"
  <1>1. stage # "idle" /\ Touch(i)
    BY DEF Change, Insert, Move, Rekey
  <1>2. UNCHANGED <<list, q, reader>> /\ touched' = touched \cup {i}
    BY <1>1 DEF Touch
  <1>3. table \in [Ids -> Rows(list, Facets(list)) \cup {NoRow}]
    BY DEF Table
  <1>4. CASE Insert(i)
    <2>1. PICK x \in Rows(list, Facets(list)) : table' = [table EXCEPT ![i] = x]
      BY <1>4 DEF Insert
    <2>2. ~RowAt(list, table, i)
      BY <1>4, PresentIsRow DEF Insert, Present
    <2> QED
      BY <1>1, <1>2, <1>3, <2>1, <2>2 DEF Table
  <1>5. CASE Move(i)
    <2>1. PICK facet \in Facets(list) :
             <<table[i].facet, facet>> \in Moves(list) /\ table' = [table EXCEPT ![i].facet = facet]
      BY <1>5 DEF Move
    <2>2. RowAt(list, table, i)
      BY <2>1, FacetsOfRows, PresentIsRow
    <2>3. table[i] \in Rows(list, Facets(list))
      BY <2>2 DEF RowAt
    <2>4. /\ table'[i] = [table[i] EXCEPT !.facet = facet]
          /\ \A j \in Ids \ {i} : table'[j] = table[j]
          /\ table' \in [Ids -> Rows(list, Facets(list)) \cup {NoRow, table'[i]}]
      BY <1>3, <2>1
    <2>5. table'[i] \in Rows(list, Facets(list)) /\ table'[i].key = table[i].key /\ table'[i].second = table[i].second
      BY <2>1, <2>3, <2>4 DEF Rows
    <2>6. list = "pastRequests" => table[i].facet = "waiting"
      BY <2>1 DEF Moves, CursorMoves, CursorKinds, PostLists, RequestLists, MessageLists
    <2>7. RowAt(list, table', i) /\ At(table', i) = At(table, i)
      BY <2>5 DEF RowAt, At
    <2>8. Table(list, table')
      BY <2>4, <2>5 DEF Table
    <2> QED
      BY <1>1, <1>2, <2>4, <2>6, <2>7, <2>8
  <1>6. CASE Rekey(i)
    <2>1. PICK k \in KeysOf(list) :
             /\ list = "rooms" => k > table[i].key
             /\ table' = [table EXCEPT ![i].key = k,
                                       ![i].second = IF list = "rooms" THEN k ELSE table[i].second]
      BY <1>6 DEF Rekey
    <2>2. RowAt(list, table, i) /\ Rekeyed(list)
      BY <1>6, PresentIsRow DEF Rekey, Present
    <2>3. table[i] \in Rows(list, Facets(list)) /\ table[i].key \in Nat /\ table[i].second \in SecondsOf(list)
      BY <2>2, RowMarks DEF RowAt
    <2> DEFINE second == IF list = "rooms" THEN k ELSE table[i].second
    <2>4. /\ table'[i] = [table[i] EXCEPT !.key = k, !.second = second]
          /\ \A j \in Ids \ {i} : table'[j] = table[j]
          /\ table' \in [Ids -> Rows(list, Facets(list)) \cup {NoRow, table'[i]}]
      BY <1>3, <2>1
    <2>5. second \in SecondsOf(list)
      BY <2>1, <2>3, ListsAssumption DEF SecondsOf, KeysOf, Keys, Null
    <2>6. table'[i] \in Rows(list, Facets(list))
      BY <2>3, <2>4, <2>5 DEF Rows
    <2>7. list # "pastRequests"
      BY <2>2 DEF Rekeyed, CursorRekeyed, PagedRekeyed, MoverLists
    <2>8. RowAt(list, table', i) /\ Table(list, table')
      BY <2>4, <2>6 DEF RowAt, Table
    <2> QED
      BY <1>1, <1>2, <2>2, <2>4, <2>7, <2>8
  <1> QED
    BY <1>4, <1>5, <1>6 DEF Change

-----------------------------------------------------------------------------
(* The invariant.                                                            *)
Sees(i) == \E n \in DOMAIN seen : seen[n] = i

\* While a list is read by its cursors, the cursor stands between the kept
\* rows that were seen and those that were not.
CursorWalk ==
    list \in CursorKinds =>
        /\ IF stage = "paging" THEN Fits(list, q.filter, table, cursor) ELSE cursor = NoCursor
        /\ stage \notin {"paging", "walked"} => seen = <<>>
        /\ stage # "counting"
        /\ \A i \in Kept :
              Sees(i) <=> \/ stage = "walked"
                          \/ stage = "paging" /\ ~Follows(list, Mark(list, table, cursor), At(table, i))
        /\ \A m, n \in DOMAIN seen :
              m < n /\ {seen[m], seen[n]} \subseteq Kept => Follows(list, At(table, seen[m]), At(table, seen[n]))

\* The quotes of one mover were not made in one instant.
Apart == list = "sentQuotes" => \A i, j \in Listed : i # j => table[i].key # table[j].key
Arranged(s) == s \in SetToSeqs(Listed) /\ \A m, n \in DOMAIN s : m < n => Precedes(s[m], s[n])
UpTo(n, m) == IF n > m THEN m ELSE n

\* While a list stands still, what its pages showed is its beginning.
PagedWalk ==
    list \in PagedKinds =>
        /\ page \in Nat
        /\ stage = "idle" => page = 0 /\ seen = <<>>
        /\ stage \in {"counting", "paging", "walked"} /\ touched = {} /\ Apart =>
              \E s \in SetToSeqs(Listed) :
                     /\ Arranged(s)
                     /\ seen = SubSeq(s, 1, UpTo(page * Limit, Len(s)))
                     /\ stage = "walked" => Len(s) <= page * Limit

\* A neighbour that was found is still where it was found.
Found(prior, i) ==
    /\ touched = {} =>
          IF read.id \in Listed
          THEN IF prior THEN LastOf(i, {j \in Listed : Precedes(j, read.id)})
               ELSE FirstOf(i, {j \in Listed : Precedes(read.id, j)})
          ELSE i = 0
    /\ ~Rekeyed(list) /\ i # 0 =>
          RowAt(list, table, i) /\ IF prior THEN Precedes(i, read.id) ELSE Precedes(read.id, i)

DetailWalk ==
    /\ stage \in {"idle", "filter"} => prev = Unknown /\ next = Unknown
    /\ stage \in {"filter", "neighbours", "shown"} =>
        /\ list \in DetailLists
        /\ RowAt(list, table, read.id)
        /\ touched = {} \/ ~Rekeyed(list) =>
              /\ read = At(table, read.id)
              /\ stage = "shown" => prev # Unknown /\ next # Unknown
        /\ stage = "neighbours" /\ touched = {} => read.id \in Listed
        /\ prev # Unknown => Found(TRUE, prev)
        /\ next # Unknown => Found(FALSE, next)

WalkInv ==
    /\ list \in CursorKinds \cup PagedKinds /\ q \in Queries(list) /\ Table(list, table)
    /\ seen \in Seq(Ids)
    /\ CursorWalk /\ PagedWalk /\ DetailWalk

\* The invariant holds before the first query.
LEMMA WalkInitInv == WalkInit => WalkInv
  <1> SUFFICES ASSUME WalkInit PROVE WalkInv
    OBVIOUS
  <1>1. list \in CursorKinds \cup PagedKinds /\ q \in Queries(list)
    BY WalksAssumption DEF WalkInit
  <1>2. Table(list, table)
    <2>1. Rows(list, {x \in Facets(list) : Where(list, q, x)}) \subseteq Rows(list, Facets(list))
      BY DEF Rows
    <2> QED
      BY <2>1 DEF WalkInit, Table
  <1>3. stage = "idle" /\ cursor = NoCursor /\ page = 0 /\ seen = <<>> /\ prev = Unknown /\ next = Unknown
    BY DEF WalkInit
  <1>4. seen \in Seq(Ids) /\ DOMAIN seen = {}
    BY <1>3
  <1>5. CursorWalk
    BY <1>3, <1>4 DEF CursorWalk, Sees
  <1> QED
    BY <1>1, <1>2, <1>3, <1>4, <1>5 DEF WalkInv, PagedWalk, DetailWalk

\* Two rows stand to each other by their keys and ids alone.
LEMMA SameKeysSameOrder ==
    ASSUME NEW l \in CursorKinds \cup PagedKinds, NEW query, NEW r, NEW s, NEW a, NEW b,
           r[a].key = s[a].key, r[a].second = s[a].second,
           r[b].key = s[b].key, r[b].second = s[b].second
    PROVE  Before(l, query, r, a, b) <=> Before(l, query, s, a, b)
  <1>1. CASE l \in CursorKinds
    <2>1. CursorOrder(l, r, a, b) <=> CursorOrder(l, s, a, b)
      BY DEF CursorOrder, postOrderBy, commentOrderBy, findEstimateRequests, findMovers, compareRankedDesc,
             findFavoriteMoversById, pastOrderBy
    <2> QED
      BY <1>1, <2>1 DEF Before
  <1>2. CASE l \notin CursorKinds
    <2>1. PagedOrder(l, query.sort, r, a, b) <=> PagedOrder(l, query.sort, s, a, b)
      BY DEF PagedOrder, createDateSortOrderBy, findAdminReviewsWithCount, findAdminMembersWithCount,
             findAdminReportsWithCount, createdAtOrderBy, adminChatListOrderBy, ownOrderBy
    <2> QED
      BY <1>2, <2>1 DEF Before
  <1> QED
    BY <1>1, <1>2

-----------------------------------------------------------------------------
(* Others' changes keep the invariant.                                       *)
LEMMA ChangeKeepsWalk ==
    ASSUME WalkInv, NEW i \in Ids, Change(i)
    PROVE  WalkInv'
  <1>0. /\ list \in CursorKinds \cup PagedKinds /\ q \in Queries(list) /\ Table(list, table)
        /\ seen \in Seq(Ids)
    BY DEF WalkInv
  <1>1. /\ list' = list /\ q' = q /\ stage' = stage /\ cursor' = cursor /\ page' = page /\ seen' = seen
        /\ read' = read /\ prev' = prev /\ next' = next
        /\ stage # "idle" /\ touched' = touched \cup {i}
        /\ Table(list, table')
        /\ \A j \in Ids \ {i} : table'[j] = table[j]
        /\ RowAt(list, table, i) =>
              /\ RowAt(list, table', i)
              /\ ~Rekeyed(list) => At(table', i) = At(table, i)
              /\ list = "pastRequests" => table[i].facet = "waiting"
    BY <1>0, ChangeStep DEF reader
  <1>2. \A j : RowAt(list, table, j) => RowAt(list, table', j)
    BY <1>1 DEF RowAt
  <1>3. \A j : RowAt(list, table, j) /\ ~Rekeyed(list) => At(table', j) = At(table, j)
    BY <1>1 DEF RowAt, At
  <1>4. Kept' \subseteq Kept /\ \A j \in Kept' : j \in Ids /\ At(table', j) = At(table, j)
    BY <1>1 DEF Kept, Listed, At
  <1>5. CursorWalk'
    <2> SUFFICES ASSUME list \in CursorKinds PROVE CursorWalk'
      BY <1>1 DEF CursorWalk
    <2>1. /\ IF stage = "paging" THEN Fits(list, q.filter, table, cursor) ELSE cursor = NoCursor
          /\ stage \notin {"paging", "walked"} => seen = <<>>
          /\ stage # "counting"
          /\ \A j \in Kept :
                Sees(j) <=> \/ stage = "walked"
                            \/ stage = "paging" /\ ~Follows(list, Mark(list, table, cursor), At(table, j))
          /\ \A m, n \in DOMAIN seen :
                m < n /\ {seen[m], seen[n]} \subseteq Kept =>
                    Follows(list, At(table, seen[m]), At(table, seen[n]))
      BY DEF WalkInv, CursorWalk
    <2>2. stage = "paging" =>
             /\ Fits(list, q.filter, table', cursor)
             /\ Mark(list, table', cursor) = Mark(list, table, cursor)
      <3>1. CASE list # "pastRequests"
        BY <2>1, <3>1 DEF Fits, Mark
      <3>2. CASE list = "pastRequests" /\ stage = "paging"
        <4>1. cursor.id \in OnList(list, q.filter, table)
          BY <2>1, <3>2 DEF Fits
        <4>2. q.filter \in CursorFilters(list)
          BY <1>0 DEF Queries, Filters
        <4>3. RowAt(list, table, cursor.id)
          BY <1>0, <4>1, <4>2, ListedIsRow
        <4>4. table[cursor.id].facet # "waiting"
          BY <3>2, <4>1 DEF OnList, CursorWhere, findCustomerPastEstimateRequests, PostLists, RequestLists,
                            MoverLists
        <4>5. cursor.id # i
          BY <1>1, <3>2, <4>3, <4>4
        <4>6. table'[cursor.id] = table[cursor.id]
          BY <1>1, <4>3, <4>5 DEF RowAt
        <4> QED
          BY <2>1, <3>2, <4>6 DEF Fits, Mark, OnList, At
      <3> QED
        BY <3>1, <3>2
    <2>3. \A j : Sees(j)' <=> Sees(j)
      BY <1>1 DEF Sees
    <2> QED
      BY <1>1, <1>4, <2>1, <2>2, <2>3 DEF CursorWalk
  <1>6. PagedWalk'
    BY <1>1 DEF WalkInv, PagedWalk
  <1>7. DetailWalk'
    <2>1. touched' # {}
      BY <1>1
    <2>2. ASSUME NEW j, NEW prior \in BOOLEAN, RowAt(list, table, read.id), Found(prior, j) PROVE Found(prior, j)'
      <3>1. ASSUME ~Rekeyed(list), j # 0
            PROVE  RowAt(list, table', j) /\ IF prior THEN Precedes(j, read.id)' ELSE Precedes(read.id, j)'
        <4>1. RowAt(list, table, j) /\ IF prior THEN Precedes(j, read.id) ELSE Precedes(read.id, j)
          BY <2>2, <3>1 DEF Found
        <4>2. At(table', j) = At(table, j) /\ At(table', read.id) = At(table, read.id)
          BY <1>3, <2>2, <3>1, <4>1
        <4>3. /\ table'[j].key = table[j].key /\ table'[j].second = table[j].second
              /\ table'[read.id].key = table[read.id].key /\ table'[read.id].second = table[read.id].second
          BY <4>2 DEF At
        <4>4. \A a, b \in {j, read.id} : Before(list, q, table', a, b) <=> Before(list, q, table, a, b)
          BY <1>0, <4>3, SameKeysSameOrder
        <4> QED
          BY <1>1, <1>2, <4>1, <4>4 DEF Precedes
      <3> QED
        BY <1>1, <2>1, <3>1 DEF Found
    <2> QED
      BY <1>1, <1>2, <1>3, <2>1, <2>2 DEF WalkInv, DetailWalk
  <1> QED
    BY <1>0, <1>1, <1>5, <1>6, <1>7 DEF WalkInv

-----------------------------------------------------------------------------
(* The reader's steps keep the invariant.                                    *)

\* A page by a cursor.
LEMMA CursorOfFits ==
    ASSUME NEW l \in CursorKinds, NEW f \in CursorFilters(l), NEW r, Table(l, r), NEW i \in OnList(l, f, r)
    PROVE  /\ Fits(l, f, r, CursorOf(l, r, i))
           /\ \A y \in Marks : Follows(l, Mark(l, r, CursorOf(l, r, i)), y) <=> Follows(l, At(r, i), y)
  <1>1. RowAt(l, r, i) /\ i \in Nat /\ r[i].key \in KeysOf(l) /\ r[i].key \in Nat /\ r[i].second \in Nat
    BY ListedIsRow, RowMarks
  <1>2. i # 0
    BY <1>1, ListsAssumption DEF RowAt
  <1>3. CASE l \in RequestLists
    <2>1. CursorOf(l, r, i) = [id |-> i, key |-> r[i].key, second |-> IF l = "MOVE_DATE_ASC" THEN r[i].second ELSE 0]
      BY <1>3 DEF CursorOf, getReceivedCursor, RequestLists, MessageLists
    <2> QED
      BY <1>1, <1>2, <1>3, <2>1 DEF Fits, Mark, Marks, Follows, At, NoCursor, RequestLists, MessageLists
  <1>4. CASE l \in MessageLists
    <2>1. CursorOf(l, r, i) = [id |-> i, key |-> 0, second |-> 0]
      BY <1>4 DEF CursorOf, buildCursorPaginationMeta, RequestLists, MessageLists
    <2> QED
      BY <1>1, <1>2, <1>4, <2>1 DEF Fits, Mark, Marks, Follows, At, NoCursor, MessageLists
  <1>5. CASE l = "pastRequests"
    <2>1. CursorOf(l, r, i) = [id |-> i, key |-> 0, second |-> 0]
      BY <1>5 DEF CursorOf, buildCursorPaginationMeta, RequestLists, MessageLists
    <2> QED
      BY <1>1, <1>2, <1>5, <2>1 DEF Fits, Mark, Marks, NoCursor
  <1>6. CASE l \notin RequestLists \cup MessageLists \cup {"pastRequests"}
    <2>1. CursorOf(l, r, i) = [id |-> i, key |-> r[i].key, second |-> 0]
      BY <1>6 DEF CursorOf, getCursorValue
    <2> QED
      BY <1>1, <1>2, <1>6, <2>1 DEF Fits, Mark, Marks, Follows, At, NoCursor, RequestLists
  <1> QED
    BY <1>3, <1>4, <1>5, <1>6

\* A page by a cursor keeps the invariant.
LEMMA GetPageKeepsWalk ==
    ASSUME WalkInv, NEW kinds, kinds \subseteq CursorKinds, GetPage(kinds)
    PROVE  WalkInv'
  <1> DEFINE f == q.filter
             rest == Rest(list, f, table, cursor)
             At0(i) == At(table, i)
  <1>0. /\ list \in CursorKinds /\ list \notin PagedKinds /\ q \in Queries(list) /\ f \in CursorFilters(list)
        /\ Table(list, table) /\ seen \in Seq(Ids) /\ Limit \in Nat \ {0}
    BY KindsApart, ListsAssumption DEF WalkInv, GetPage, Queries, Filters
  <1>1. /\ IF stage = "paging" THEN Fits(list, f, table, cursor) ELSE cursor = NoCursor
        /\ stage \notin {"paging", "walked"} => seen = <<>>
        /\ \A i \in Kept :
              Sees(i) <=> \/ stage = "walked"
                          \/ stage = "paging" /\ ~Follows(list, Mark(list, table, cursor), At0(i))
        /\ \A m, n \in DOMAIN seen :
              m < n /\ {seen[m], seen[n]} \subseteq Kept => Follows(list, At0(seen[m]), At0(seen[n]))
    BY <1>0 DEF WalkInv, CursorWalk
  <1>2. PICK got \in FetchPage(list, f, cursor, table) :
           /\ seen' = seen \o got.items
           /\ stage' = IF got.hasNext THEN "paging" ELSE "walked"
           /\ cursor' = IF got.hasNext THEN CursorOf(list, table, Last(got.items)) ELSE NoCursor
    BY DEF GetPage
  <1>3. /\ stage \in {"idle", "paging"}
        /\ list' = list /\ q' = q /\ table' = table /\ touched' = touched
        /\ page' = page /\ read' = read /\ prev' = prev /\ next' = next
    BY DEF GetPage
  <1>4. PICK t \in SetToSeqs(rest) :
           /\ \A m, n \in DOMAIN t : m < n => Follows(list, At0(t[m]), At0(t[n]))
           /\ got.items = SubSeq(t, 1, IF Len(t) > Limit THEN Limit ELSE Len(t))
           /\ got.hasNext = (Len(t) > Limit)
    BY <1>0, <1>1, PageOfRest
  <1>5. /\ rest \subseteq OnList(list, f, table) /\ OnList(list, f, table) = Listed /\ Listed \subseteq Ids
        /\ IsFiniteSet(rest)
    <2>1. rest \subseteq OnList(list, f, table) /\ OnList(list, f, table) = Listed /\ Listed \subseteq Ids
      BY <1>0 DEF Rest, OnList, Listed, Where
    <2> QED
      BY <2>1, ListsAssumption, FS_Subset
  <1>6. /\ t \in Seq(rest) /\ Len(t) \in Nat /\ DOMAIN t = 1 .. Len(t)
        /\ \A n \in 1 .. Len(t) : t[n] \in rest
        /\ \A x \in rest : \E n \in 1 .. Len(t) : t[n] = x
    BY <1>5, SeqsOfSet
  <1>7. PICK e : e = IF Len(t) > Limit THEN Limit ELSE Len(t)
    OBVIOUS
  <1> DEFINE more == Len(t) > Limit
  <1>8. /\ e \in Nat /\ e <= Len(t)
        /\ more => e \in 1 .. Len(t)
        /\ ~more => e = Len(t)
    <2>1. Len(t) \in Nat /\ Limit \in Nat \ {0}
      BY <1>0, <1>6
    <2> QED
      BY <1>7, <2>1
  <1>m. /\ stage' = IF more THEN "paging" ELSE "walked"
        /\ cursor' = IF more THEN CursorOf(list, table, Last(got.items)) ELSE NoCursor
    BY <1>2, <1>4
  <1> HIDE DEF more
  <1>9. /\ got.items \in Seq(Ids) /\ Len(got.items) = e
        /\ \A n \in 1 .. e : got.items[n] = t[n] /\ got.items[n] \in rest
    <2>m. Len(t) \in Nat /\ e \in Nat /\ e <= Len(t)
      BY <1>6, <1>8
    <2>0. \A n \in 1 .. e : n \in 1 .. Len(t)
      BY <2>m
    <2>1. \A n \in 1 .. e : t[n] \in Ids /\ t[n] \in rest
      BY <1>5, <1>6, <2>0
    <2>2. /\ SubSeq(t, 1, e) \in Seq(Ids) /\ Len(SubSeq(t, 1, e)) = (IF 1 <= e THEN e - 1 + 1 ELSE 0)
          /\ \A n \in 1 .. e - 1 + 1 : SubSeq(t, 1, e)[n] = t[1 + n - 1]
      BY <1>8, <2>1, SubSeqProperties
    <2> QED
      BY <1>4, <1>7, <1>8, <2>1, <2>2
  <1>10. /\ seen' \in Seq(Ids) /\ Len(seen') = Len(seen) + e /\ Len(seen) \in Nat
         /\ DOMAIN seen = 1 .. Len(seen) /\ DOMAIN seen' = 1 .. Len(seen) + e
         /\ \A n \in 1 .. Len(seen) + e :
               seen'[n] = IF n <= Len(seen) THEN seen[n] ELSE got.items[n - Len(seen)]
    BY <1>0, <1>2, <1>9, ConcatProperties, LenProperties
  <1>11. Kept' = Kept /\ Kept \subseteq Listed /\ \A i \in Listed : At0(i) \in Marks /\ At0(i).id = i
    BY <1>0, <1>3, <1>5, ListedIsRow, RowMarks DEF Kept, Listed, At
  <1>12. \A i : Sees(i)' <=> Sees(i) \/ \E n \in 1 .. e : t[n] = i
    <2>1. ASSUME NEW i, Sees(i) PROVE Sees(i)'
      BY <1>8, <1>10, <2>1 DEF Sees
    <2>2. ASSUME NEW n \in 1 .. e PROVE Sees(t[n])'
      <3>1. Len(seen) + n \in DOMAIN seen' /\ seen'[Len(seen) + n] = got.items[n]
        BY <1>8, <1>10
      <3> QED
        BY <1>9, <3>1 DEF Sees
    <2>3. ASSUME NEW n \in DOMAIN seen', n > Len(seen) PROVE \E k \in 1 .. e : t[k] = seen'[n]
      <3>1. n - Len(seen) \in 1 .. e /\ seen'[n] = got.items[n - Len(seen)]
        BY <1>8, <1>10, <2>3
      <3> QED
        BY <1>9, <3>1
    <2>4. ASSUME NEW n \in DOMAIN seen', n <= Len(seen) PROVE Sees(seen'[n])
      BY <1>8, <1>10, <2>4 DEF Sees
    <2>5. \A n \in DOMAIN seen' : n > Len(seen) \/ n <= Len(seen)
      BY <1>10
    <2> QED
      BY <2>1, <2>2, <2>3, <2>4, <2>5 DEF Sees
  \* Of the kept rows, those of the rest are the ones not seen.
  <1>13. \A i \in Kept : i \in rest <=> ~Sees(i)
    BY <1>1, <1>3, <1>5, <1>11 DEF Rest, Fits
  <1>14. ASSUME NEW i \in rest
         PROVE  At0(i) \in Marks /\ (cursor # NoCursor => Follows(list, Mark(list, table, cursor), At0(i)))
    BY <1>5, <1>11 DEF Rest
  <1>15. cursor # NoCursor => Mark(list, table, cursor) \in Marks
    <2>1. cursor # NoCursor => Fits(list, f, table, cursor)
      BY <1>1
    <2> QED
      BY <1>5, <1>11, <2>1 DEF Fits, Mark
  \* What was seen does not come after what is seen now.
  <1>16. ASSUME NEW i \in Kept, Sees(i), NEW j \in rest PROVE Follows(list, At0(i), At0(j))
    <2>1. i \notin rest /\ i \in Listed /\ At0(i) \in Marks /\ At0(j) \in Marks
      BY <1>11, <1>13, <1>14, <1>16
    <2>2. cursor # NoCursor /\ ~Follows(list, Mark(list, table, cursor), At0(i))
      BY <1>5, <2>1 DEF Rest
    <2>3. Follows(list, Mark(list, table, cursor), At0(j)) /\ Mark(list, table, cursor) \in Marks
      BY <1>14, <1>15, <2>2
    <2>4. ~Follows(list, At0(j), At0(i))
      BY <2>1, <2>2, <2>3, FollowsOrders
    <2>5. At0(i).id = i /\ At0(j).id = j /\ i # j
      BY <1>5, <1>11, <2>1
    <2> QED
      BY <2>1, <2>4, <2>5, FollowsOrders
  <1>17. ASSUME NEW k \in 1 .. Len(t), NEW n \in 1 .. Len(t)
         PROVE  Follows(list, At0(t[k]), At0(t[n])) <=> k < n
    <2>1. At0(t[k]) \in Marks /\ At0(t[n]) \in Marks
      BY <1>6, <1>14
    <2>2. CASE k < n
      BY <1>4, <1>6, <2>2
    <2>3. CASE k = n
      BY <2>1, <2>3, FollowsOrders
    <2>4. CASE n < k
      <3>1. Follows(list, At0(t[n]), At0(t[k]))
        BY <1>4, <1>6, <2>4
      <3>2. ~Follows(list, At0(t[k]), At0(t[n]))
        BY <2>1, <3>1, FollowsOrders
      <3> QED
        BY <2>4, <3>2
    <2> QED
      BY <2>2, <2>3, <2>4
  <1> DEFINE Between ==
               /\ IF stage' = "paging" THEN Fits(list, f, table, cursor') ELSE cursor' = NoCursor
               /\ \A i \in Kept :
                     Sees(i)' <=> \/ stage' = "walked"
                                  \/ /\ stage' = "paging"
                                     /\ ~Follows(list, Mark(list, table, cursor'), At0(i))
  <1>18. ASSUME more PROVE Between
    <2>1. e \in 1 .. Len(t) /\ t[e] \in rest /\ t[e] \in OnList(list, f, table)
      BY <1>5, <1>6, <1>8, <1>18
    <2>2. stage' = "paging" /\ cursor' = CursorOf(list, table, t[e])
      BY <1>m, <1>8, <1>9, <1>18, <2>1 DEF Last
    <2>3. /\ Fits(list, f, table, cursor')
          /\ \A y \in Marks : Follows(list, Mark(list, table, cursor'), y) <=> Follows(list, At0(t[e]), y)
      BY <1>0, <2>1, <2>2, CursorOfFits
    <2>4. ASSUME NEW i \in Kept PROVE Sees(i)' <=> ~Follows(list, At0(t[e]), At0(i))
      <3>1. CASE i \in rest
        <4>1. PICK k \in 1 .. Len(t) : t[k] = i
          BY <1>6, <3>1
        <4>2. Follows(list, At0(t[e]), At0(i)) <=> e < k
          BY <1>17, <2>1, <4>1
        <4>3. (\E n \in 1 .. e : t[n] = i) <=> k <= e
          <5>1. k <= e => k \in 1 .. e
            BY <1>8, <4>1
          <5>2. ASSUME NEW n \in 1 .. e, t[n] = i, k > e PROVE FALSE
            <6>1. n \in 1 .. Len(t) /\ n < k
              BY <1>8, <4>1, <5>2
            <6>2. Follows(list, At0(i), At0(i)) /\ At0(i) \in Marks
              BY <1>11, <1>17, <4>1, <5>2, <6>1
            <6> QED
              BY <6>2, FollowsOrders
          <5> QED
            BY <1>8, <4>1, <5>1, <5>2
        <4> QED
          BY <1>8, <1>12, <1>13, <3>1, <4>1, <4>2, <4>3
      <3>2. CASE i \notin rest
        <4>1. Sees(i)
          BY <1>13, <3>2
        <4>2. Follows(list, At0(i), At0(t[e])) /\ At0(i) \in Marks /\ At0(t[e]) \in Marks
          BY <1>11, <1>14, <1>16, <2>1, <4>1
        <4>3. ~Follows(list, At0(t[e]), At0(i))
          BY <4>2, FollowsOrders
        <4> QED
          BY <1>12, <4>1, <4>3
      <3> QED
        BY <3>1, <3>2
    <2>5. \A i \in Kept : At0(i) \in Marks
      BY <1>11
    <2> QED
      BY <2>2, <2>3, <2>4, <2>5
  <1>19. ASSUME ~more PROVE Between
    <2>1. stage' = "walked" /\ cursor' = NoCursor
      BY <1>m, <1>19
    <2>2. ASSUME NEW i \in Kept PROVE Sees(i)'
      BY <1>6, <1>8, <1>12, <1>13, <1>19
    <2> QED
      BY <2>1, <2>2
  <1>20. ASSUME NEW m \in DOMAIN seen', NEW n \in DOMAIN seen', m < n, {seen'[m], seen'[n]} \subseteq Kept
         PROVE  Follows(list, At0(seen'[m]), At0(seen'[n]))
    <2>1. CASE n <= Len(seen)
      BY <1>1, <1>8, <1>10, <1>20, <2>1
    <2>2. CASE m <= Len(seen) /\ n > Len(seen)
      <3>1. Sees(seen'[m])
        BY <1>8, <1>10, <2>2 DEF Sees
      <3>2. n - Len(seen) \in 1 .. e /\ seen'[n] = got.items[n - Len(seen)]
        BY <1>8, <1>10, <2>2
      <3> QED
        BY <1>9, <1>16, <1>20, <3>1, <3>2
    <2>3. CASE m > Len(seen)
      <3>1. /\ m - Len(seen) \in 1 .. e /\ seen'[m] = got.items[m - Len(seen)]
            /\ n - Len(seen) \in 1 .. e /\ seen'[n] = got.items[n - Len(seen)]
            /\ m - Len(seen) < n - Len(seen)
        BY <1>8, <1>10, <1>20, <2>3
      <3>2. /\ m - Len(seen) \in 1 .. Len(t) /\ n - Len(seen) \in 1 .. Len(t)
            /\ seen'[m] = t[m - Len(seen)] /\ seen'[n] = t[n - Len(seen)]
        <4>1. Len(t) \in Nat /\ e \in Nat /\ e <= Len(t)
          BY <1>6, <1>8
        <4>2. m - Len(seen) \in 1 .. Len(t) /\ n - Len(seen) \in 1 .. Len(t)
          BY <3>1, <4>1
        <4> QED
          BY <1>9, <3>1, <4>2
      <3> QED
        BY <1>17, <3>1, <3>2
    <2> QED
      BY <1>10, <2>1, <2>2, <2>3
  <1>21. stage' \in {"paging", "walked"}
    BY <1>m
  <1>22. CursorWalk'
    BY <1>3, <1>11, <1>18, <1>19, <1>20, <1>21 DEF CursorWalk
  <1>23. DetailWalk' /\ PagedWalk'
    BY <1>0, <1>3, <1>21 DEF DetailWalk, PagedWalk
  <1> QED
    BY <1>0, <1>3, <1>10, <1>22, <1>23 DEF WalkInv

\* A page by its number.
LEMMA LastPage ==
    ASSUME NEW n \in Nat, NEW p \in Nat, ~(p < totalPages(n))
    PROVE  n <= p * Limit
  <1>0. Limit \in Nat \ {0}
    BY ListsAssumption
  <1>1. PICK d : d = totalPages(n)
    OBVIOUS
  <1>2. d \in Int /\ d * Limit <= n + Limit - 1 /\ n + Limit - 1 < d * Limit + Limit
    BY <1>0, <1>1 DEF totalPages
  <1>3. d <= p
    BY <1>1, <1>2
  <1>4. d * Limit <= p * Limit
    BY <1>0, <1>2, <1>3
  <1>5. d * Limit \in Int /\ p * Limit \in Int
    BY <1>0, <1>2
  <1> QED
    BY <1>0, <1>2, <1>4, <1>5

\* There is one way to arrange a list.
LEMMA ArrangedOnce ==
    ASSUME list \in CursorKinds \cup PagedKinds, q \in Queries(list), Table(list, table),
           NEW s, NEW t, Arranged(s), Arranged(t)
    PROVE  s = t
  <1>1. Shown(list, q, table) = Listed /\ Listed \subseteq Ids
    BY DEF Shown, Listed
  <1>2. \A i \in Listed : RowAt(list, table, i)
    BY <1>1, ShownIsRow
  <1>3. IsFiniteSet(Listed)
    BY <1>1, ListsAssumption, FS_Subset
  <1>4. PICK R : Orders(R, Listed) /\ \A a, b \in Listed : <<a, b>> \in R <=> Before(list, q, table, a, b)
    BY <1>2, BeforeRelation
  <1>5. /\ s \in SetToSeqs(Listed) /\ \A m, n \in DOMAIN s : m < n => <<s[m], s[n]>> \in R
        /\ t \in SetToSeqs(Listed) /\ \A m, n \in DOMAIN t : m < n => <<t[m], t[n]>> \in R
    <2>1. /\ s \in SetToSeqs(Listed) /\ \A n \in DOMAIN s : s[n] \in Listed
          /\ t \in SetToSeqs(Listed) /\ \A n \in DOMAIN t : t[n] \in Listed
      BY <1>3, SeqsOfSet DEF Arranged
    <2> QED
      BY <1>4, <2>1 DEF Arranged, Precedes
  <1> QED
    BY <1>3, <1>4, <1>5, OneOrder

\* The pages of a list that stands still are cut from its one order.
LEMMA PagesArranged ==
    ASSUME list \in PagedKinds, q \in Queries(list), Table(list, table), Apart,
           NEW s \in PagedResults(list, q, table)
    PROVE  Arranged(s)
  <1>0. list \notin CursorKinds
    BY KindsApart
  <1>1. {i \in Ids : PagedWhere(list, q.filter, table[i].facet)} = Listed
    BY <1>0 DEF Listed, Where
  <1>2. \A a, b : Precedes(a, b) <=> PagedOrder(list, q.sort, table, a, b)
    BY <1>0 DEF Precedes, Before
  <1>3. CASE list # "sentQuotes"
    BY <1>1, <1>2, <1>3 DEF PagedResults, Arranged
  <1>4. CASE list = "sentQuotes"
    <2>1. s \in SetToSeqs(Listed) /\ \A m, n \in DOMAIN s : m < n => table[s[m]].key >= table[s[n]].key
      BY <1>1, <1>4 DEF PagedResults, findQuotesByMoverWithCount
    <2>2. IsFiniteSet(Listed)
      BY ListsAssumption, FS_Subset DEF Listed
    <2>3. /\ DOMAIN s = 1 .. Len(s) /\ Len(s) \in Nat /\ \A n \in DOMAIN s : s[n] \in Listed
          /\ \A m, n \in DOMAIN s : m # n => s[m] # s[n]
      BY <2>1, <2>2, SeqsOfSet
    <2>4. \A i \in Listed : table[i].key \in Nat
      <3>1. Listed = Shown(list, q, table)
        BY DEF Listed, Shown
      <3> QED
        BY <3>1, ShownIsRow, RowMarks
    <2>5. ASSUME NEW m \in DOMAIN s, NEW n \in DOMAIN s, m < n PROVE Precedes(s[m], s[n])
      <3>1. /\ s[m] \in Listed /\ s[n] \in Listed /\ s[m] # s[n]
            /\ table[s[m]].key \in Nat /\ table[s[n]].key \in Nat /\ table[s[m]].key >= table[s[n]].key
        BY <2>1, <2>3, <2>4, <2>5
      <3>2. table[s[m]].key > table[s[n]].key
        BY <1>4, <3>1 DEF Apart
      <3> QED
        BY <1>2, <1>4, <3>2 DEF PagedOrder, ownOrderBy, OwnLists, DateLists
    <2> QED
      BY <2>1, <2>5 DEF Arranged
  <1> QED
    BY <1>3, <1>4

\* A numbered page keeps the invariant.
LEMMA FindManyKeepsWalk ==
    ASSUME WalkInv, NEW kind \in PagedKinds, FindMany(kind)
    PROVE  WalkInv'
  <1>0. /\ list \in PagedKinds /\ list \notin CursorKinds /\ q \in Queries(list) /\ Table(list, table)
        /\ seen \in Seq(Ids) /\ page \in Nat /\ Limit \in Nat \ {0}
        /\ stage \in {"idle", "paging"}
        /\ stage = "idle" => page = 0 /\ seen = <<>>
    BY KindsApart, ListsAssumption DEF WalkInv, PagedWalk, FindMany
  <1>1. PICK s \in PagedResults(list, q, table) : seen' = seen \o PageOf(s, page + 1)
    BY DEF FindMany
  <1>2. /\ page' = page + 1 /\ stage' = "counting"
        /\ list' = list /\ q' = q /\ table' = table /\ touched' = touched /\ cursor' = cursor
        /\ read' = read /\ prev' = prev /\ next' = next
    BY DEF FindMany
  <1>3. /\ s \in SetToSeqs(Listed) /\ Listed \subseteq Ids /\ IsFiniteSet(Listed)
    <2>1. {i \in Ids : PagedWhere(list, q.filter, table[i].facet)} = Listed
      BY <1>0 DEF Listed, Where
    <2>2. s \in SetToSeqs(Listed)
      BY <2>1 DEF PagedResults, findQuotesByMoverWithCount
    <2> QED
      BY <2>1, <2>2, ListsAssumption, FS_Subset
  <1>4. s \in Seq(Listed) /\ Len(s) \in Nat /\ \A n \in 1 .. Len(s) : s[n] \in Listed
    BY <1>3, SeqsOfSet
  <1>5. PICK k : k = page * Limit
    OBVIOUS
  <1>6. k \in Nat /\ (page + 1 - 1) * Limit = k /\ (page + 1) * Limit = k + Limit
    BY <1>0, <1>5
  <1>7. PageOf(s, page + 1) = SubSeq(s, k + 1, UpTo(k + Limit, Len(s)))
    <2>1. \A n : (n - 1) * Limit = k => PageOf(s, n) = SubSeq(s, k + 1, UpTo(k + Limit, Len(s)))
      BY DEF PageOf, UpTo
    <2>2. PICK n : n = page + 1
      OBVIOUS
    <2>3. (n - 1) * Limit = k
      BY <1>0, <1>5, <2>2
    <2>4. PageOf(s, n) = SubSeq(s, k + 1, UpTo(k + Limit, Len(s)))
      BY <2>1, <2>3
    <2> QED
      BY <2>2, <2>4
  <1>8. UpTo(k + Limit, Len(s)) \in Nat /\ UpTo(k + Limit, Len(s)) <= Len(s)
    BY <1>0, <1>4, <1>6 DEF UpTo
  <1>9. PageOf(s, page + 1) \in Seq(Ids)
    <2>1. \A n \in k + 1 .. UpTo(k + Limit, Len(s)) : n \in 1 .. Len(s)
      BY <1>4, <1>6, <1>8
    <2>2. \A n \in k + 1 .. UpTo(k + Limit, Len(s)) : s[n] \in Ids
      BY <1>3, <1>4, <2>1
    <2>3. k + 1 \in Int /\ UpTo(k + Limit, Len(s)) \in Int
      BY <1>6, <1>8
    <2>4. SubSeq(s, k + 1, UpTo(k + Limit, Len(s))) \in Seq(Ids)
      BY <2>2, <2>3, SubSeqProperties, Zenon
    <2> QED
      BY <1>7, <2>4
  <1>10. seen' \in Seq(Ids)
    BY <1>0, <1>1, <1>9, ConcatProperties
  <1>11. ASSUME touched = {}, Apart PROVE Arranged(s) /\ seen' = SubSeq(s, 1, UpTo(k + Limit, Len(s)))
    <2>1. Arranged(s)
      BY <1>0, <1>11, PagesArranged
    <2>2. seen = SubSeq(s, 1, UpTo(k, Len(s)))
      <3>1. CASE stage = "idle"
        <4>1. k = 0 /\ UpTo(k, Len(s)) = 0
          BY <1>0, <1>4, <1>5, <3>1 DEF UpTo
        <4> QED
          BY <1>0, <3>1, <4>1, SubSeqEmpty
      <3>2. CASE stage = "paging"
        <4>1. PICK t : Arranged(t) /\ seen = SubSeq(t, 1, UpTo(page * Limit, Len(t)))
          BY <1>0, <1>11, <3>2 DEF WalkInv, PagedWalk
        <4>2. t = s
          BY <1>0, <2>1, <4>1, ArrangedOnce
        <4> QED
          BY <1>5, <4>1, <4>2
      <3> QED
        BY <1>0, <3>1, <3>2
    <2>3. CASE k <= Len(s)
      <3>1. UpTo(k, Len(s)) = k
        BY <1>4, <1>6, <2>3 DEF UpTo
      <3>2. k \in 0 .. Len(s) /\ UpTo(k + Limit, Len(s)) \in k .. Len(s)
        BY <1>0, <1>4, <1>6, <2>3 DEF UpTo
      <3>3. SubSeq(s, 1, k) \o SubSeq(s, k + 1, UpTo(k + Limit, Len(s))) = SubSeq(s, 1, UpTo(k + Limit, Len(s)))
        <4>1. 1 \in 1 .. Len(s) + 1 /\ k \in 1 - 1 .. Len(s)
          BY <1>4, <3>2
        <4> QED
          BY <1>4, <3>2, <4>1, ConcatAdjacentSubSeq
      <3> QED
        BY <1>1, <1>7, <2>1, <2>2, <3>1, <3>3
    <2>4. CASE k > Len(s)
      <3>1. UpTo(k, Len(s)) = Len(s) /\ UpTo(k + Limit, Len(s)) = Len(s) /\ Len(s) < k + 1
        BY <1>0, <1>4, <1>6, <2>4 DEF UpTo
      <3>2. SubSeq(s, k + 1, Len(s)) = <<>>
        BY <1>4, <1>6, <3>1, SubSeqEmpty
      <3>3. seen \o <<>> = seen
        BY <1>0, ConcatEmptySeq
      <3> QED
        BY <1>1, <1>7, <2>1, <2>2, <3>1, <3>2, <3>3
    <2> QED
      BY <1>4, <1>6, <2>3, <2>4
  <1>12. Listed' = Listed /\ (Apart' <=> Apart) /\ (Arranged(s)' <=> Arranged(s))
    BY <1>2 DEF Listed, Apart, Arranged, Precedes
  <1>13. PagedWalk'
    <2>1. page' \in Nat /\ page' * Limit = k + Limit
      BY <1>0, <1>2, <1>6
    <2> QED
      BY <1>2, <1>3, <1>11, <1>12, <2>1 DEF PagedWalk
  <1>14. CursorWalk' /\ DetailWalk'
    BY <1>0, <1>2 DEF CursorWalk, DetailWalk
  <1> QED
    BY <1>0, <1>2, <1>10, <1>13, <1>14 DEF WalkInv

\* Counting the rows keeps it: it says whether there is another page.
LEMMA CountKeepsWalk ==
    ASSUME WalkInv, Count
    PROVE  WalkInv'
  <1>0. /\ list \in CursorKinds \cup PagedKinds /\ q \in Queries(list) /\ Table(list, table) /\ seen \in Seq(Ids)
        /\ stage = "counting"
    BY DEF WalkInv, Count
  <1>1. /\ stage' = IF page < totalPages(Cardinality({i \in Ids : PagedWhere(list, q.filter, table[i].facet)}))
                    THEN "paging" ELSE "walked"
        /\ list' = list /\ q' = q /\ table' = table /\ touched' = touched /\ cursor' = cursor
        /\ page' = page /\ seen' = seen /\ read' = read /\ prev' = prev /\ next' = next
    BY DEF Count
  <1>2. list \notin CursorKinds /\ list \in PagedKinds
    BY <1>0 DEF WalkInv, CursorWalk
  <1>3. {i \in Ids : PagedWhere(list, q.filter, table[i].facet)} = Listed
    BY <1>2 DEF Listed, Where
  <1>4. IsFiniteSet(Listed)
    BY ListsAssumption, FS_Subset DEF Listed
  <1>5. /\ Listed' = Listed /\ (Apart' <=> Apart) /\ \A s : Arranged(s)' <=> Arranged(s)
    BY <1>1 DEF Listed, Apart, Arranged, Precedes
  <1>6. page \in Nat
    BY <1>2 DEF WalkInv, PagedWalk
  <1>7. ASSUME NEW s, Arranged(s), stage' = "walked" PROVE Len(s) <= page * Limit
    <2>1. Len(s) = Cardinality(Listed) /\ Len(s) \in Nat
      BY <1>4, <1>7, SeqsOfSet DEF Arranged
    <2>2. ~(page < totalPages(Len(s)))
      BY <1>1, <1>3, <1>7, <2>1
    <2> QED
      BY <1>6, <2>1, <2>2, LastPage
  <1>8. stage' \in {"paging", "walked"}
    BY <1>1
  <1>9. PagedWalk'
    <2>1. touched = {} /\ Apart =>
             \E s \in SetToSeqs(Listed) : Arranged(s) /\ seen = SubSeq(s, 1, UpTo(page * Limit, Len(s)))
      BY <1>0, <1>2 DEF WalkInv, PagedWalk
    <2> QED
      BY <1>1, <1>5, <1>6, <1>7, <1>8, <2>1 DEF PagedWalk
  <1>10. CursorWalk' /\ DetailWalk'
    BY <1>1, <1>2, <1>8 DEF CursorWalk, DetailWalk
  <1> QED
    BY <1>0, <1>1, <1>9, <1>10 DEF WalkInv

\* A row and its neighbours.
LEMMA OpenDetailKeepsWalk ==
    ASSUME WalkInv, NEW kinds, kinds \subseteq DetailLists, NEW i \in Ids, OpenDetail(kinds, i)
    PROVE  WalkInv'
  <1>0. /\ list \in CursorKinds \cup PagedKinds /\ q \in Queries(list) /\ Table(list, table) /\ seen \in Seq(Ids)
        /\ list \in DetailLists /\ stage = "idle" /\ prev = Unknown /\ next = Unknown
    BY DEF WalkInv, OpenDetail, DetailWalk
  <1>1. /\ read' = [id |-> i, key |-> table[i].key, second |-> table[i].second]
        /\ stage' = "filter"
        /\ list' = list /\ q' = q /\ table' = table /\ touched' = touched /\ cursor' = cursor
        /\ page' = page /\ seen' = seen /\ prev' = prev /\ next' = next
    BY DEF OpenDetail
  <1>2. table[i].facet # Absent
    <2>1. CASE list \in PostLists
      BY <2>1 DEF OpenDetail
    <2>2. CASE list \notin PostLists
      BY <1>0, <2>2 DEF OpenDetail, DetailWhere, Absent, DetailLists
    <2> QED
      BY <2>1, <2>2
  <1>3. RowAt(list, table, i)
    BY <1>0, <1>2, PresentIsRow
  <1>4. DetailWalk'
    BY <1>0, <1>1, <1>3 DEF DetailWalk, At
  <1>5. Listed' = Listed /\ Kept' = Kept /\ \A j : Sees(j)' <=> Sees(j)
    BY <1>1 DEF Listed, Kept, Sees
  <1>6. CursorWalk'
    BY <1>0, <1>1, <1>5 DEF WalkInv, CursorWalk
  <1>7. PagedWalk'
    BY <1>0, <1>1 DEF WalkInv, PagedWalk
  <1> QED
    BY <1>0, <1>1, <1>4, <1>6, <1>7 DEF WalkInv

\* While a row is looked at, no list is read.
LEMMA DetailStepLists ==
    ASSUME WalkInv, stage \in {"filter", "neighbours"}, stage' \in {"neighbours", "shown"},
           UNCHANGED <<list, q, table, touched, cursor, page, seen>>
    PROVE  CursorWalk' /\ PagedWalk'
  <1>1. Listed' = Listed /\ Kept' = Kept /\ \A j : Sees(j)' <=> Sees(j)
    BY DEF Listed, Kept, Sees
  <1>2. CursorWalk'
    BY <1>1 DEF WalkInv, CursorWalk
  <1> QED
    BY <1>2 DEF WalkInv, PagedWalk

\* Looking whether the row read is in the filter keeps it.
LEMMA InFilterKeepsWalk ==
    ASSUME WalkInv, InFilter
    PROVE  WalkInv'
  <1>0. /\ list \in CursorKinds \cup PagedKinds /\ q \in Queries(list) /\ Table(list, table) /\ seen \in Seq(Ids)
        /\ stage = "filter" /\ prev = Unknown /\ next = Unknown
        /\ list \in DetailLists /\ RowAt(list, table, read.id)
        /\ touched = {} \/ ~Rekeyed(list) => read = At(table, read.id)
    BY DEF WalkInv, InFilter, DetailWalk
  <1>1. /\ IF read.id \in Listed
           THEN stage' = "neighbours" /\ prev' = prev /\ next' = next
           ELSE stage' = "shown" /\ prev' = 0 /\ next' = 0
        /\ list' = list /\ q' = q /\ table' = table /\ touched' = touched /\ cursor' = cursor
        /\ page' = page /\ seen' = seen /\ read' = read
    BY <1>0 DEF InFilter, Listed, RowAt
  <1>2. CursorWalk' /\ PagedWalk'
    BY <1>0, <1>1, DetailStepLists
  <1>3. Listed' = Listed
    BY <1>1 DEF Listed
  <1>4. DetailWalk'
    BY <1>0, <1>1, <1>3 DEF DetailWalk, Found, Unknown
  <1> QED
    BY <1>0, <1>1, <1>2, <1>4 DEF WalkInv

\* Looking for a neighbour keeps it.
LEMMA FindNeighbourKeepsWalk ==
    ASSUME WalkInv, FindPrev \/ FindNext
    PROVE  WalkInv'
  <1>0. /\ list \in CursorKinds \cup PagedKinds /\ q \in Queries(list) /\ Table(list, table) /\ seen \in Seq(Ids)
        /\ stage = "neighbours"
        /\ list \in DetailLists /\ RowAt(list, table, read.id)
        /\ touched = {} \/ ~Rekeyed(list) => read = At(table, read.id)
        /\ touched = {} => read.id \in Listed
        /\ prev # Unknown => Found(TRUE, prev)
        /\ next # Unknown => Found(FALSE, next)
    BY DEF WalkInv, DetailWalk, FindPrev, FindNext
  <1> DEFINE p == Neighbour("prev", list, q, read, table)
             n == Neighbour("next", list, q, read, table)
  <1>1. /\ list' = list /\ q' = q /\ table' = table /\ touched' = touched /\ cursor' = cursor
        /\ page' = page /\ seen' = seen /\ read' = read
    BY DEF FindPrev, FindNext
  <1>2. ASSUME touched = {} \/ ~Rekeyed(list)
        PROVE  p # Unknown /\ n # Unknown /\ Found(TRUE, p) /\ Found(FALSE, n)
    <2> DEFINE before == {i \in Listed : Precedes(i, read.id)}
               after == {i \in Listed : Precedes(read.id, i)}
    <2>1. Beside(list, q, table, read.id)
      BY <1>0, NeighbourIsBeside
    <2>2. Shown(list, q, table) = Listed
      BY DEF Shown, Listed
    <2>3. /\ IF before = {} THEN p = 0 ELSE p \in before /\ \A j \in before \ {p} : Precedes(j, p)
          /\ IF after = {} THEN n = 0 ELSE n \in after /\ \A j \in after \ {n} : Precedes(n, j)
      BY <1>0, <1>2, <2>1, <2>2 DEF Beside, Precedes
    <2>4. LastOf(p, before) /\ FirstOf(n, after)
      BY <2>3 DEF LastOf, FirstOf
    <2>5. (p # 0 => p \in before) /\ (n # 0 => n \in after)
      BY <2>3
    <2>6. \A i \in Listed : RowAt(list, table, i)
      BY <1>0, <2>2, ShownIsRow
    <2>7. p # Unknown /\ n # Unknown
      <3>1. (p = 0 \/ p \in Nat) /\ (n = 0 \/ n \in Nat)
        BY <2>5, ListsAssumption DEF Listed
      <3> QED
        BY <3>1 DEF Unknown
    <2>8. Found(TRUE, p)
      BY <1>0, <2>4, <2>5, <2>6 DEF Found
    <2>9. Found(FALSE, n)
      BY <1>0, <2>4, <2>5, <2>6 DEF Found
    <2> QED
      BY <2>7, <2>8, <2>9
  <1>3. Listed' = Listed
    BY <1>1 DEF Listed
  <1>k. ASSUME NEW b \in BOOLEAN, NEW i, Found(b, i)
        PROVE  (prev' = i => Found(b, prev)') /\ (next' = i => Found(b, next)')
    BY <1>1, <1>3, <1>k DEF Found, Precedes, LastOf, FirstOf
  <1>4. stage' \in {"neighbours", "shown"}
    BY <1>0 DEF FindPrev, FindNext
  <1>5. CursorWalk' /\ PagedWalk'
    BY <1>0, <1>1, <1>4, DetailStepLists
  \* Of a list that changes its order while it is read nothing is said.
  <1>6. ASSUME NEW b \in BOOLEAN, NEW i, touched # {}, Rekeyed(list) PROVE Found(b, i)
    BY <1>6 DEF Found
  <1>7. CASE FindPrev
    <2>1. prev = Unknown /\ prev' = p /\ next' = next /\ stage' = IF next = Unknown THEN stage ELSE "shown"
      BY <1>7 DEF FindPrev
    <2>2. Found(TRUE, p)
      BY <1>2, <1>6
    <2>3. (prev' # Unknown => Found(TRUE, prev)') /\ (next' # Unknown => Found(FALSE, next)')
      BY <1>0, <1>k, <2>1, <2>2
    <2>4. touched = {} \/ ~Rekeyed(list) => (stage' = "shown" => prev' # Unknown /\ next' # Unknown)
      BY <1>0, <1>2, <2>1
    <2>5. DetailWalk'
      BY <1>0, <1>1, <1>3, <1>4, <2>3, <2>4 DEF DetailWalk
    <2> QED
      BY <1>0, <1>1, <1>5, <2>5 DEF WalkInv
  <1>8. CASE FindNext
    <2>1. next = Unknown /\ next' = n /\ prev' = prev /\ stage' = IF prev = Unknown THEN stage ELSE "shown"
      BY <1>8 DEF FindNext
    <2>2. Found(FALSE, n)
      BY <1>2, <1>6
    <2>3. (prev' # Unknown => Found(TRUE, prev)') /\ (next' # Unknown => Found(FALSE, next)')
      BY <1>0, <1>k, <2>1, <2>2
    <2>4. touched = {} \/ ~Rekeyed(list) => (stage' = "shown" => prev' # Unknown /\ next' # Unknown)
      BY <1>0, <1>2, <2>1
    <2>5. DetailWalk'
      BY <1>0, <1>1, <1>3, <1>4, <2>3, <2>4 DEF DetailWalk
    <2> QED
      BY <1>0, <1>1, <1>5, <2>5 DEF WalkInv
  <1> QED
    BY <1>7, <1>8

\* Closing the list keeps it.
LEMMA CloseKeepsWalk ==
    ASSUME WalkInv, Close
    PROVE  WalkInv'
  <1>0. list \in CursorKinds \cup PagedKinds /\ q \in Queries(list) /\ Table(list, table)
    BY DEF WalkInv
  <1>1. /\ stage' = "idle" /\ cursor' = NoCursor /\ page' = 0 /\ seen' = <<>>
        /\ prev' = Unknown /\ next' = Unknown
        /\ list' = list /\ q' = q /\ table' = table
    BY DEF Close
  <1>2. seen' \in Seq(Ids) /\ DOMAIN seen' = {}
    BY <1>1
  <1>3. CursorWalk'
    BY <1>1, <1>2 DEF CursorWalk, Sees
  <1>4. PagedWalk' /\ DetailWalk'
    BY <1>1 DEF PagedWalk, DetailWalk
  <1> QED
    BY <1>0, <1>1, <1>2, <1>3, <1>4 DEF WalkInv

\* Every step keeps it, a write by somebody else included.
LEMMA WalkNextInv ==
    ASSUME WalkInv, [WalkNext]_walkVars
    PROVE  WalkInv'
  <1>1. CASE UNCHANGED walkVars
    <2>1. /\ list' = list /\ q' = q /\ table' = table /\ touched' = touched /\ cursor' = cursor
          /\ stage' = stage /\ page' = page /\ seen' = seen /\ read' = read /\ prev' = prev /\ next' = next
      BY <1>1 DEF walkVars
    <2>2. CursorWalk'
      BY <2>1 DEF WalkInv, CursorWalk, Kept, Listed, Sees
    <2>3. PagedWalk'
      BY <2>1 DEF WalkInv, PagedWalk, Listed, Apart, Arranged, Precedes
    <2>4. DetailWalk'
      BY <2>1 DEF WalkInv, DetailWalk, Found, Listed, Precedes, LastOf, FirstOf
    <2> QED
      BY <2>1, <2>2, <2>3, <2>4 DEF WalkInv
  <1>2. ASSUME NEW i \in Ids, Change(i) PROVE WalkInv'
    BY <1>2, ChangeKeepsWalk
  <1>3. ASSUME NEW kinds, kinds \subseteq DetailLists, NEW i \in Ids, OpenDetail(kinds, i) PROVE WalkInv'
    BY <1>3, OpenDetailKeepsWalk
  <1>4. ASSUME NEW i \in Ids,
               \/ getEstimateRequestDetail(i) \/ getCompletedRequestDetail(i) \/ getAdminReviewDetail(i)
               \/ getAdminMemberDetail(i) \/ getAdminChatDetail(i) \/ getAdminReportDetail(i)
               \/ getPostNeighbors(i)
        PROVE  WalkInv'
    <2>1. /\ {"requests"} \subseteq DetailLists /\ {"completed"} \subseteq DetailLists
          /\ {"adminReviews"} \subseteq DetailLists /\ {"members"} \subseteq DetailLists
          /\ {"rooms"} \subseteq DetailLists /\ {"reports"} \subseteq DetailLists
          /\ PostLists \subseteq DetailLists
      BY DEF DetailLists, ConsoleLists, DateLists, CreatedAtLists
    <2> QED
      BY <1>3, <1>4, <2>1 DEF getEstimateRequestDetail, getCompletedRequestDetail, getAdminReviewDetail,
           getAdminMemberDetail, getAdminChatDetail, getAdminReportDetail, getPostNeighbors
  <1>5. CASE \/ getPosts \/ getComments \/ getReceivedEstimateRequests \/ getMovers
             \/ getFavoriteMovers \/ getChatMessages \/ getAdminChatMessages \/ getCustomerPastQuotes
    <2>1. /\ PostLists \subseteq CursorKinds /\ {"comments"} \subseteq CursorKinds
          /\ RequestLists \subseteq CursorKinds /\ MoverLists \subseteq CursorKinds
          /\ {"favorites"} \subseteq CursorKinds /\ {"messages"} \subseteq CursorKinds
          /\ {"adminMessages"} \subseteq CursorKinds /\ {"pastRequests"} \subseteq CursorKinds
      BY DEF CursorKinds, MessageLists
    <2>2. ASSUME NEW kinds, kinds \subseteq CursorKinds, GetPage(kinds) PROVE WalkInv'
      BY <2>2, GetPageKeepsWalk
    <2> QED
      BY <1>5, <2>1, <2>2 DEF getPosts, getComments, getReceivedEstimateRequests, getMovers, getFavoriteMovers,
           getChatMessages, getAdminChatMessages, getCustomerPastQuotes
  <1>6. CASE \/ getEstimateRequestList \/ getCompletedList \/ getAdminReviewList
             \/ getAdminMemberList \/ getAdminChatList \/ getAdminReportList
             \/ getMoverReviews \/ getCustomerReviews \/ getCustomerWritableQuotes \/ getQuotes
    <2>1. {"requests", "completed", "adminReviews", "members", "rooms", "reports",
           "moverReviews", "customerReviews", "writableQuotes", "sentQuotes"} \subseteq PagedKinds
      BY DEF PagedKinds, ConsoleLists, DateLists, CreatedAtLists, OwnLists
    <2>2. ASSUME NEW kind \in PagedKinds, FindMany(kind) PROVE WalkInv'
      BY <2>2, FindManyKeepsWalk
    <2> QED
      BY <1>6, <2>1, <2>2 DEF getEstimateRequestList, getCompletedList, getAdminReviewList, getAdminMemberList,
           getAdminChatList, getAdminReportList, getMoverReviews, getCustomerReviews,
           getCustomerWritableQuotes, getQuotes
  <1>7. CASE Count \/ InFilter \/ FindPrev \/ FindNext \/ Close
    BY <1>7, CountKeepsWalk, InFilterKeepsWalk, FindNeighbourKeepsWalk, CloseKeepsWalk
  <1> QED
    BY <1>1, <1>2, <1>4, <1>5, <1>6, <1>7 DEF WalkNext

-----------------------------------------------------------------------------
(* What the invariant says of the lists.                                     *)

\* The rows are of their types, and what the reader saw fits its cursor, its
\* pages or the row it reads, throughout.
THEOREM WalkInvHolds == WalkSpec => []WalkInv
  <1>1. WalkInv /\ [WalkNext]_walkVars => WalkInv'
    BY WalkNextInv
  <1> QED
    BY <1>1, WalkInitInv, PTL DEF WalkSpec

\* At the end of a walk the rows that were kept have been seen, in order.
LEMMA InvSeesKept == WalkInv => WalkSeesKept
  <1> SUFFICES ASSUME WalkInv, list \in CursorKinds PROVE WalkSeesKept
    BY DEF WalkSeesKept
  <1>0. /\ \A i \in Kept :
              Sees(i) <=> \/ stage = "walked"
                          \/ stage = "paging" /\ ~Follows(list, Mark(list, table, cursor), At(table, i))
        /\ \A m, n \in DOMAIN seen :
              m < n /\ {seen[m], seen[n]} \subseteq Kept => Follows(list, At(table, seen[m]), At(table, seen[n]))
        /\ stage = "paging" => Fits(list, q.filter, table, cursor)
    BY DEF WalkInv, CursorWalk
  <1>1. \A i \in Listed : RowAt(list, table, i) /\ At(table, i) \in Marks
    <2>1. Listed = Shown(list, q, table)
      BY DEF Listed, Shown
    <2> QED
      BY <2>1, ShownIsRow, RowMarks DEF WalkInv
  <1>2. \A a, b \in Listed : Precedes(a, b) <=> Follows(list, At(table, a), At(table, b))
    BY <1>1, CursorOrderFollows DEF Precedes, Before
  <1>3. Kept \subseteq Listed
    BY DEF Kept
  <1>4. stage = "paging" => Mark(list, table, cursor) \in Marks
    <2>1. Listed = OnList(list, q.filter, table)
      BY DEF Listed, OnList, Where
    <2> QED
      BY <1>0, <1>1, <2>1 DEF Fits, Mark
  <1> DEFINE met == {n \in DOMAIN seen : seen[n] \in Kept}
  <1>5. \A m, n \in met : m < n => Precedes(seen[m], seen[n])
    BY <1>0, <1>2, <1>3
  <1>6. ASSUME NEW i \in Kept, stage = "walked" \/ \E n \in met : Precedes(i, seen[n])
        PROVE  \E n \in met : seen[n] = i
    <2>1. CASE stage = "walked"
      BY <1>0, <2>1 DEF Sees
    <2>2. CASE stage # "walked"
      <3>1. PICK n \in met : Precedes(i, seen[n])
        BY <1>6, <2>2
      <3>2. Sees(seen[n]) /\ seen[n] \in Kept
        BY DEF Sees
      <3>3. stage = "paging" /\ ~Follows(list, Mark(list, table, cursor), At(table, seen[n]))
        BY <1>0, <2>2, <3>2
      <3>4. Follows(list, At(table, i), At(table, seen[n]))
        BY <1>2, <1>3, <3>1, <3>2
      <3>5. /\ Mark(list, table, cursor) \in Marks /\ At(table, i) \in Marks /\ At(table, seen[n]) \in Marks
        BY <1>1, <1>3, <1>4, <3>2, <3>3
      <3>6. ~Follows(list, Mark(list, table, cursor), At(table, i))
        BY <3>3, <3>4, <3>5, FollowsOrders
      <3> QED
        BY <1>0, <3>3, <3>6 DEF Sees
    <2> QED
      BY <2>1, <2>2
  <1> QED
    BY <1>5, <1>6 DEF WalkSeesKept

\* After the last page of a list nobody touched, the pages are the list.
LEMMA InvPages == WalkInv => PagesAreTheList
  <1> SUFFICES ASSUME WalkInv, list \in PagedKinds, stage = "walked", touched = {}, Apart
               PROVE  /\ seen \in SetToSeqs(Listed)
                      /\ \A m, n \in DOMAIN seen : m < n => Precedes(seen[m], seen[n])
    BY DEF PagesAreTheList, Apart
  <1>1. PICK s : /\ Arranged(s)
                 /\ seen = SubSeq(s, 1, UpTo(page * Limit, Len(s)))
                 /\ Len(s) <= page * Limit
    BY DEF WalkInv, PagedWalk
  <1>2. s \in Seq(Listed) /\ Len(s) \in Nat
    <2>1. IsFiniteSet(Listed)
      BY ListsAssumption, FS_Subset DEF Listed
    <2> QED
      BY <1>1, <2>1, SeqsOfSet DEF Arranged
  <1>3. page * Limit \in Nat
    BY ListsAssumption DEF WalkInv, PagedWalk
  <1>4. UpTo(page * Limit, Len(s)) = Len(s)
    BY <1>1, <1>2, <1>3 DEF UpTo
  <1>5. seen = s
    BY <1>1, <1>2, <1>4, SubSeqFull
  <1> QED
    BY <1>1, <1>5 DEF Arranged

\* The neighbours a detail page shows are the rows next to it.
LEMMA InvNeighbours == WalkInv => NeighboursAdjacent
  <1> SUFFICES ASSUME WalkInv, stage = "shown" PROVE NeighboursAdjacent
    BY DEF NeighboursAdjacent
  <1>1. touched = {} \/ ~Rekeyed(list) => Found(TRUE, prev) /\ Found(FALSE, next)
    BY DEF WalkInv, DetailWalk
  <1> QED
    BY <1>1 DEF NeighboursAdjacent, Found

\* A reader with a cursor sees every row that stayed as it was, once and in
\* order, whatever the others do.
THEOREM WalkSeesKeptHolds == WalkSpec => []WalkSeesKept
  BY WalkInvHolds, InvSeesKept, PTL

\* The numbered pages of a list that stands still are the list.
THEOREM PagesAreTheListHolds == WalkSpec => []PagesAreTheList
  BY WalkInvHolds, InvPages, PTL

\* The neighbours shown for a row are the ones next to it.
THEOREM NeighboursAdjacentHolds == WalkSpec => []NeighboursAdjacent
  BY WalkInvHolds, InvNeighbours, PTL

(***************************************************************************)
(* The board.  A transaction that is about to change a count holds the rows*)
(* it counts (RowsHeld), so nobody else counts them too, and every reply is*)
(* a comment of its thread's post (RowsPlaced).                            *)
(***************************************************************************)
USE MaxCommentsAssumption, FiniteAssumption, NoneIsNobody

\* What is counted is finite.
LEMMA CountedFinite ==
    ASSUME NEW x
    PROVE  IsFiniteSet(LiveComments(x)) /\ IsFiniteSet(LikesOf(x))
  <1>1. IsFiniteSet(Comments)
    BY FS_Interval DEF Comments
  <1>2. LiveComments(x) \in SUBSET Comments /\ LikesOf(x) \in SUBSET Users
    BY DEF LiveComments, LikesOf
  <1> QED
    BY <1>1, <1>2, FS_Subset

\* The invariant holds on an empty board.
LEMMA InitInv == Init => Inv
  <1> SUFFICES ASSUME Init PROVE Inv
    OBVIOUS
  <1>1. TypeOK
    BY DEF Init, TypeOK, NoComment, Blank
  <1>2. RowsHeld /\ RowsPlaced
    BY DEF Init, RowsHeld, RowsPlaced, NoComment
  <1>3. CountsFresh /\ CommentCountExact /\ LikeCountExact
    BY DEF Init, CountsFresh, CommentCountExact, LikeCountExact
  <1> QED
    BY <1>1, <1>2, <1>3 DEF Inv

\* The steps keep their types: where a request goes, and what else it changes.
States == {"idle", "complete", "insert", "parent", "delete", "decrement",
           "like", "insertLike", "unlike", "decrementLike"}

\* What a request may hold.
Requests == [post : Posts \cup {None}, user : Users \cup {None},
             comment : Comments \cup {None}, rows : SUBSET Comments]

\* What the database keeps, its types, and the types of the requests in flight.
Data == <<post, completed, row, written, likes, counts>>

\* The type of what is stored.
DataType ==
    /\ post \in [Posts -> {"none", "live", "gone"}]
    /\ completed \subseteq Posts
    /\ row \in [Comments -> [post : Posts \cup {None}, parent : Comments \cup {None},
                             live : BOOLEAN]]
    /\ written \in 0 .. MaxComments
    /\ likes \subseteq Posts \X Users
    /\ commentCount \in [Posts -> Int]
    /\ likeCount \in [Posts -> Int]

\* The type of what is in flight.
ControlType ==
    /\ lock \in [Held -> Procs \cup {None}]
    /\ pc \in [Procs -> States]
    /\ req \in [Procs -> Requests]

\* The type invariant is these two.
LEMMA TypeParts == TypeOK <=> DataType /\ ControlType
  BY DEF TypeOK, DataType, ControlType, States, Requests

\* A request that goes on keeps the types, if what it holds next has its type.
LEMMA GotoType ==
    ASSUME ControlType, NEW p \in Procs, NEW s \in States, NEW r \in Requests,
           Goto(p, s, r), lock' \in [Held -> Procs \cup {None}]
    PROVE  ControlType'
  BY DEF ControlType, Goto

\* An answer keeps the types.
LEMMA ReturnType ==
    ASSUME ControlType, NEW p \in Procs, Return(p)
    PROVE  ControlType'
  <1>1. lock' \in [Held -> Procs \cup {None}]
    BY DEF ControlType, Return
  <1>2. Blank \in Requests /\ "idle" \in States
    BY DEF Blank, Requests, States
  <1> QED
    BY <1>1, <1>2, GotoType DEF Return

\* So does taking rows.
LEMMA HoldType ==
    ASSUME ControlType, NEW p \in Procs, NEW S, Hold(p, S)
    PROVE  lock' \in [Held -> Procs \cup {None}]
  BY DEF ControlType, Hold

\* Every step keeps the types of what is in flight.
LEMMA ControlInv ==
    ASSUME Inv, NEW p \in Procs, Step(p)
    PROVE  ControlType'
  <1>0. /\ ControlType /\ DataType
        /\ lock \in [Held -> Procs \cup {None}]
        /\ req[p] \in Requests /\ pc[p] \in States
    BY TypeParts DEF Inv, ControlType
  <1>1. CASE createPost(p) \/ softDeletePost(p)
    BY <1>0, <1>1 DEF createPost, softDeletePost, ControlType
  <1>3. CASE findPostForComplete(p) \/ createComment(p)
    <2>1. PICK x \in Posts :
            Goto(p, "complete", [Blank EXCEPT !.post = x]) \/ Goto(p, "insert", [Blank EXCEPT !.post = x])
      BY <1>3 DEF findPostForComplete, createComment
    <2>2. [Blank EXCEPT !.post = x] \in Requests /\ {"complete", "insert"} \subseteq States
      BY DEF Blank, Requests, States
    <2> QED
      BY <1>0, <1>3, <2>1, <2>2, GotoType DEF findPostForComplete, createComment
  <1>6. CASE createReply(p)
    <2>1. PICK c \in Comments : /\ findCommentById(c)
                                /\ Goto(p, "parent", [Blank EXCEPT !.post = row[c].post, !.comment = c])
      BY <1>6 DEF createReply
    <2>2. [Blank EXCEPT !.post = row[c].post, !.comment = c] \in Requests /\ "parent" \in States
      BY <1>0 DEF Blank, Requests, States, DataType
    <2> QED
      BY <1>0, <1>6, <2>1, <2>2, GotoType DEF createReply
  <1>9. CASE deleteComment(p)
    <2>1. PICK c \in Comments : Goto(p, "delete", [Blank EXCEPT !.post = row[c].post, !.comment = c])
      BY <1>9 DEF deleteComment
    <2>2. [Blank EXCEPT !.post = row[c].post, !.comment = c] \in Requests /\ "delete" \in States
      BY <1>0 DEF Blank, Requests, States, DataType
    <2> QED
      BY <1>0, <1>9, <2>1, <2>2, GotoType DEF deleteComment
  <1>12. CASE LikeWanted(p)
    <2>1. PICK x \in Posts, u \in Users, s \in {"like", "unlike"} :
            Goto(p, s, [Blank EXCEPT !.post = x, !.user = u])
      BY <1>12 DEF LikeWanted
    <2>2. [Blank EXCEPT !.post = x, !.user = u] \in Requests /\ s \in States
      BY DEF Blank, Requests, States
    <2> QED
      BY <1>0, <1>12, <2>1, <2>2, GotoType DEF LikeWanted
  <1>7. CASE ParentInTransaction(p)
    <2>1. CASE Return(p)
      BY <1>0, <2>1, ReturnType
    <2>2. CASE Goto(p, "insert", req[p]) /\ UNCHANGED lock
      <3>1. "insert" \in States
        BY DEF States
      <3> QED
        BY <1>0, <2>2, <3>1, GotoType
    <2> QED
      BY <1>7, <2>1, <2>2 DEF ParentInTransaction
  <1>10. CASE softDeleteComment(p)
    <2>1. CASE Return(p)
      BY <1>0, <2>1, ReturnType
    <2>2. CASE /\ Hold(p, {"comment"} \X Thread(req[p].comment))
               /\ Goto(p, "decrement", [req[p] EXCEPT !.rows = Thread(req[p].comment)])
      <3>1. Thread(req[p].comment) \subseteq Comments
        BY DEF Thread
      <3>2. [req[p] EXCEPT !.rows = Thread(req[p].comment)] \in Requests /\ "decrement" \in States
        BY <1>0, <3>1 DEF Requests, States
      <3> QED
        BY <1>0, <2>2, <3>2, HoldType, GotoType
    <2> QED
      BY <1>10, <2>1, <2>2 DEF softDeleteComment
  <1>13. CASE createLike(p)
    <2>1. CASE Return(p)
      BY <1>0, <2>1, ReturnType
    <2>2. CASE Hold(p, {<<"post", req[p].post>>}) /\ Goto(p, "insertLike", req[p])
      <3>1. "insertLike" \in States
        BY DEF States
      <3> QED
        BY <1>0, <2>2, <3>1, HoldType, GotoType
    <2> QED
      BY <1>13, <2>1, <2>2 DEF createLike
  <1>15. CASE deleteLike(p)
    <2>1. CASE Return(p)
      BY <1>0, <2>1, ReturnType
    <2>2. CASE /\ Hold(p, {<<"like", <<req[p].post, req[p].user>>>>})
               /\ Goto(p, "decrementLike", req[p])
      <3>1. "decrementLike" \in States
        BY DEF States
      <3> QED
        BY <1>0, <2>2, <3>1, HoldType, GotoType
    <2> QED
      BY <1>15, <2>1, <2>2 DEF deleteLike
  <1>17. CASE \/ completePost(p) \/ insertComment(p) \/ decrementCommentCount(p)
              \/ insertLike(p) \/ decrementLikeCount(p) \/ Rollback(p)
    <2>1. Return(p)
      BY <1>17 DEF completePost, insertComment, decrementCommentCount, insertLike,
                   decrementLikeCount, Rollback
    <2> QED
      BY <1>0, <2>1, ReturnType
  <1> QED
    BY <1>1, <1>3, <1>6, <1>7, <1>9, <1>10, <1>12, <1>13, <1>15, <1>17 DEF Step

\* A request in another's step stays where it is and keeps its rows.
LEMMA OthersKeep ==
    ASSUME Inv, NEW p \in Procs, NEW o \in Procs \ {p}, Step(p)
    PROVE  /\ pc'[o] = pc[o] /\ req'[o] = req[o]
           /\ \A k \in Held : lock[k] = o => lock'[k] = o
  <1>0. ControlType
    BY TypeParts DEF Inv
  <1>1. pc'[o] = pc[o] /\ req'[o] = req[o]
    BY <1>0 DEF ControlType, Step, createPost, softDeletePost, findPostForComplete,
       completePost, createComment, createReply, ParentInTransaction, insertComment,
       deleteComment, softDeleteComment, decrementCommentCount, LikeWanted, createLike,
       insertLike, deleteLike, decrementLikeCount, Rollback, Goto, Return
  <1>2. ASSUME NEW k \in Held, lock[k] = o PROVE lock'[k] = o
    <2>1. CASE Return(p) \/ lock' = lock
      BY <1>0, <1>2, <2>1 DEF ControlType, Return
    <2>2. ASSUME NEW S, Hold(p, S), \A s \in S : Free(p, s) PROVE lock'[k] = o
      <3>1. k \notin S
        BY <1>2, <2>2 DEF Free
      <3> QED
        BY <1>2, <2>2, <3>1 DEF Hold
    <2>3. CASE softDeleteComment(p)
      <3>1. CASE Return(p)
        BY <2>1, <3>1
      <3>2. CASE Hold(p, {"comment"} \X Thread(req[p].comment))
        <4>1. \A s \in {"comment"} \X Thread(req[p].comment) : Free(p, s)
          BY <2>3 DEF softDeleteComment
        <4> QED
          BY <2>2, <3>2, <4>1
      <3> QED
        BY <2>3, <3>1, <3>2 DEF softDeleteComment
    <2>4. CASE createLike(p)
      <3>1. CASE Return(p)
        BY <2>1, <3>1
      <3>2. CASE Hold(p, {<<"post", req[p].post>>})
        <4>1. \A s \in {<<"post", req[p].post>>} : Free(p, s)
          BY <2>4 DEF createLike
        <4> QED
          BY <2>2, <3>2, <4>1
      <3> QED
        BY <2>4, <3>1, <3>2 DEF createLike
    <2>5. CASE deleteLike(p)
      <3>1. CASE Return(p)
        BY <2>1, <3>1
      <3>2. CASE Hold(p, {<<"like", <<req[p].post, req[p].user>>>>})
        <4>1. \A s \in {<<"like", <<req[p].post, req[p].user>>>>} : Free(p, s)
          BY <2>5 DEF deleteLike
        <4> QED
          BY <2>2, <3>2, <4>1
      <3> QED
        BY <2>5, <3>1, <3>2 DEF deleteLike
    <2>6. \/ softDeleteComment(p) \/ createLike(p) \/ deleteLike(p)
          \/ Return(p) \/ lock' = lock
      BY DEF Step, createPost, softDeletePost, findPostForComplete,
         completePost, createComment, createReply, ParentInTransaction, insertComment,
         deleteComment, decrementCommentCount, LikeWanted,
         insertLike, decrementLikeCount, Rollback
    <2> QED
      BY <2>1, <2>3, <2>4, <2>5, <2>6
  <1> QED
    BY <1>1, <1>2

\* Posts are written once and never come back; comments keep their post and
\* their parent, and are never alive again.
LEMMA DataMoves ==
    ASSUME Inv, NEW p \in Procs, Step(p)
    PROVE  /\ \A x \in Posts : post[x] # "none" => post'[x] # "none"
           /\ \A x \in Posts : post'[x] = "live" => post[x] # "gone"
           /\ \A c \in Comments : row[c].post # None =>
                 /\ row'[c].post = row[c].post
                 /\ row'[c].parent = row[c].parent
                 /\ row'[c].live => row[c].live
  <1>0. DataType
    BY TypeParts DEF Inv
  <1>1. CASE createPost(p) \/ softDeletePost(p)
    BY <1>0, <1>1 DEF DataType, createPost, softDeletePost, findPostOwner
  <1>2. CASE insertComment(p)
    <2>1. post' = post
      BY <1>2 DEF insertComment
    <2>2. \A c \in Comments : row[c].post # None => row'[c] = row[c]
      <3>1. \A c \in Comments : row[c].post # None => c # written + 1
        <4>1. written \in Nat /\ written + 1 > written /\ Comments \subseteq Nat
          BY <1>0 DEF DataType, Comments
        <4> QED
          BY <4>1 DEF Inv, RowsPlaced, NoComment
      <3>2. row' = row \/ \E v : row' = [row EXCEPT ![written + 1] = v]
        BY <1>2 DEF insertComment
      <3> QED
        BY <1>0, <3>1, <3>2 DEF DataType
    <2> QED
      BY <2>1, <2>2
  <1>3. CASE decrementCommentCount(p)
    BY <1>0, <1>3 DEF DataType, decrementCommentCount
  <1>4. CASE post' = post /\ row' = row
    BY <1>4
  <1> QED
    BY <1>1, <1>2, <1>3, <1>4 DEF Step, findPostForComplete,
       completePost, createComment, createReply, ParentInTransaction,
       deleteComment, softDeleteComment, LikeWanted, createLike, insertLike,
       deleteLike, decrementLikeCount, Rollback

\* A row that another request holds does not change.
LEMMA HeldStays ==
    ASSUME Inv, NEW p \in Procs, NEW o \in Procs \ {p}, Step(p)
    PROVE  /\ \A c \in Comments :
                 lock[<<"comment", c>>] = o /\ row[c].live => row'[c] = row[c]
           /\ \A x \in Posts :
                 lock[<<"post", x>>] = o /\ post[x] = "live" => post'[x] = "live"
           /\ \A k \in likes : lock[<<"like", k>>] = o => k \in likes'
  <1>0. DataType /\ RowsHeld
    BY TypeParts DEF Inv
  <1>1. CASE createPost(p)
    BY <1>0, <1>1 DEF DataType, createPost
  <1>2. CASE softDeletePost(p)
    BY <1>0, <1>2 DEF DataType, softDeletePost, Free
  <1>3. CASE insertComment(p)
    <2>1. \A c \in Comments : row[c].live => c # written + 1
      <3>1. written \in Nat /\ written + 1 > written /\ Comments \subseteq Nat
        BY <1>0 DEF DataType, Comments
      <3> QED
        BY <3>1 DEF Inv, RowsPlaced, NoComment
    <2>2. \A c \in Comments : row[c].live => row'[c] = row[c]
      <3>1. row' = row \/ \E v : row' = [row EXCEPT ![written + 1] = v]
        BY <1>3 DEF insertComment
      <3> QED
        BY <1>0, <2>1, <3>1 DEF DataType
    <2> QED
      BY <1>3, <2>2 DEF insertComment
  <1>4. CASE decrementCommentCount(p)
    <2>1. \A c \in req[p].rows : lock[<<"comment", c>>] = p
      BY <1>0, <1>4 DEF RowsHeld, decrementCommentCount
    <2>2. \A c \in Comments : lock[<<"comment", c>>] = o => row'[c] = row[c]
      BY <1>4, <2>1 DEF decrementCommentCount
    <2> QED
      BY <1>4, <2>2 DEF decrementCommentCount
  <1>5. CASE decrementLikeCount(p)
    <2>1. lock[<<"like", <<req[p].post, req[p].user>>>>] = p
      BY <1>0, <1>5 DEF RowsHeld, decrementLikeCount
    <2> QED
      BY <1>5, <2>1 DEF decrementLikeCount
  <1>6. CASE post' = post /\ row' = row /\ likes \subseteq likes'
    BY <1>6
  <1> QED
    BY <1>1, <1>2, <1>3, <1>4, <1>5, <1>6 DEF Step, findPostForComplete,
       completePost, createComment, createReply, ParentInTransaction,
       deleteComment, softDeleteComment, LikeWanted, createLike, insertLike,
       deleteLike, Rollback

\* Every step keeps the types of what is stored.
LEMMA DataInv ==
    ASSUME Inv, NEW p \in Procs, Step(p)
    PROVE  DataType'
  <1>0. DataType /\ ControlType
    BY TypeParts DEF Inv
  <1>1. CASE createPost(p)
    BY <1>0, <1>1 DEF DataType, createPost, counts
  <1>2. CASE softDeletePost(p)
    BY <1>0, <1>2 DEF DataType, softDeletePost, counts
  <1>3. CASE completePost(p)
    <2>1. req[p].post \in Posts
      BY <1>3 DEF Inv, RowsHeld, completePost
    <2> QED
      BY <1>0, <1>3, <2>1 DEF DataType, completePost, counts
  <1>4. CASE insertComment(p)
    <2>1. req[p].post \in Posts
      BY <1>4 DEF Inv, RowsHeld, insertComment
    <2>2. [post |-> req[p].post, parent |-> req[p].comment, live |-> TRUE]
             \in [post : Posts \cup {None}, parent : Comments \cup {None}, live : BOOLEAN]
      BY <1>0, <2>1 DEF ControlType, Requests
    <2>3. written < MaxComments => written + 1 \in 0 .. MaxComments
      BY <1>0 DEF DataType
    <2>4. CASE post[req[p].post] = "live"
      <3>1. row' \in [Comments -> [post : Posts \cup {None}, parent : Comments \cup {None},
                                   live : BOOLEAN]]
        BY <1>0, <1>4, <2>2, <2>4 DEF DataType, insertComment
      <3>2. commentCount' \in [Posts -> Int]
        BY <1>0, <1>4, <2>1, <2>4 DEF DataType, insertComment
      <3> QED
        BY <1>0, <1>4, <2>3, <2>4, <3>1, <3>2 DEF DataType, insertComment
    <2>5. CASE post[req[p].post] # "live"
      BY <1>0, <1>4, <2>5 DEF DataType, insertComment
    <2> QED
      BY <2>4, <2>5
  <1>5. CASE decrementCommentCount(p)
    <2>1. Deleted(p) \in Int
      <3>1. req[p].rows \in SUBSET Comments /\ IsFiniteSet(Comments)
        BY <1>0, FS_Interval DEF ControlType, Requests, Comments
      <3> QED
        BY <3>1, FS_Subset, FS_CardinalityType DEF Deleted
    <2>2. commentCount' \in [Posts -> Int]
      <3>1. PICK v : commentCount' = [commentCount EXCEPT ![req[p].post] = v]
                     /\ v \in {commentCount[req[p].post] - Deleted(p), commentCount[req[p].post]}
        BY <1>5 DEF decrementCommentCount
      <3>2. req[p].post \in Posts
        BY <1>5 DEF Inv, RowsHeld, decrementCommentCount
      <3> QED
        BY <1>0, <2>1, <3>1, <3>2 DEF DataType
    <2>3. row' \in [Comments -> [post : Posts \cup {None}, parent : Comments \cup {None},
                                 live : BOOLEAN]]
      BY <1>0, <1>5 DEF DataType, decrementCommentCount
    <2> QED
      BY <1>0, <1>5, <2>2, <2>3 DEF DataType, decrementCommentCount
  <1>6. CASE insertLike(p)
    <2>1. req[p].post \in Posts /\ req[p].user \in Users
      BY <1>6 DEF Inv, RowsHeld, insertLike
    <2> QED
      BY <1>0, <1>6, <2>1 DEF DataType, insertLike
  <1>7. CASE decrementLikeCount(p)
    <2>1. PICK v : likeCount' = [likeCount EXCEPT ![req[p].post] = v]
                   /\ v \in {likeCount[req[p].post] - 1, likeCount[req[p].post]}
      BY <1>7 DEF decrementLikeCount
    <2>2. req[p].post \in Posts
      BY <1>7 DEF Inv, RowsHeld, decrementLikeCount
    <2>3. likeCount' \in [Posts -> Int]
      BY <1>0, <2>1, <2>2 DEF DataType
    <2> QED
      BY <1>0, <1>7, <2>3 DEF DataType, decrementLikeCount
  <1>8. CASE UNCHANGED Data
    BY <1>0, <1>8 DEF DataType, Data, counts
  <1> QED
    BY <1>1, <1>2, <1>3, <1>4, <1>5, <1>6, <1>7, <1>8 DEF Step, Data,
       findPostForComplete, createComment, createReply, ParentInTransaction,
       deleteComment, softDeleteComment, LikeWanted, createLike, deleteLike, Rollback

\* What a request holds, one request at a time.
HoldsRows(o) ==
    LET r == req[o] IN
    /\ pc[o] # "idle" => r.post \in Posts
    /\ pc[o] \in {"like", "insertLike", "unlike", "decrementLike"} => r.user \in Users
    /\ pc[o] \in {"parent", "delete", "decrement"} => r.comment \in Comments
    /\ pc[o] = "decrement" =>
         \A c \in r.rows : /\ lock[<<"comment", c>>] = o
                           /\ row[c].live /\ row[c].post = r.post
    /\ pc[o] = "insertLike" => lock[<<"post", r.post>>] = o /\ post[r.post] = "live"
    /\ pc[o] = "decrementLike" =>
         lock[<<"like", <<r.post, r.user>>>>] = o /\ <<r.post, r.user>> \in likes

\* Another's step takes no row that is held.
LEMMA OthersHold ==
    ASSUME Inv, NEW p \in Procs, NEW o \in Procs \ {p}, Step(p)
    PROVE  HoldsRows(o)'
  <1>0. DataType /\ ControlType /\ HoldsRows(o)
    BY TypeParts DEF Inv, RowsHeld, HoldsRows
  <1>1. pc'[o] = pc[o] /\ req'[o] = req[o] /\ req[o] \in Requests
    BY <1>0, OthersKeep DEF ControlType
  <1>2. ASSUME pc[o] = "decrement", NEW c \in req[o].rows
        PROVE  lock'[<<"comment", c>>] = o /\ row'[c].live /\ row'[c].post = req[o].post
    <2>1. c \in Comments /\ <<"comment", c>> \in Held
      BY <1>1 DEF Requests, Held
    <2>2. lock[<<"comment", c>>] = o /\ row[c].live /\ row[c].post = req[o].post
      BY <1>0, <1>2 DEF HoldsRows
    <2> QED
      BY <2>1, <2>2, OthersKeep, HeldStays
  <1>3. ASSUME pc[o] = "insertLike"
        PROVE  lock'[<<"post", req[o].post>>] = o /\ post'[req[o].post] = "live"
    <2>1. /\ req[o].post \in Posts /\ <<"post", req[o].post>> \in Held
          /\ lock[<<"post", req[o].post>>] = o /\ post[req[o].post] = "live"
      BY <1>0, <1>3 DEF HoldsRows, Held
    <2> QED
      BY <2>1, OthersKeep, HeldStays
  <1>4. ASSUME pc[o] = "decrementLike"
        PROVE  /\ lock'[<<"like", <<req[o].post, req[o].user>>>>] = o
               /\ <<req[o].post, req[o].user>> \in likes'
    <2>1. /\ <<req[o].post, req[o].user>> \in likes
          /\ <<"like", <<req[o].post, req[o].user>>>> \in Held
          /\ lock[<<"like", <<req[o].post, req[o].user>>>>] = o
      BY <1>0, <1>4 DEF HoldsRows, Held
    <2> QED
      BY <2>1, OthersKeep, HeldStays
  <1> QED
    BY <1>0, <1>1, <1>2, <1>3, <1>4 DEF HoldsRows

\* A step leaves its transaction with the rows it is about to count.
LEMMA OwnHolds ==
    ASSUME Inv, NEW p \in Procs, Step(p)
    PROVE  HoldsRows(p)'
  <1>0. DataType /\ ControlType /\ HoldsRows(p)
    BY TypeParts DEF Inv, RowsHeld, HoldsRows
  <1>1. CASE createPost(p) \/ softDeletePost(p)
    <2>1. pc[p] = "idle" /\ pc' = pc
      BY <1>1 DEF createPost, softDeletePost
    <2> QED
      BY <2>1 DEF HoldsRows
  <1>2. CASE Return(p)
    <2>1. pc'[p] = "idle"
      BY <1>0, <1>2 DEF Return, Goto, ControlType
    <2> QED
      BY <2>1 DEF HoldsRows
  <1>3. CASE findPostForComplete(p) \/ createComment(p)
    <2>1. PICK x \in Posts : /\ pc'[p] \in {"complete", "insert"}
                             /\ req'[p].post = x
      BY <1>0, <1>3 DEF findPostForComplete, createComment, Goto, ControlType, Blank
    <2> QED
      BY <2>1 DEF HoldsRows
  <1>4. CASE createReply(p) \/ deleteComment(p)
    <2>1. PICK c \in Comments : /\ findCommentById(c)
                                /\ pc'[p] \in {"parent", "delete"}
                                /\ req'[p].post = row[c].post /\ req'[p].comment = c
      <3>1. CASE createReply(p)
        BY <1>0, <3>1 DEF createReply, Goto, ControlType, Blank
      <3>2. CASE deleteComment(p)
        BY <1>0, <3>2 DEF deleteComment, Goto, ControlType, Blank
      <3> QED
        BY <1>4, <3>1, <3>2
    <2>2. row[c].post \in Posts
      BY <2>1 DEF Inv, RowsPlaced, findCommentById
    <2> QED
      BY <2>1, <2>2 DEF HoldsRows
  <1>5. CASE ParentInTransaction(p) /\ Goto(p, "insert", req[p])
    BY <1>0, <1>5 DEF HoldsRows, ParentInTransaction, Goto, ControlType
  <1>6. CASE softDeleteComment(p) /\ ~Return(p)
    <2>1. /\ pc'[p] = "decrement" /\ row' = row
          /\ req'[p].post = req[p].post /\ req'[p].comment = req[p].comment
          /\ req'[p].rows = Thread(req[p].comment)
          /\ Hold(p, {"comment"} \X Thread(req[p].comment))
      BY <1>0, <1>6 DEF softDeleteComment, Goto, ControlType, Requests
    <2>2. pc[p] = "delete" /\ req[p].post \in Posts /\ req[p].comment \in Comments
      BY <1>0, <1>6 DEF softDeleteComment, HoldsRows
    <2>3. row[req[p].comment].post = req[p].post
      BY <2>2 DEF Inv, RowsPlaced
    <2>4. ASSUME NEW c \in Thread(req[p].comment)
          PROVE  lock'[<<"comment", c>>] = p /\ row[c].live /\ row[c].post = req[p].post
      <3>1. c \in Comments /\ row[c].live /\ row[c].post = req[p].post
        BY <2>2, <2>3, <2>4 DEF Thread, Inv, RowsPlaced
      <3>2. <<"comment", c>> \in Held /\ <<"comment", c>> \in {"comment"} \X Thread(req[p].comment)
        BY <2>4, <3>1 DEF Held
      <3> QED
        BY <2>1, <3>1, <3>2 DEF Hold
    <2> QED
      BY <2>1, <2>2, <2>4 DEF HoldsRows
  <1>7. CASE LikeWanted(p)
    <2>1. PICK x \in Posts, u \in Users : /\ pc'[p] \in {"like", "unlike"}
                                          /\ req'[p].post = x /\ req'[p].user = u
      BY <1>0, <1>7 DEF LikeWanted, Goto, ControlType, Blank
    <2> QED
      BY <2>1 DEF HoldsRows
  <1>8. CASE createLike(p) /\ ~Return(p)
    <2>1. /\ pc'[p] = "insertLike" /\ req'[p] = req[p]
          /\ Hold(p, {<<"post", req[p].post>>}) /\ post' = post
          /\ pc[p] = "like" /\ post[req[p].post] = "live"
      BY <1>0, <1>8 DEF createLike, Goto, ControlType
    <2>2. req[p].post \in Posts /\ req[p].user \in Users
      BY <1>0, <2>1 DEF HoldsRows
    <2>3. lock'[<<"post", req[p].post>>] = p
      <3>1. <<"post", req[p].post>> \in Held
        BY <2>2 DEF Held
      <3> QED
        BY <2>1, <3>1 DEF Hold
    <2> QED
      BY <2>1, <2>2, <2>3 DEF HoldsRows
  <1>9. CASE deleteLike(p) /\ ~Return(p)
    <2>1. /\ pc'[p] = "decrementLike" /\ req'[p] = req[p]
          /\ Hold(p, {<<"like", <<req[p].post, req[p].user>>>>}) /\ likes' = likes
          /\ pc[p] = "unlike" /\ <<req[p].post, req[p].user>> \in likes
      BY <1>0, <1>9 DEF deleteLike, Goto, ControlType
    <2>2. req[p].post \in Posts /\ req[p].user \in Users
      BY <1>0, <2>1 DEF HoldsRows
    <2>3. lock'[<<"like", <<req[p].post, req[p].user>>>>] = p
      <3>1. <<"like", <<req[p].post, req[p].user>>>> \in Held
        BY <2>2 DEF Held
      <3> QED
        BY <2>1, <3>1 DEF Hold
    <2> QED
      BY <2>1, <2>2, <2>3 DEF HoldsRows
  <1> QED
    BY <1>1, <1>2, <1>3, <1>4, <1>5, <1>6, <1>7, <1>8, <1>9 DEF Step, completePost,
       ParentInTransaction, insertComment, decrementCommentCount, insertLike,
       decrementLikeCount, Rollback

\* Every step keeps replies in the post of their thread.
LEMMA PlacedInv ==
    ASSUME Inv, NEW p \in Procs, Step(p)
    PROVE  RowsPlaced'
  <1>0. DataType /\ ControlType /\ RowsHeld /\ RowsPlaced
    BY TypeParts DEF Inv
  <1>1. ASSUME NEW c \in Comments
        PROVE  /\ (c > written => row[c] = NoComment)'
               /\ (row[c].live => row[c].post \in Posts /\ post[row[c].post] # "none")'
    <2>1. CASE insertComment(p) /\ post[req[p].post] = "live"
      <3>1. written \in Nat /\ Comments \subseteq Nat /\ written + 1 \in Comments
        BY <1>0, <2>1 DEF DataType, Comments, insertComment
      <3>2. req[p].post \in Posts
        BY <1>0, <2>1 DEF RowsHeld, insertComment
      <3>3. CASE c = written + 1
        BY <1>0, <2>1, <3>1, <3>2, <3>3 DEF DataType, insertComment
      <3>4. CASE c # written + 1
        <4>1. row'[c] = row[c] /\ written' = written + 1 /\ post' = post
          BY <1>0, <2>1, <3>1, <3>4 DEF DataType, insertComment
        <4> QED
          BY <1>0, <3>1, <4>1 DEF RowsPlaced
      <3> QED
        BY <3>3, <3>4
    <2>2. CASE decrementCommentCount(p)
      <3>1. /\ post' = post /\ written' = written
            /\ row'[c] = row[c] \/ (c \in req[p].rows /\ row'[c] = [row[c] EXCEPT !.live = FALSE])
        BY <2>2 DEF decrementCommentCount
      <3>2. c \in req[p].rows => row[c].live
        BY <1>0, <2>2 DEF RowsHeld, decrementCommentCount
      <3>3. row[c].live \in BOOLEAN
        BY <1>0 DEF DataType
      <3>4. c \in req[p].rows => ~(c > written)
        BY <1>0, <3>2 DEF RowsPlaced, NoComment
      <3>5. CASE row'[c] = row[c]
        BY <1>0, <3>1, <3>5 DEF RowsPlaced
      <3>6. CASE c \in req[p].rows /\ row'[c] = [row[c] EXCEPT !.live = FALSE]
        BY <1>0, <3>1, <3>4, <3>6 DEF DataType
      <3> QED
        BY <3>1, <3>5, <3>6
    <2>3. CASE row' = row /\ written' = written
      BY <1>0, <2>3, DataMoves DEF RowsPlaced
    <2> QED
      BY <2>1, <2>2, <2>3 DEF Step, createPost, softDeletePost, findPostForComplete,
         completePost, createComment, createReply, ParentInTransaction, insertComment,
         deleteComment, softDeleteComment, LikeWanted, createLike,
         insertLike, deleteLike, decrementLikeCount, Rollback
  <1>2. ASSUME NEW c \in Comments, NEW d \in Comments, row'[d].live, row'[d].parent = c
        PROVE  row'[d].post = row'[c].post
    <2>1. CASE insertComment(p) /\ post[req[p].post] = "live" /\ d = written + 1
      <3>1. row'[d] = [post |-> req[p].post, parent |-> req[p].comment, live |-> TRUE]
        BY <1>0, <2>1 DEF DataType, insertComment
      <3>2. req[p].comment = c /\ c # None
        BY <1>2, <3>1
      <3>3. row[c].post = req[p].post /\ req[p].post \in Posts
        BY <1>0, <2>1, <3>2 DEF RowsPlaced, RowsHeld, insertComment
      <3> QED
        BY <3>1, <3>3, DataMoves
    <2>2. CASE row[d].live
      <3>1. row[d].post \in Posts
        BY <1>0, <2>2 DEF RowsPlaced
      <3>2. row'[d].post = row[d].post /\ row[d].parent = c
        BY <1>2, <3>1, DataMoves
      <3>3. row[d].post = row[c].post
        BY <1>0, <2>2, <3>2 DEF RowsPlaced
      <3> QED
        BY <3>1, <3>2, <3>3, DataMoves
    <2>3. CASE insertComment(p) /\ ~(post[req[p].post] = "live" /\ d = written + 1)
      <3>1. row'[d] = row[d]
        BY <1>0, <2>3 DEF DataType, insertComment
      <3> QED
        BY <1>2, <2>2, <3>1
    <2>4. CASE decrementCommentCount(p)
      <3>1. row[d].live
        BY <1>0, <1>2, <2>4 DEF DataType, decrementCommentCount
      <3> QED
        BY <2>2, <3>1
    <2>5. CASE row' = row
      BY <1>2, <2>2, <2>5
    <2> QED
      BY <2>1, <2>3, <2>4, <2>5 DEF Step, createPost, softDeletePost, findPostForComplete,
         completePost, createComment, createReply, ParentInTransaction,
         deleteComment, softDeleteComment, LikeWanted, createLike,
         insertLike, deleteLike, decrementLikeCount, Rollback
  <1>3. ASSUME NEW o \in Procs, pc'[o] \in {"parent", "insert", "delete"}
        PROVE  /\ post'[req'[o].post] # "none"
               /\ req'[o].comment # None => row'[req'[o].comment].post = req'[o].post
    <2>1. CASE /\ pc[o] \in {"parent", "insert", "delete"} /\ req'[o] = req[o]
      <3>1. /\ req[o].post \in Posts /\ post[req[o].post] # "none"
            /\ req[o].comment \in Comments \cup {None}
            /\ req[o].comment # None => row[req[o].comment].post = req[o].post
        BY <1>0, <2>1 DEF RowsPlaced, RowsHeld, ControlType, Requests
      <3> QED
        BY <2>1, <3>1, DataMoves
    <2>2. CASE o # p
      BY <1>3, <2>1, <2>2, OthersKeep
    <2>3. CASE o = p /\ createComment(p)
      <3>1. PICK x \in Posts : post[x] = "live" /\ req'[p].post = x /\ req'[p].comment = None
        BY <1>0, <2>3 DEF createComment, findPostOwner, Goto, ControlType, Blank
      <3> QED
        BY <2>3, <3>1, DataMoves
    <2>4. CASE o = p /\ (createReply(p) \/ deleteComment(p))
      <3>1. PICK c \in Comments : row[c].live /\ req'[p].post = row[c].post /\ req'[p].comment = c
        <4>1. CASE createReply(p)
          BY <1>0, <4>1 DEF createReply, findCommentById, Goto, ControlType, Blank
        <4>2. CASE deleteComment(p)
          BY <1>0, <4>2 DEF deleteComment, findCommentById, Goto, ControlType, Blank
        <4> QED
          BY <2>4, <4>1, <4>2
      <3>2. row[c].post \in Posts /\ post[row[c].post] # "none"
        BY <1>0, <3>1 DEF RowsPlaced
      <3> QED
        BY <2>4, <3>1, <3>2, DataMoves
    <2>5. CASE o = p /\ ParentInTransaction(p)
      <3>1. req'[p] = req[p] /\ pc[p] = "parent"
        BY <1>0, <1>3, <2>5 DEF ParentInTransaction, Return, Goto, ControlType
      <3> QED
        BY <2>1, <2>5, <3>1
    <2>6. CASE o = p /\ (createPost(p) \/ softDeletePost(p))
      <3>1. pc[p] = "idle" /\ pc' = pc
        BY <2>6 DEF createPost, softDeletePost
      <3> QED
        BY <1>3, <2>6, <3>1
    <2>7. CASE o = p /\ \/ Return(p) \/ findPostForComplete(p) \/ softDeleteComment(p)
                        \/ LikeWanted(p) \/ createLike(p) \/ deleteLike(p)
      <3>1. pc'[p] \notin {"parent", "insert", "delete"}
        BY <1>0, <2>7 DEF ControlType, Return, Goto, findPostForComplete, softDeleteComment,
           LikeWanted, createLike, deleteLike
      <3> QED
        BY <1>3, <2>7, <3>1
    <2> QED
      BY <2>2, <2>3, <2>4, <2>5, <2>6, <2>7 DEF Step, completePost,
         insertComment, decrementCommentCount, insertLike, decrementLikeCount, Rollback
  <1>4. ASSUME NEW k \in likes' PROVE post'[k[1]] # "none"
    <2>1. CASE k \in likes
      <3>1. k[1] \in Posts /\ post[k[1]] # "none"
        BY <1>0, <2>1 DEF RowsPlaced, DataType
      <3> QED
        BY <3>1, DataMoves
    <2>2. CASE insertLike(p) /\ k = <<req[p].post, req[p].user>>
      <3>1. post[req[p].post] = "live" /\ post' = post
        BY <1>0, <2>2 DEF RowsHeld, insertLike
      <3> QED
        BY <2>2, <3>1
    <2> QED
      BY <1>4, <2>1, <2>2 DEF Step, createPost, softDeletePost, findPostForComplete,
         completePost, createComment, createReply, ParentInTransaction, insertComment,
         deleteComment, softDeleteComment, decrementCommentCount, LikeWanted, createLike,
         insertLike, deleteLike, decrementLikeCount, Rollback
  <1> QED
    BY <1>1, <1>2, <1>3, <1>4 DEF RowsPlaced

\* A post that was not written has no count.
LEMMA FreshInv ==
    ASSUME Inv, NEW p \in Procs, Step(p)
    PROVE  CountsFresh'
  <1>0. DataType /\ CountsFresh
    BY TypeParts DEF Inv
  <1>1. SUFFICES ASSUME NEW x \in Posts, post'[x] = "none"
                 PROVE  commentCount'[x] = 0 /\ likeCount'[x] = 0
    BY DEF CountsFresh
  <1>2. post[x] = "none" /\ commentCount[x] = 0 /\ likeCount[x] = 0
    BY <1>0, <1>1, DataMoves DEF CountsFresh
  <1>3. CASE insertComment(p)
    BY <1>0, <1>2, <1>3 DEF insertComment, DataType
  <1>4. CASE decrementCommentCount(p)
    BY <1>0, <1>2, <1>4 DEF decrementCommentCount, DataType
  <1>5. CASE insertLike(p)
    <2>1. post[req[p].post] = "live"
      BY <1>5 DEF Inv, RowsHeld, insertLike
    <2> QED
      BY <1>0, <1>2, <1>5, <2>1 DEF insertLike, DataType
  <1>6. CASE decrementLikeCount(p)
    BY <1>0, <1>2, <1>6 DEF decrementLikeCount, DataType
  <1>7. CASE UNCHANGED counts
    BY <1>2, <1>7 DEF counts
  <1> QED
    BY <1>3, <1>4, <1>5, <1>6, <1>7 DEF Step, createPost, softDeletePost,
       findPostForComplete, completePost, createComment, createReply, ParentInTransaction,
       deleteComment, softDeleteComment, LikeWanted, createLike, deleteLike, Rollback

\* Every step keeps the comment count exact.
LEMMA CommentCount ==
    ASSUME Inv, NEW p \in Procs, Step(p)
    PROVE  CommentCountExact'
  <1>0. DataType /\ ControlType /\ RowsHeld /\ RowsPlaced /\ CountsFresh /\ CommentCountExact
    BY TypeParts DEF Inv
  <1>1. SUFFICES ASSUME NEW x \in Posts, post'[x] = "live"
                 PROVE  commentCount'[x] = Cardinality(LiveComments(x)')
    BY DEF CommentCountExact
  <1>2. post[x] \in {"none", "live"}
    BY <1>0, <1>1, DataMoves DEF DataType
  <1>3. CASE post[x] = "none"
    <2>1. row' = row /\ commentCount' = commentCount
      BY <1>0, <1>1, <1>3 DEF Step, createPost, softDeletePost, findPostForComplete,
         completePost, createComment, createReply, ParentInTransaction, insertComment,
         deleteComment, softDeleteComment, decrementCommentCount, LikeWanted, createLike,
         insertLike, deleteLike, decrementLikeCount, Rollback, counts
    <2>2. LiveComments(x)' = {}
      BY <1>0, <1>3, <2>1 DEF LiveComments, RowsPlaced
    <2> QED
      BY <1>0, <1>3, <2>1, <2>2, FS_EmptySet DEF CountsFresh
  <1>4. CASE post[x] = "live"
    <2>0. /\ commentCount[x] = Cardinality(LiveComments(x)) /\ commentCount[x] \in Int
          /\ IsFiniteSet(LiveComments(x))
      BY <1>0, <1>4, CountedFinite DEF CommentCountExact, DataType
    <2>1. CASE insertComment(p) /\ post[req[p].post] = "live"
      <3>0. req[p].post \in Posts
        BY <1>0, <2>1 DEF RowsHeld, insertComment
      <3>1. /\ written \in Nat /\ written + 1 \in Comments /\ written + 1 > written
        BY <1>0, <2>1 DEF DataType, Comments, insertComment
      <3>2. ~row[written + 1].live
        BY <1>0, <3>1 DEF RowsPlaced, NoComment
      <3>3. \A c \in Comments : row'[c] = IF c = written + 1
              THEN [post |-> req[p].post, parent |-> req[p].comment, live |-> TRUE]
              ELSE row[c]
        BY <1>0, <2>1 DEF DataType, insertComment
      <3>4. CASE req[p].post = x
        <4>1. LiveComments(x)' = LiveComments(x) \cup {written + 1}
          BY <3>1, <3>3, <3>4 DEF LiveComments
        <4>2. written + 1 \notin LiveComments(x)
          BY <3>2 DEF LiveComments
        <4>3. commentCount'[x] = commentCount[x] + 1
          BY <1>0, <2>1, <3>4 DEF DataType, insertComment
        <4> QED
          BY <2>0, <4>1, <4>2, <4>3, FS_AddElement
      <3>5. CASE req[p].post # x
        <4>1. LiveComments(x)' = LiveComments(x)
          BY <3>1, <3>2, <3>3, <3>5 DEF LiveComments
        <4>2. commentCount'[x] = commentCount[x]
          BY <1>0, <2>1, <3>5 DEF DataType, insertComment
        <4> QED
          BY <2>0, <4>1, <4>2
      <3> QED
        BY <3>4, <3>5
    <2>2. CASE decrementCommentCount(p)
      <3>1. \A c \in req[p].rows : c \in Comments /\ row[c].live /\ row[c].post = req[p].post
        BY <1>0, <2>2 DEF RowsHeld, decrementCommentCount, ControlType, Requests
      <3>2. /\ \A c \in Comments \ req[p].rows : row'[c] = row[c]
            /\ \A c \in req[p].rows : ~row'[c].live
        BY <1>0, <2>2, <3>1 DEF DataType, decrementCommentCount
      <3>3. LiveComments(x)' = LiveComments(x) \ req[p].rows
        BY <3>1, <3>2 DEF LiveComments
      <3>4. CASE req[p].post = x
        <4>1. LiveComments(x) \cap req[p].rows = req[p].rows
          BY <3>1, <3>4 DEF LiveComments
        <4>2. commentCount'[x] = commentCount[x] - Deleted(p)
          BY <1>0, <1>4, <2>2, <3>4 DEF DataType, decrementCommentCount
        <4>3. Cardinality(LiveComments(x) \ req[p].rows)
                = Cardinality(LiveComments(x)) - Cardinality(LiveComments(x) \cap req[p].rows)
          BY <2>0, FS_Difference
        <4> QED
          BY <2>0, <3>3, <4>1, <4>2, <4>3 DEF Deleted
      <3>5. CASE req[p].post # x
        <4>1. LiveComments(x) \ req[p].rows = LiveComments(x)
          BY <3>1, <3>5 DEF LiveComments
        <4>2. commentCount'[x] = commentCount[x]
          BY <1>0, <2>2, <3>5 DEF DataType, decrementCommentCount
        <4> QED
          BY <2>0, <3>3, <4>1, <4>2
      <3> QED
        BY <3>4, <3>5
    <2>3. CASE row' = row /\ commentCount' = commentCount
      BY <2>0, <2>3 DEF LiveComments
    <2> QED
      BY <2>1, <2>2, <2>3 DEF Step, createPost, softDeletePost, findPostForComplete,
         completePost, createComment, createReply, ParentInTransaction, insertComment,
         deleteComment, softDeleteComment, LikeWanted, createLike,
         insertLike, deleteLike, decrementLikeCount, Rollback, counts
  <1> QED
    BY <1>2, <1>3, <1>4

\* Every step keeps the like count exact.
LEMMA LikeCount ==
    ASSUME Inv, NEW p \in Procs, Step(p)
    PROVE  LikeCountExact'
  <1>0. DataType /\ ControlType /\ RowsHeld /\ RowsPlaced /\ CountsFresh /\ LikeCountExact
    BY TypeParts DEF Inv
  <1>1. SUFFICES ASSUME NEW x \in Posts, post'[x] = "live"
                 PROVE  likeCount'[x] = Cardinality(LikesOf(x)')
    BY DEF LikeCountExact
  <1>2. post[x] \in {"none", "live"}
    BY <1>0, <1>1, DataMoves DEF DataType
  <1>3. CASE post[x] = "none"
    <2>1. likes' = likes /\ likeCount' = likeCount
      BY <1>0, <1>1, <1>3 DEF Step, createPost, softDeletePost, findPostForComplete,
         completePost, createComment, createReply, ParentInTransaction, insertComment,
         deleteComment, softDeleteComment, decrementCommentCount, LikeWanted, createLike,
         insertLike, deleteLike, decrementLikeCount, Rollback, counts
    <2>2. \A u \in Users : <<x, u>> \notin likes
      BY <1>0, <1>3 DEF RowsPlaced
    <2>3. LikesOf(x)' = {}
      BY <2>1, <2>2 DEF LikesOf
    <2> QED
      BY <1>0, <1>3, <2>1, <2>3, FS_EmptySet DEF CountsFresh
  <1>4. CASE post[x] = "live"
    <2>0. /\ likeCount[x] = Cardinality(LikesOf(x)) /\ likeCount[x] \in Int
          /\ IsFiniteSet(LikesOf(x))
      BY <1>0, <1>4, CountedFinite DEF LikeCountExact, DataType
    <2>1. CASE insertLike(p) /\ LikeIsNew(p)
      <3>1. /\ likes' = likes \cup {<<req[p].post, req[p].user>>}
            /\ likeCount' = [likeCount EXCEPT ![req[p].post] = @ + 1]
            /\ <<req[p].post, req[p].user>> \notin likes
            /\ req[p].user \in Users
        BY <1>0, <2>1 DEF RowsHeld, insertLike, LikeIsNew, findLike
      <3>2. CASE req[p].post = x
        <4>1. LikesOf(x)' = LikesOf(x) \cup {req[p].user} /\ req[p].user \notin LikesOf(x)
          BY <3>1, <3>2 DEF LikesOf
        <4>2. likeCount'[x] = likeCount[x] + 1
          BY <1>0, <3>1, <3>2 DEF DataType
        <4> QED
          BY <2>0, <4>1, <4>2, FS_AddElement
      <3>3. CASE req[p].post # x
        <4>1. LikesOf(x)' = LikesOf(x)
          BY <3>1, <3>3 DEF LikesOf
        <4>2. likeCount'[x] = likeCount[x]
          BY <1>0, <3>1, <3>3 DEF DataType
        <4> QED
          BY <2>0, <4>1, <4>2
      <3> QED
        BY <3>2, <3>3
    <2>2. CASE decrementLikeCount(p)
      <3>1. /\ likes' = likes \ {<<req[p].post, req[p].user>>}
            /\ <<req[p].post, req[p].user>> \in likes
            /\ req[p].user \in Users
        BY <1>0, <2>2 DEF RowsHeld, decrementLikeCount
      <3>2. CASE req[p].post = x
        <4>1. LikesOf(x)' = LikesOf(x) \ {req[p].user} /\ req[p].user \in LikesOf(x)
          BY <3>1, <3>2 DEF LikesOf
        <4>2. likeCount'[x] = likeCount[x] - 1
          BY <1>0, <1>4, <2>2, <3>2 DEF DataType, decrementLikeCount
        <4> QED
          BY <2>0, <4>1, <4>2, FS_RemoveElement
      <3>3. CASE req[p].post # x
        <4>1. LikesOf(x)' = LikesOf(x)
          BY <3>1, <3>3 DEF LikesOf
        <4>2. likeCount'[x] = likeCount[x]
          BY <1>0, <2>2, <3>3 DEF DataType, decrementLikeCount
        <4> QED
          BY <2>0, <4>1, <4>2
      <3> QED
        BY <3>2, <3>3
    <2>3. CASE likes' = likes /\ likeCount' = likeCount
      BY <2>0, <2>3 DEF LikesOf
    <2> QED
      BY <2>1, <2>2, <2>3 DEF Step, createPost, softDeletePost, findPostForComplete,
         completePost, createComment, createReply, ParentInTransaction, insertComment,
         deleteComment, softDeleteComment, decrementCommentCount, LikeWanted, createLike,
         insertLike, deleteLike, Rollback, counts
  <1> QED
    BY <1>2, <1>3, <1>4

\* The invariant is inductive.
LEMMA InvStep == Inv /\ [Next]_vars => Inv'
  <1> SUFFICES ASSUME Inv, [Next]_vars PROVE Inv'
    OBVIOUS
  <1>1. CASE UNCHANGED vars
    <2> USE <1>1 DEF vars, counts
    <2>1. TypeOK'
      BY DEF Inv, TypeOK
    <2>2. RowsHeld'
      BY DEF Inv, RowsHeld
    <2>3. RowsPlaced' /\ CountsFresh'
      BY DEF Inv, RowsPlaced, CountsFresh
    <2>4. CommentCountExact'
      BY DEF Inv, CommentCountExact, LiveComments
    <2>5. LikeCountExact'
      BY DEF Inv, LikeCountExact, LikesOf
    <2> QED
      BY <2>1, <2>2, <2>3, <2>4, <2>5 DEF Inv
  <1>2. ASSUME NEW p \in Procs, Step(p) PROVE Inv'
    <2>1. TypeOK'
      BY <1>2, DataInv, ControlInv DEF TypeOK, DataType, ControlType, States, Requests
    <2>2. RowsHeld'
      <3>1. \A o \in Procs : HoldsRows(o)'
        BY <1>2, OthersHold, OwnHolds
      <3> QED
        BY <3>1 DEF RowsHeld, HoldsRows
    <2> QED
      BY <1>2, <2>1, <2>2, PlacedInv, FreshInv, CommentCount, LikeCount DEF Inv
  <1> QED
    BY <1>1, <1>2 DEF Next

\* A transaction's rows are its own until it commits, replies stay with their
\* post's comments, and the counts are exact: for any number of users, posts,
\* comments and requests.
THEOREM InvHolds == Spec => []Inv
  BY InitInv, InvStep, PTL DEF Spec

\* The comment count of a post a reader sees is the number of its live comments
\* and replies, whoever deletes what at the same time.
THEOREM CommentCountsExact == Spec => []CommentCountExact
  <1>1. Inv => CommentCountExact
    BY DEF Inv
  <1> QED
    BY <1>1, InvHolds, PTL

\* The like count of a post is the number of users who like it.
THEOREM LikeCountsExact == Spec => []LikeCountExact
  <1>1. Inv => LikeCountExact
    BY DEF Inv
  <1> QED
    BY <1>1, InvHolds, PTL
=============================================================================
