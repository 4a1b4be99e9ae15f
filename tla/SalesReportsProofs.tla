-------------------------- MODULE SalesReportsProofs --------------------------
(***************************************************************************)
(* Proof that paging through the transactions of a report misses nothing.  *)
(***************************************************************************)
EXTENDS SalesReports, FiniteSetTheorems, SequenceTheorems, WellFoundedInduction, TLAPS

\* What is recorded or about to be, and the transactions the reader pages through.
Known == recorded \cup open
ListRows == Matched(list.reader, list.question)
Earlier(S, e) == {x \in S : Newer(x, e)}
Rank(S, e) == Cardinality(Earlier(S, e))

\* Records have distinct numbers, and there are never more than there are numbers.
Sorted(E) ==
  /\ \A e \in E : e.type \in {"SALE", "REFUND"} /\ e.id \in Nat /\ e.at \in Nat
  /\ \A e, f \in E : e.id = f.id => e = f
Counted ==
  /\ IsFiniteSet(Known)
  /\ Cardinality(Begun("SALE")) <= MaxSales
  /\ Cardinality(Begun("REFUND")) <= MaxRefunds
RecordsInv == clock \in Nat /\ Sorted(Known) /\ Counted

\* Whether the records a list is about can only become more.
Steady == list.reader.role = "OWNER" \/ list.question.scope # All
ListType ==
  list # None =>
    /\ list = [reader |-> list.reader, question |-> list.question, page |-> list.page,
               more |-> list.more, read |-> list.read, first |-> list.first]
    /\ list.page \in Nat \ {0}
\* What was there at first is still there; it was read, or sorts after the pages read.
ListInv ==
  list # None /\ Steady =>
    /\ list.first \subseteq ListRows
    /\ \A e \in list.first : e \in list.read \/ Rank(ListRows, e) >= list.page * PageSize
    /\ ~list.more => list.first \subseteq list.read
Inv == RecordsInv /\ ListType /\ ListInv

-----------------------------------------------------------------------------
(* The order of the rows *)

\* Of two different records one is newer, not both, and it is newer than what the
\* other is newer than.
LEMMA NewerIsOrder ==
  ASSUME NEW E, Sorted(E)
  PROVE  /\ \A x \in E : ~Newer(x, x)
         /\ \A x, y \in E : x = y \/ Newer(x, y) \/ Newer(y, x)
         /\ \A x, y, z \in E : Newer(x, y) /\ Newer(y, z) => Newer(x, z)
<1>1. \A x \in E : ~Newer(x, x) BY DEF Sorted, Newer
<1>2. \A x, y \in E : x = y \/ Newer(x, y) \/ Newer(y, x) BY DEF Sorted, Newer
<1>3. \A x, y, z \in E : Newer(x, y) /\ Newer(y, z) => Newer(x, z) BY DEF Sorted, Newer
<1> QED BY <1>1, <1>2, <1>3

\* Different rows have different ranks, each smaller than the number of rows.
LEMMA RanksDiffer ==
  ASSUME NEW S, Sorted(S), IsFiniteSet(S)
  PROVE  /\ \A e \in S : Rank(S, e) \in Nat /\ Rank(S, e) < Cardinality(S)
         /\ \A e, f \in S : Rank(S, e) = Rank(S, f) => e = f
<1>1. ASSUME NEW e \in S PROVE Rank(S, e) \in Nat /\ Rank(S, e) < Cardinality(S)
  <2>1. Earlier(S, e) \subseteq S /\ e \notin Earlier(S, e) BY NewerIsOrder DEF Earlier
  <2>2. /\ IsFiniteSet(Earlier(S, e))
        /\ Cardinality(Earlier(S, e)) <= Cardinality(S)
        /\ Cardinality(S) = Cardinality(Earlier(S, e)) => S = Earlier(S, e)
    BY <2>1, FS_Subset, Earlier(S, e) \in SUBSET S
  <2> QED BY <2>1, <2>2, FS_CardinalityType DEF Rank
<1>2. ASSUME NEW e \in S, NEW f \in S, Newer(e, f) PROVE Rank(S, e) < Rank(S, f)
  <2>1. Earlier(S, e) \subseteq Earlier(S, f) BY <1>2, NewerIsOrder DEF Earlier
  <2>2. e \in Earlier(S, f) /\ e \notin Earlier(S, e) BY <1>2, NewerIsOrder DEF Earlier
  <2>3. IsFiniteSet(Earlier(S, f)) BY FS_Subset, Earlier(S, f) \in SUBSET S DEF Earlier
  <2>4. /\ Cardinality(Earlier(S, e)) <= Cardinality(Earlier(S, f))
        /\ Cardinality(Earlier(S, f)) = Cardinality(Earlier(S, e)) => Earlier(S, f) = Earlier(S, e)
    BY <2>1, <2>3, FS_Subset, Earlier(S, e) \in SUBSET Earlier(S, f)
  <2> QED BY <1>1, <2>2, <2>4 DEF Rank
<1>3. ASSUME NEW e \in S, NEW f \in S, Rank(S, e) = Rank(S, f) PROVE e = f
  BY <1>1, <1>2, <1>3, NewerIsOrder
<1> QED BY <1>1, <1>3

\* More rows never make the rank of one of them smaller.
LEMMA RanksGrow ==
  ASSUME NEW S, NEW T, S \subseteq T, IsFiniteSet(T), NEW e
  PROVE  /\ Rank(S, e) \in Nat /\ Rank(T, e) \in Nat
         /\ Rank(S, e) <= Rank(T, e)
<1>1. Earlier(S, e) \in SUBSET Earlier(T, e) /\ Earlier(T, e) \in SUBSET T BY DEF Earlier
<1>2. IsFiniteSet(Earlier(T, e)) BY <1>1, FS_Subset
<1>3. IsFiniteSet(Earlier(S, e)) /\ Cardinality(Earlier(S, e)) <= Cardinality(Earlier(T, e))
  BY <1>1, <1>2, FS_Subset
<1> QED BY <1>2, <1>3, FS_CardinalityType DEF Rank

\* A row stands at the place of its rank.
LEMMA RowsByRank ==
  ASSUME NEW S, Sorted(S), IsFiniteSet(S)
  PROVE  /\ Cardinality(S) \in Nat
         /\ Len(InOrder(S, Newer)) = Cardinality(S)
         /\ \A e \in S : InOrder(S, Newer)[Rank(S, e) + 1] = e
<1> DEFINE rows == InOrder(S, Newer)
           at(i) == CHOOSE x \in S : Rank(S, x) = i - 1
<1>1. Cardinality(S) \in Nat BY FS_CardinalityType
<1>2. rows = [i \in 1 .. Cardinality(S) |-> at(i)] BY DEF InOrder, Rank, Earlier
<1>3. Len(rows) = Cardinality(S)
  <2> DEFINE T == {rows[i] : i \in 1 .. Cardinality(S)}
  <2>1. rows \in [1 .. Cardinality(S) -> T] BY <1>2
  <2>2. rows \in Seq(T) BY <1>1, <2>1
  <2>3. DOMAIN rows = 1 .. Len(rows) /\ Len(rows) \in Nat BY <2>2
  <2> HIDE DEF rows
  <2> QED BY <1>1, <2>1, <2>3
<1>4. ASSUME NEW e \in S PROVE rows[Rank(S, e) + 1] = e
  <2>1. Rank(S, e) \in Nat /\ Rank(S, e) + 1 \in 1 .. Cardinality(S) BY <1>1, RanksDiffer
  <2>2. rows[Rank(S, e) + 1] = at(Rank(S, e) + 1) BY <1>2, <2>1
  <2>3. Rank(S, e) = (Rank(S, e) + 1) - 1 BY <2>1
  <2>4. /\ at(Rank(S, e) + 1) \in S
        /\ Rank(S, at(Rank(S, e) + 1)) = (Rank(S, e) + 1) - 1
    BY <2>3, Zenon
  <2>5. at(Rank(S, e) + 1) = e
    <3> HIDE DEF at
    <3> QED BY <2>3, <2>4, RanksDiffer
  <2> QED BY <2>2, <2>5
<1> QED BY <1>1, <1>3, <1>4

\* A page holds the rows whose ranks are its own.
LEMMA PageHolds ==
  ASSUME NEW S, Sorted(S), IsFiniteSet(S), NEW page \in Nat \ {0}, NEW e \in S,
         Rank(S, e) >= (page - 1) * PageSize, Rank(S, e) < page * PageSize
  PROVE  LET items == Page(InOrder(S, Newer), page, PageSize)
         IN \E i \in DOMAIN items : items[i] = e
<1> DEFINE rows == InOrder(S, Newer)
           n == Cardinality(S)
           from == (page - 1) * PageSize + 1
           until == AtMost(page * PageSize, n)
           k == Rank(S, e) + 1
           T == {rows[i] : i \in from .. until}
           items == SubSeq(rows, from, until)
<1>1. n \in Nat /\ Len(rows) = n /\ rows[k] = e BY RowsByRank
<1>2. Rank(S, e) \in Nat /\ Rank(S, e) < n BY RanksDiffer
<1>3. page * PageSize \in Nat /\ (page - 1) * PageSize \in Nat BY ReportAssumption
<1>4. from \in Int /\ until \in Int /\ k \in from .. until
  <2> HIDE DEF rows
  <2>1. page * PageSize > 0 BY ReportAssumption
  <2> DEFINE a == page * PageSize
             b == (page - 1) * PageSize
  <2>2. a \in Nat /\ b \in Nat /\ Rank(S, e) >= b /\ Rank(S, e) < a /\ a > 0 BY <1>3, <2>1
  <2> HIDE DEF a, b, n
  <2>3. AtMost(a, n) \in Int /\ Rank(S, e) + 1 <= AtMost(a, n) BY <1>1, <1>2, <2>2 DEF AtMost
  <2>4. b + 1 \in Int /\ b + 1 <= Rank(S, e) + 1 BY <1>2, <2>2
  <2> QED BY <1>2, <2>3, <2>4 DEF a, b, n
<1>5. Page(rows, page, PageSize) = items BY <1>1 DEF Page
<1> HIDE DEF rows, from, until
<1>6. /\ items \in Seq(T)
      /\ Len(items) = IF from <= until THEN until - from + 1 ELSE 0
      /\ \A i \in 1 .. until - from + 1 : items[i] = rows[from + i - 1]
  BY <1>4, SubSeqProperties
<1>7. k - from + 1 \in 1 .. until - from + 1 BY <1>2, <1>4
<1>8. items[k - from + 1] = rows[k]
  <2>1. from + (k - from + 1) - 1 = k BY <1>2, <1>4
  <2> QED BY <1>6, <1>7, <2>1
<1>9. k - from + 1 \in DOMAIN items BY <1>2, <1>4, <1>6, <1>7
<1> QED BY <1>1, <1>5, <1>8, <1>9 DEF rows

\* There are enough pages for all rows.
LEMMA PagesSuffice ==
  ASSUME NEW n \in Nat, NEW page \in Nat, ~(page < Pages(n, PageSize))
  PROVE  n <= page * PageSize
<1> DEFINE d == n + PageSize - 1
           q == d \div PageSize
<1>1. PageSize \in Nat /\ PageSize > 0 BY ReportAssumption
<1>2. q \in Int /\ d = q * PageSize + (d % PageSize) /\ d % PageSize \in 0 .. PageSize - 1
  BY <1>1
<1>3. q <= page BY <1>2 DEF Pages
<1>4. q * PageSize <= page * PageSize BY <1>1, <1>2, <1>3
<1>5. q * PageSize \in Int /\ page * PageSize \in Int BY <1>1, <1>2
<1> HIDE DEF q
<1> QED BY <1>1, <1>2, <1>4, <1>5

-----------------------------------------------------------------------------
(* The records *)

\* A nonempty set of numbers has a least one.
LEMMA LeastExists ==
  ASSUME NEW T, T \subseteq Nat, T # {}
  PROVE  Min(T) \in T
<1>1. PICK x \in T : \A y \in T : ~(<<y, x>> \in OpToRel(<, Nat))
  BY NatLessThanWellFounded, WFMin
<1>2. \A y \in T : <<y, x>> \in Nat \X Nat /\ <<y, x>>[1] = y /\ <<y, x>>[2] = x OBVIOUS
<1>3. \A y \in T : ~(y < x) BY <1>1, <1>2 DEF OpToRel
<1>4. \A y \in T : x <= y BY <1>3
<1> QED BY <1>4 DEF Min

\* While there may be one more sale or refund, its number is one no record has.
LEMMA NumberIsFree ==
  ASSUME RecordsInv,
         Cardinality(Begun("SALE")) < MaxSales \/ Cardinality(Begun("REFUND")) < MaxRefunds
  PROVE  NextId \in Nat /\ \A e \in Known : e.id # NextId
<1> DEFINE ids == {e.id : e \in Known}
           n == MaxSales + MaxRefunds
           f == [e \in Known |-> e.id]
<1> USE ReportAssumption
<1>1. Begun("SALE") \in SUBSET Known /\ Begun("REFUND") \in SUBSET Known
  BY DEF Begun, OfType, Known
<1>2. Known = Begun("SALE") \cup Begun("REFUND")
  BY DEF Begun, OfType, Known, RecordsInv, Sorted
<1>3. IsFiniteSet(Begun("SALE")) /\ IsFiniteSet(Begun("REFUND")) /\ IsFiniteSet(Known)
  BY <1>1, FS_Subset DEF RecordsInv, Counted
<1>4. Cardinality(Known) < n
  <2> DEFINE a == Cardinality(Begun("SALE"))
             b == Cardinality(Begun("REFUND"))
             c == Cardinality(Begun("SALE") \cap Begun("REFUND"))
  <2>1. a \in Nat /\ b \in Nat BY <1>3, FS_CardinalityType
  <2>2. c \in Nat BY <1>3, FS_Intersection, FS_CardinalityType
  <2>3. Cardinality(Known) = a + b - c BY <1>2, <1>3, FS_Union
  <2>4. a <= MaxSales /\ b <= MaxRefunds /\ (a < MaxSales \/ b < MaxRefunds)
    BY DEF RecordsInv, Counted
  <2> HIDE DEF a, b, c
  <2> QED BY <2>1, <2>2, <2>3, <2>4
<1>5. f \in Surjection(Known, ids)
  <2>1. f \in [Known -> ids] OBVIOUS
  <2>2. \A i \in ids : \E e \in Known : f[e] = i OBVIOUS
  <2> QED BY <2>1, <2>2, Zenon DEF Surjection
<1>6. IsFiniteSet(ids) /\ Cardinality(ids) < n
  <2>1. IsFiniteSet(ids) /\ Cardinality(ids) <= Cardinality(Known) BY <1>3, <1>5, FS_Surjection
  <2>2. Cardinality(ids) \in Nat /\ Cardinality(Known) \in Nat BY <1>3, <2>1, FS_CardinalityType
  <2> QED BY <1>4, <2>1, <2>2
<1>7. (1 .. n) \ ids # {}
  <2>1. Cardinality(1 .. n) = n
    <3>1. n \in Nat OBVIOUS
    <3> HIDE DEF n
    <3>2. Cardinality(1 .. n) = IF 1 > n THEN 0 ELSE n - 1 + 1 BY <3>1, FS_Interval
    <3> QED BY <3>1, <3>2
  <2>2. ASSUME 1 .. n \subseteq ids PROVE FALSE
    <3>1. n <= Cardinality(ids) BY <1>6, <2>1, <2>2, FS_Subset, 1 .. n \in SUBSET ids
    <3> QED BY <1>6, <3>1, FS_CardinalityType
  <2> QED BY <2>2
<1>8. NextId = Min((1 .. n) \ ids) BY DEF NextId, Known
<1>9. NextId \in (1 .. n) \ ids BY <1>7, <1>8, LeastExists
<1> QED BY <1>9

\* A new record has the number that is free.
LEMMA BeginKeepsRecords ==
  ASSUME RecordsInv, NEW type \in {"SALE", "REFUND"}, NEW sale, NEW b, NEW a, NEW lines, NEW prices,
         Cardinality(Begun(type)) < IF type = "SALE" THEN MaxSales ELSE MaxRefunds,
         Begin(type, sale, b, a, lines, prices)
  PROVE  RecordsInv'
<1> DEFINE r == [type |-> type, id |-> NextId, sale |-> sale, at |-> clock,
                 branch |-> b, account |-> a, lines |-> lines, prices |-> prices,
                 total |-> Worth(lines, prices)]
<1>1. NextId \in Nat /\ \A e \in Known : e.id # NextId BY NumberIsFree
<1>2. recorded' = recorded /\ open' = open \cup {r} /\ clock' = clock BY DEF Begin
<1>3. Known' = Known \cup {r} BY <1>2 DEF Known
<1>4. r.type = type /\ r.id = NextId /\ r.at = clock OBVIOUS
<1> HIDE DEF r
<1>5. Sorted(Known') BY <1>1, <1>3, <1>4 DEF RecordsInv, Sorted
<1>6. \A t : Begun(t)' = IF t = type THEN Begun(t) \cup {r} ELSE Begun(t)
  BY <1>2, <1>4 DEF Begun, OfType
<1>7. IsFiniteSet(Known') BY <1>3, FS_AddElement DEF RecordsInv, Counted
<1>8. IsFiniteSet(Begun(type))
  BY FS_Subset, Begun(type) \in SUBSET Known DEF RecordsInv, Counted, Begun, OfType, Known
<1>9. Cardinality(Begun(type) \cup {r}) <= Cardinality(Begun(type)) + 1
  <2>1. Cardinality(Begun(type)) \in Nat BY <1>8, FS_CardinalityType
  <2>2. Cardinality(Begun(type) \cup {r})
          = IF r \in Begun(type) THEN Cardinality(Begun(type)) ELSE Cardinality(Begun(type)) + 1
    BY <1>8, FS_AddElement
  <2> QED BY <2>1, <2>2
<1>10. Cardinality(Begun(type) \cup {r}) <= IF type = "SALE" THEN MaxSales ELSE MaxRefunds
  <2>1. Cardinality(Begun(type)) \in Nat BY <1>8, FS_CardinalityType
  <2>2. Cardinality(Begun(type) \cup {r}) \in Nat BY <1>8, FS_AddElement, FS_CardinalityType
  <2> QED BY <1>9, <2>1, <2>2, ReportAssumption
<1>11. Counted'
  BY <1>6, <1>7, <1>10 DEF RecordsInv, Counted
<1> QED BY <1>2, <1>5, <1>11 DEF RecordsInv

\* A record that commits or is aborted adds none.
LEMMA EndKeepsRecords ==
  ASSUME RecordsInv, clock' \in Nat, Known' \subseteq Known
  PROVE  RecordsInv'
<1>1. Sorted(Known') BY DEF RecordsInv, Sorted
<1>2. \A t : Begun(t)' \in SUBSET Begun(t) /\ Begun(t) \in SUBSET Known
  BY DEF Begun, OfType, Known
<1>3. \A t : IsFiniteSet(Begun(t)) BY <1>2, FS_Subset DEF RecordsInv, Counted
<1>4. ASSUME NEW t, NEW limit \in Nat, Cardinality(Begun(t)) <= limit
      PROVE  Cardinality(Begun(t)') <= limit
  <2>1. IsFiniteSet(Begun(t)') /\ Cardinality(Begun(t)') <= Cardinality(Begun(t))
    BY <1>2, <1>3, FS_Subset
  <2>2. Cardinality(Begun(t)) \in Nat /\ Cardinality(Begun(t)') \in Nat
    BY <1>3, <2>1, FS_CardinalityType
  <2> QED BY <1>4, <2>1, <2>2
<1>5. IsFiniteSet(Known') BY FS_Subset, Known' \in SUBSET Known DEF RecordsInv, Counted
<1>6. Counted' BY <1>4, <1>5, ReportAssumption DEF RecordsInv, Counted
<1> QED BY <1>1, <1>6 DEF RecordsInv

LEMMA RecordsStep == RecordsInv /\ [Next]_vars => RecordsInv'
<1> SUFFICES ASSUME RecordsInv, [Next]_vars PROVE RecordsInv' OBVIOUS
<1>1. ASSUME NEW b \in Branches, NEW a \in Accounts, NEW lines \in Lines,
             NEW prices \in PriceLists(lines), BeginSale(b, a, lines, prices)
      PROVE  RecordsInv'
  BY <1>1, BeginKeepsRecords DEF BeginSale
<1>2. ASSUME NEW s \in recorded, NEW a \in Accounts, NEW lines \in Lines, BeginRefund(s, a, lines)
      PROVE  RecordsInv'
  BY <1>2, BeginKeepsRecords DEF BeginRefund
<1>3. ASSUME NEW e \in open, Commit(e) \/ Abort(e) PROVE RecordsInv'
  BY <1>3, EndKeepsRecords DEF Commit, Abort, Known, RecordsInv
<1>4. ASSUME Tick \/ Reading \/ UNCHANGED vars PROVE RecordsInv'
  <2>1. recorded' = recorded /\ open' = open
    BY <1>4 DEF Tick, Reading, OpenList, NextPage, vars
  <2>2. clock' \in Nat BY <1>4 DEF Tick, Reading, OpenList, NextPage, vars, RecordsInv
  <2> QED BY <2>1, <2>2, EndKeepsRecords DEF Known
<1>5. ASSUME \/ \E B \in SUBSET Branches : Grant(B)
             \/ \E m \in Merchants, B \in SUBSET Branches : Affiliate(m, B)
             \/ \E a \in Accounts, enabled \in BOOLEAN, B \in SUBSET Branches : SaveAccount(a, enabled, B)
      PROVE  RecordsInv'
  <2>1. recorded' = recorded /\ open' = open /\ clock' = clock
    BY <1>5 DEF Grant, Affiliate, SaveAccount
  <2> QED BY <2>1, EndKeepsRecords DEF Known, RecordsInv
<1> QED BY <1>1, <1>2, <1>3, <1>4, <1>5 DEF Next, Work

-----------------------------------------------------------------------------
(* The pages *)

LEMMA RowsAreRecords ==
  ASSUME RecordsInv, NEW r, NEW q
  PROVE  Sorted(Matched(r, q)) /\ IsFiniteSet(Matched(r, q))
<1>1. Matched(r, q) \in SUBSET Known BY DEF Matched, Known
<1> QED BY <1>1, FS_Subset DEF RecordsInv, Sorted, Counted

\* An answer has the rows whose ranks are those of its page, and the last page has
\* the last rows.
LEMMA AnswerHolds ==
  ASSUME RecordsInv, NEW r, NEW q, NEW page \in Nat \ {0}
  PROVE  LET a == Transactions(r, q, All, page)
             M == Matched(r, q)
         IN /\ \A e \in M : Rank(M, e) >= (page - 1) * PageSize /\ Rank(M, e) < page * PageSize
                            => e \in Rows(a)
            /\ ~(page < a.totalPages) => \A e \in M : Rank(M, e) < page * PageSize
<1> DEFINE a == Transactions(r, q, All, page)
           M == Matched(r, q)
           rows == InOrder(M, Newer)
<1>1. {e \in M : All \in {All, e.type}} = M OBVIOUS
<1>2. a.items = Page(rows, page, PageSize) /\ a.totalPages = Pages(Len(rows), PageSize)
  BY <1>1 DEF Transactions
<1>3. Sorted(M) /\ IsFiniteSet(M) BY RowsAreRecords
<1> HIDE DEF a, M
<1>4. ASSUME NEW e \in M, Rank(M, e) >= (page - 1) * PageSize, Rank(M, e) < page * PageSize
      PROVE  e \in Rows(a)
  <2>1. \E i \in DOMAIN a.items : a.items[i] = e BY <1>2, <1>3, <1>4, PageHolds
  <2> QED BY <2>1 DEF Rows
<1>5. ASSUME ~(page < a.totalPages), NEW e \in M PROVE Rank(M, e) < page * PageSize
  <2>1. Cardinality(M) \in Nat /\ Len(rows) = Cardinality(M) BY <1>3, RowsByRank
  <2>2. Cardinality(M) <= page * PageSize BY <1>2, <1>5, <2>1, PagesSuffice
  <2>3. Rank(M, e) \in Nat /\ Rank(M, e) < Cardinality(M) BY <1>3, RanksDiffer
  <2>4. page * PageSize \in Nat BY ReportAssumption
  <2> QED BY <2>1, <2>2, <2>3, <2>4
<1> QED BY <1>4, <1>5 DEF a, M

\* The first page.
LEMMA OpenListStep ==
  ASSUME Inv, NEW r \in Readers, NEW q \in Questions, OpenList(r, q)
  PROVE  ListType' /\ ListInv'
<1> DEFINE a == Transactions(r, q, All, 1)
           M == Matched(r, q)
<1>1. list' = [reader |-> r, question |-> q, page |-> 1, more |-> 1 < a.totalPages,
               read |-> Rows(a), first |-> M]
  BY DEF OpenList
<1>2. ListType' BY <1>1 DEF ListType
<1>3. ListRows' = M
  <2>1. recorded' = recorded /\ grants' = grants /\ affiliated' = affiliated BY DEF OpenList
  <2>2. list'.reader = r /\ list'.question = q BY <1>1
  <2> QED BY <2>1, <2>2 DEF ListRows, Matched, Covered, Visible, SoldAt, OfType
<1>4. Sorted(M) /\ IsFiniteSet(M) BY RowsAreRecords DEF Inv
<1>5. \A e \in M : Rank(M, e) \in Nat BY <1>4, RanksDiffer
<1>6. /\ \A e \in M : Rank(M, e) >= 0 /\ Rank(M, e) < 1 * PageSize => e \in Rows(a)
      /\ ~(1 < a.totalPages) => \A e \in M : Rank(M, e) < 1 * PageSize
  <2>1. (1 - 1) * PageSize = 0 BY ReportAssumption
  <2> QED BY <2>1, AnswerHolds DEF Inv
<1> HIDE DEF a, M
<1>7. 1 * PageSize = PageSize /\ PageSize \in Nat BY ReportAssumption
<1>8. \A e \in M : e \in Rows(a) \/ Rank(M, e) >= 1 * PageSize BY <1>5, <1>6, <1>7
<1>9. ~(1 < a.totalPages) => M \subseteq Rows(a) BY <1>5, <1>6, <1>7
<1>10. list'.page = 1 /\ list'.read = Rows(a) /\ list'.first = M /\ list'.more = (1 < a.totalPages)
  BY <1>1
<1>11. ListInv' BY <1>3, <1>8, <1>9, <1>10 DEF ListInv, Rank, Earlier, Newer
<1> QED BY <1>2, <1>11

\* The next page.
LEMMA NextPageStep ==
  ASSUME Inv, NextPage
  PROVE  ListType' /\ ListInv'
<1> DEFINE r == list.reader
           q == list.question
           page == list.page + 1
           a == Transactions(r, q, All, page)
           M == Matched(r, q)
<1>1. list # None /\ list.page \in Nat \ {0} /\ page \in Nat \ {0} BY DEF NextPage, Inv, ListType
<1>2. list' = [reader |-> r, question |-> q, page |-> page, more |-> page < a.totalPages,
               read |-> list.read \cup Rows(a), first |-> list.first]
  <2>1. list' = [list EXCEPT !.page = @ + 1, !.more = list.page + 1 < a.totalPages,
                             !.read = @ \cup Rows(a)]
    BY DEF NextPage
  <2>2. list = [reader |-> list.reader, question |-> list.question, page |-> list.page,
                more |-> list.more, read |-> list.read, first |-> list.first]
    BY <1>1 DEF Inv, ListType
  <2> HIDE DEF a
  <2> QED BY <2>1, <2>2
<1>3. ListType' BY <1>1, <1>2 DEF ListType
<1>4. ListRows' = M
  <2>1. recorded' = recorded /\ grants' = grants /\ affiliated' = affiliated BY DEF NextPage
  <2>2. list'.reader = r /\ list'.question = q BY <1>2
  <2> QED BY <2>1, <2>2 DEF ListRows, Matched, Covered, Visible, SoldAt, OfType
<1>5. Sorted(M) /\ IsFiniteSet(M) BY RowsAreRecords DEF Inv
<1>6. \A e \in M : Rank(M, e) \in Nat BY <1>5, RanksDiffer
<1>7. /\ \A e \in M : Rank(M, e) >= list.page * PageSize /\ Rank(M, e) < page * PageSize
                       => e \in Rows(a)
      /\ ~(page < a.totalPages) => \A e \in M : Rank(M, e) < page * PageSize
  <2>1. page - 1 = list.page BY <1>1
  <2> QED BY <1>1, <2>1, AnswerHolds DEF Inv
<1>8. list.page * PageSize \in Nat /\ page * PageSize \in Nat BY <1>1, ReportAssumption
<1>9. list'.page = page /\ list'.read = list.read \cup Rows(a) /\ list'.first = list.first
      /\ list'.more = (page < a.totalPages) /\ Steady' = Steady
  BY <1>2 DEF Steady
<1>10. ASSUME Steady PROVE ListInv'
  <2>1. /\ list.first \subseteq M
        /\ \A e \in list.first : e \in list.read \/ Rank(M, e) >= list.page * PageSize
    BY <1>1, <1>10 DEF Inv, ListInv, ListRows
  <2> HIDE DEF a, M, page
  <2>2. \A e \in list.first : e \in list.read \cup Rows(a) \/ Rank(M, e) >= page * PageSize
    BY <1>6, <1>7, <1>8, <2>1
  <2>3. ~(page < a.totalPages) => list.first \subseteq list.read \cup Rows(a)
    BY <1>6, <1>7, <1>8, <2>1, <2>2
  <2> QED BY <1>4, <1>9, <2>1, <2>2, <2>3 DEF ListInv, Rank, Earlier, Newer
<1>11. ~Steady => ListInv' BY <1>9 DEF ListInv
<1> QED BY <1>3, <1>10, <1>11

\* What commits meanwhile is added to the rows, and only pushes the others back.
LEMMA OthersStep ==
  ASSUME Inv, RecordsInv', UNCHANGED list, recorded \subseteq recorded'
  PROVE  ListType' /\ ListInv'
<1>1. ListType' BY DEF Inv, ListType
<1>2. ASSUME list # None, Steady PROVE ListInv'
  <2>1. /\ list.first \subseteq ListRows
        /\ \A e \in list.first : e \in list.read \/ Rank(ListRows, e) >= list.page * PageSize
        /\ ~list.more => list.first \subseteq list.read
    BY <1>2 DEF Inv, ListInv
  <2>2. Covered(list.reader, list.question)' = Covered(list.reader, list.question)
    BY <1>2 DEF Steady, Covered, Visible
  <2>3. ListRows \subseteq ListRows'
    <3> DEFINE In(E, C) == {e \in E : /\ e.branch \in C /\ Within(e, list.question)
                                      /\ Units(Seen(list.reader, e)) > 0}
    <3>1. ListRows = In(recorded, Covered(list.reader, list.question)) BY DEF ListRows, Matched
    <3>2. ListRows' = In(recorded', Covered(list.reader, list.question)')
      BY DEF ListRows, Matched
    <3> QED BY <2>2, <3>1, <3>2
  <2>4. IsFiniteSet(ListRows')
    BY FS_Subset, ListRows' \in SUBSET Known' DEF RecordsInv, Counted, ListRows, Matched, Known
  <2>5. \A e : /\ Rank(ListRows, e) \in Nat /\ Rank(ListRows', e) \in Nat
               /\ Rank(ListRows, e) <= Rank(ListRows', e)
    BY <2>3, <2>4, RanksGrow
  <2>6. list.page * PageSize \in Nat BY <1>2, ReportAssumption DEF Inv, ListType
  <2>7. \A e \in list.first : e \in list.read \/ Rank(ListRows', e) >= list.page * PageSize
    BY <2>1, <2>5, <2>6
  <2> QED BY <2>1, <2>3, <2>7 DEF ListInv, Rank, Earlier, Newer
<1>3. ~(list # None /\ Steady) => ListInv' BY DEF ListInv, Steady
<1> QED BY <1>1, <1>2, <1>3

-----------------------------------------------------------------------------
(* The theorem *)

LEMMA InitInv == Init => Inv
<1> SUFFICES ASSUME Init PROVE Inv OBVIOUS
<1>1. Known = {} /\ \A t : Begun(t) = {} BY DEF Init, Known, Begun, OfType
<1>2. RecordsInv BY <1>1, FS_EmptySet, ReportAssumption DEF Init, RecordsInv, Sorted, Counted
<1> QED BY <1>2 DEF Init, Inv, ListType, ListInv

LEMMA NextInv == Inv /\ [Next]_vars => Inv'
<1> SUFFICES ASSUME Inv, [Next]_vars PROVE Inv' OBVIOUS
<1>1. RecordsInv' BY RecordsStep DEF Inv
<1>2. ASSUME NEW r \in Readers, NEW q \in Questions, OpenList(r, q) PROVE ListType' /\ ListInv'
  BY <1>2, OpenListStep
<1>3. ASSUME NextPage PROVE ListType' /\ ListInv' BY <1>3, NextPageStep
<1>4. ASSUME Work \/ UNCHANGED vars PROVE ListType' /\ ListInv'
  <2>1. UNCHANGED list /\ recorded \subseteq recorded'
    BY <1>4 DEF Work, BeginSale, BeginRefund, Begin, Commit, Abort, Tick, Grant, Affiliate,
                SaveAccount, vars
  <2> QED BY <1>1, <2>1, OthersStep
<1>5. ListType' /\ ListInv' BY <1>2, <1>3, <1>4 DEF Next, Reading
<1> QED BY <1>1, <1>5 DEF Inv

\* Whoever pages through the transactions of a range to the end has seen every one
\* that was committed when it began, whatever commits meanwhile and in any order
\* (transactions of reports.service.ts, which pages by offset).
THEOREM PagingMissesNothing == Spec => []NothingMissed
<1>1. Inv => NothingMissed BY DEF Inv, ListInv, NothingMissed, Steady
<1> QED BY <1>1, InitInv, NextInv, PTL DEF Spec
=============================================================================
