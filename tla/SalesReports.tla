----------------------------- MODULE SalesReports -----------------------------
(***************************************************************************)
(* The sales reports of an organization (backend reports/: the service,    *)
(* its SQL and the calendar) and the checks the client makes before it     *)
(* shows an answer (frontend features/reports: the schemas and the api).   *)
(*                                                                         *)
(* A report is read in one RepeatableRead transaction, so it is a function *)
(* of the committed records: the operators below are the queries, one per  *)
(* route.  Every check of the client on the values of an answer is an      *)
(* operator too, and it derives the calendar and the totals a second time. *)
(* Left out: how numbers, times and identifiers are written, the names and *)
(* references in a row, the searched text, and the 8100 rows at most.      *)
(*                                                                         *)
(* Time counts ticks from a midnight in Manila; months and years are taken *)
(* to be of one length.  A record has its completion time from the moment  *)
(* its transaction begins and is visible from the moment it commits.       *)
(***************************************************************************)
EXTENDS Integers, Sequences, FiniteSets, SequencesExt, FiniteSetsExt

CONSTANTS
  Branches, Accounts, Cash,
  Merchants, Products,   \* numbers: the order of their identifiers
  Maker,             \* the merchant of a product
  Price,             \* the prices a product may have
  TicksPerDay, DaysPerMonth, MonthsPerYear,
  DayLimit,          \* days an analytics range may span and still list days (366)
  MonthLimit,        \* days it may span and still list months (five years)
  RankingPage,       \* products per page of a ranking (15)
  TopProducts,       \* products the client expects at most in analytics (10)
  TopMerchants,      \* merchants in analytics (10)
  PageSize,          \* rows per page of transactions and days (15)
  MaxUnits, MaxSales, MaxRefunds, LastTick,   \* bounds
  All, None

ASSUME ReportAssumption ==
  PageSize \in Nat \ {0} /\ MaxSales \in Nat /\ MaxRefunds \in Nat

VARIABLES
  clock,
  recorded,    \* committed sales and refunds
  open,        \* those whose transaction has not committed
  grants,      \* branches of the manager
  affiliated,  \* branches each merchant takes part in
  settings,    \* of the accounts other than cash
  list         \* a reader paging through the transactions of a fixed range

vars == <<clock, recorded, open, grants, affiliated, settings, list>>

-----------------------------------------------------------------------------
\* Records.
Lines == {l \in [Products -> 0 .. MaxUnits] : \E p \in Products : l[p] > 0}
Entries == [type : {"SALE", "REFUND"}, id : 1 .. MaxSales + MaxRefunds,
            sale : 1 .. MaxSales + MaxRefunds, at : 0 .. LastTick,
            branch : Branches, account : Accounts,
            lines : Lines, prices : [Products -> Nat], total : Nat]
Units(lines) == MapThenSumSet(LAMBDA p : lines[p], Products)
\* The sum of the line totals; a record also stores that sum as its total.
Worth(lines, prices) == MapThenSumSet(LAMBDA p : lines[p] * prices[p], Products)
\* The prices of the products on a sale (0 for the others).
PriceLists(lines) == {f \in [Products -> {0} \cup UNION {Price[p] : p \in Products}] :
                        \A p \in Products : f[p] \in IF lines[p] = 0 THEN {0} ELSE Price[p]}
OfType(E, type) == {e \in E : e.type = type}

\* An account takes payments at the branches it is assigned to; cash at all.
Usable(a, b) == a # Cash => settings[a].enabled /\ b \in settings[a].branches

-----------------------------------------------------------------------------
\* Readers, as their membership is read in the transaction of the report.
Readers == [role : {"OWNER", "MANAGER"}, merchant : {None}]
             \cup [role : {"MERCHANT"}, merchant : Merchants \cup {None}]
Own(r) == r.role = "MERCHANT"

\* What a reader sees of the lines of a record.
Seen(r, e) == [p \in Products |-> IF Own(r) /\ Maker[p] # r.merchant THEN 0 ELSE e.lines[p]]

\* The branches of a reader; a merchant keeps those that sold its items.
SoldNowhere(m) == {}
SoldAt(m) == {e.branch : e \in {s \in OfType(recorded, "SALE") :
                                  \E p \in Products : Maker[p] = m /\ s.lines[p] > 0}}
Visible(r) == CASE r.role = "OWNER" -> Branches
                [] r.role = "MANAGER" -> grants
                [] OTHER -> IF r.merchant = None THEN {}
                            ELSE affiliated[r.merchant] \cup SoldAt(r.merchant)

\* A question: one branch or all, and a half-open range.
Questions == {q \in [scope : Branches \cup {All}, from : 0 .. LastTick, until : 1 .. LastTick + 1] :
                q.from < q.until}
Resolves(r, q) == q.scope = All \/ q.scope \in Visible(r)
Scope(r, q) == IF q.scope = All THEN [kind |-> All, count |-> Cardinality(Visible(r))]
               ELSE [kind |-> q.scope, count |-> None]
Covered(r, q) == IF q.scope = All THEN Visible(r) ELSE {q.scope}

\* The records a question is about, and those of them the reader has part in.
WithinThrough(e, q) == q.from <= e.at /\ e.at <= q.until
Within(e, q) == q.from <= e.at /\ e.at < q.until
Matched(r, q) == {e \in recorded : /\ e.branch \in Covered(r, q) /\ Within(e, q)
                                   /\ Units(Seen(r, e)) > 0}

-----------------------------------------------------------------------------
\* What records are worth: by the lines the reader sees, or as stored.
ByLines(r, E) == [e \in E |-> Worth(Seen(r, e), e.prices)]
Stored(E) == [e \in E |-> e.total]
Total(worth) == MapThenSumSet(LAMBDA e : worth[e], DOMAIN worth)
\* Sums.  Sales and refunds are summed apart, each by its own time.
Flow(r, worth) ==
  LET S == OfType(DOMAIN worth, "SALE")
      R == OfType(DOMAIN worth, "REFUND")
      gross == MapThenSumSet(LAMBDA e : worth[e], S)
      refunded == MapThenSumSet(LAMBDA e : worth[e], R)
  IN [gross |-> gross, sales |-> Cardinality(S),
      units |-> MapThenSumSet(LAMBDA e : Units(Seen(r, e)), S),
      refunded |-> refunded, refunds |-> Cardinality(R),
      returned |-> MapThenSumSet(LAMBDA e : Units(Seen(r, e)), R),
      net |-> gross - refunded]

\* The calendar.
TicksOf(g) == CASE g = "DAY" -> TicksPerDay
                [] g = "MONTH" -> TicksPerDay * DaysPerMonth
                [] g = "YEAR" -> TicksPerDay * DaysPerMonth * MonthsPerYear
Bucket(t, g) == t \div TicksOf(g)
Granularity(q) == IF q.until - q.from <= DayLimit * TicksPerDay THEN "DAY"
                  ELSE IF q.until > q.from + MonthLimit * TicksPerDay THEN "YEAR" ELSE "MONTH"
DayCount(q) == Bucket(q.until - 1, "DAY") - Bucket(q.from, "DAY") + 1
AtMost(n, limit) == IF n <= 0 THEN 0 ELSE IF n <= limit THEN n ELSE limit
\* The days of a page, and the months or years of a range.
PageDays(q, page) == [i \in 1 .. AtMost(DayCount(q) - (page - 1) * PageSize, PageSize) |->
                        Bucket(q.from, "DAY") + (page - 1) * PageSize + i - 1]
Dates(q, g) == [i \in 1 .. Bucket(q.until - 1, g) - Bucket(q.from, g) + 1 |->
                  Bucket(q.from, g) + i - 1]

\* One row per date, in order, with zeros where nothing happened.
OnDate(E, g, date) == {e \in E : Bucket(e.at, g) = date}
ReadTrends(r, q, dates, g) ==
  LET E == Matched(r, q)
  IN [i \in DOMAIN dates |->
        [date |-> dates[i], flow |-> Flow(r, ByLines(r, OnDate(E, g, dates[i])))]]

\* Per account, the totals of the sales it took and of the refunds it paid.
Available(r, q, a) == \E b \in Covered(r, q) : Usable(a, b)
ReadAccounts(r, q) ==
  LET E == Matched(r, q)
      Row(a) == [account |-> a, cash |-> a = Cash, available |-> Available(r, q, a),
                 enabled |-> a # Cash => settings[a].enabled,
                 flow |-> Flow(r, Stored({e \in E : e.account = a}))]
  IN {Row(a) : a \in {b \in Accounts : Available(r, q, b) \/ \E e \in E : e.account = b}}

\* Products that were sold or returned, ranked by one measure, then the other,
\* then their identifier.
PartOf(r, E, p) == {e \in E : Seen(r, e)[p] > 0}
ProductFlow(r, E, p) ==
  LET P == PartOf(r, E, p)
      Pieces(type) == MapThenSumSet(LAMBDA e : e.lines[p], OfType(P, type))
      Amount(type) == MapThenSumSet(LAMBDA e : e.lines[p] * e.prices[p], OfType(P, type))
  IN [product |-> p, gross |-> Amount("SALE"), units |-> Pieces("SALE"),
      refunded |-> Amount("REFUND"), returned |-> Pieces("REFUND"),
      net |-> Amount("SALE") - Amount("REFUND")]
Ahead(x, y, sortBy) ==
  LET first(z) == IF sortBy = "GROSS_SALES" THEN z.gross ELSE z.units
      second(z) == IF sortBy = "GROSS_SALES" THEN z.units ELSE z.gross
  IN \/ first(x) > first(y)
     \/ first(x) = first(y) /\ second(x) > second(y)
     \/ first(x) = first(y) /\ second(x) = second(y) /\ x.product < y.product
\* A set in a total order: a member is at the place its predecessors leave it.
InOrder(S, Before(_, _)) ==
  [i \in 1 .. Cardinality(S) |->
     CHOOSE x \in S : Cardinality({y \in S : Before(y, x)}) = i - 1]
Ranked(r, q, sortBy, made) ==
  LET E == Matched(r, q)
      P == {p \in Products : PartOf(r, E, p) # {} /\ Maker[p] \in made}
  IN InOrder({ProductFlow(r, E, p) : p \in P}, LAMBDA x, y : Ahead(x, y, sortBy))
PageAfter(rows, page, size) ==
  SubSeq(rows, page * size + 1, AtMost((page + 1) * size, Len(rows)))
Page(rows, page, size) ==
  SubSeq(rows, (page - 1) * size + 1, AtMost(page * size, Len(rows)))
Pages(total, size) == (total + size - 1) \div size

\* The merchants with items in the sales, the best selling first, then by
\* their identifier.
MerchantReader(m) == [role |-> "MERCHANT", merchant |-> m]
MerchantSales(E) ==
  {[merchant |-> m, gross |-> Total(ByLines(MerchantReader(m), E))] :
     m \in {n \in Merchants : \E e \in E : Units(Seen(MerchantReader(n), e)) > 0}}
BetterMerchant(x, y) == \/ x.gross > y.gross
                        \/ x.gross = y.gross /\ x.merchant < y.merchant
RankedMerchants(r, q) ==
  InOrder(MerchantSales(OfType(Matched(r, q), "SALE")), BetterMerchant)

-----------------------------------------------------------------------------
\* The answers.
Summary(r, q) ==
  [scope |-> Scope(r, q), own |-> Own(r), from |-> q.from, until |-> q.until,
   flow |-> Flow(r, IF Own(r) THEN ByLines(r, Matched(r, q)) ELSE Stored(Matched(r, q))),
   accounts |-> IF Own(r) THEN {} ELSE ReadAccounts(r, q)]

OneDay(q) == Bucket(q.from, "DAY") = Bucket(q.until - 1, "DAY")
Analytics(r, q) ==
  LET E == Matched(r, q)
      g == Granularity(q)
      products == Ranked(r, q, "GROSS_SALES", Merchants)
  IN [summary |-> Summary(r, q), granularity |-> g, trends |-> ReadTrends(r, q, Dates(q, g), g),
      hourly |-> IF Own(r) \/ ~OneDay(q) THEN <<>>
                 ELSE [h \in 1 .. TicksPerDay |->
                         Flow(r, ByLines(r, {e \in E : e.at % TicksPerDay = h - 1}))],
      topProducts |-> Page(products, 1, RankingPage), totalProducts |-> Len(products),
      topMerchants |-> IF Own(r) THEN <<>>
                       ELSE Page(RankedMerchants(r, q), 1, TopMerchants)]

\* The staff may ask for the products of one merchant it may see.
MayFilter(r, merchant) ==
  CASE merchant = None -> TRUE
    [] r.role = "OWNER" -> TRUE
    [] r.role = "MANAGER" -> affiliated[merchant] \cap grants # {}
    [] OTHER -> FALSE
Rankings(r, q, page, sortBy, merchant) ==
  LET products == Ranked(r, q, sortBy, IF merchant = None THEN Merchants ELSE {merchant})
  IN [scope |-> Scope(r, q), own |-> Own(r), from |-> q.from, until |-> q.until,
      sortBy |-> sortBy, merchant |-> merchant, page |-> page,
      items |-> Page(products, page, RankingPage), totalProducts |-> Len(products),
      totalPages |-> Pages(Len(products), RankingPage),
      hasNext |-> page * RankingPage < Len(products)]

\* The range of a page of days is cut to the days of the page.
Daily(r, q, page) ==
  LET days == PageDays(q, page)
      cut == [q EXCEPT !.from = IF days = <<>> \/ @ >= Head(days) * TicksPerDay THEN @
                                ELSE Head(days) * TicksPerDay,
                       !.until = IF days = <<>> \/ @ <= (Last(days) + 1) * TicksPerDay THEN @
                                 ELSE (Last(days) + 1) * TicksPerDay]
  IN [scope |-> Scope(r, q), own |-> Own(r), from |-> q.from, until |-> q.until, page |-> page,
      items |-> IF days = <<>> THEN <<>> ELSE ReadTrends(r, cut, Dates(cut, "DAY"), "DAY"),
      total |-> DayCount(q), totalPages |-> Pages(DayCount(q), PageSize)]

\* Newest first; at one time refunds before sales, then the higher identifier.
Newer(x, y) == \/ x.at > y.at
               \/ x.at = y.at /\ x.type = "REFUND" /\ y.type = "SALE"
               \/ x.at = y.at /\ x.type = y.type /\ x.id > y.id
Transactions(r, q, type, page) ==
  LET rows == InOrder({e \in Matched(r, q) : type \in {All, e.type}}, Newer)
      items == Page(rows, page, PageSize)
  IN [scope |-> Scope(r, q), own |-> Own(r), from |-> q.from, until |-> q.until, page |-> page,
      items |-> items, total |-> Len(rows), totalPages |-> Pages(Len(rows), PageSize),
      branches |-> [i \in DOMAIN items |-> IF q.scope = All THEN items[i].branch ELSE None]]

\* All time: from the midnight of the first record the reader has part in.
Period(r, scope, until) ==
  LET q == [scope |-> scope, from |-> 0, until |-> until]
      E == Matched(r, q)
  IN [scope |-> Scope(r, q), own |-> Own(r), until |-> until, active |-> E # {},
      from |-> IF E = {} THEN None ELSE Bucket(Min({e.at : e \in E}), "DAY") * TicksPerDay]

-----------------------------------------------------------------------------
\* The client.  It refuses an answer a that fails one of these.
FlowValid(f) ==
  /\ f.net = f.gross - f.refunded
  /\ IF f.refunds = 0 THEN f.refunded = 0 /\ f.returned = 0
     ELSE f.refunded > 0 /\ f.returned >= f.refunds
  /\ IF f.sales = 0 THEN f.gross = 0 /\ f.units = 0
     ELSE f.gross > 0 /\ f.units >= f.sales
AccountValid(row) ==
  /\ row.flow.net = row.flow.gross - row.flow.refunded
  /\ (row.flow.sales = 0) = (row.flow.gross = 0)
  /\ (row.flow.refunds = 0) = (row.flow.refunded = 0)
  /\ row.available => row.enabled
  /\ row.cash => row.available /\ row.enabled
ScopeValid(s) == (s.kind = All) = (s.count # None)
ScopeMatches(s, q) == s.kind = q.scope
RangeMatches(a, q) == a.from = q.from /\ a.until = q.until /\ a.from < a.until

\* The days are added up without the net, the hours with it.
Adds(flow, flows, fields) ==
  \A field \in fields : flow[field] = FoldSeq(LAMBDA f, n : f[field] + n, 0, flows)
DayFields == {"gross", "sales", "units", "refunded", "refunds", "returned"}
AccountsAdd(flow, rows) ==
  /\ Cardinality({row.account : row \in rows}) = Cardinality(rows)
  /\ \A field \in {"gross", "sales", "refunded", "refunds", "net"} :
       flow[field] = MapThenSumSet(LAMBDA row : row.flow[field], rows)
SummaryAccepted(r, q, a) ==
  /\ ScopeValid(a.scope) /\ ScopeMatches(a.scope, q) /\ RangeMatches(a, q)
  /\ FlowValid(a.flow)
  /\ a.own = Own(r)
  /\ ~a.own => AccountsAdd(a.flow, a.accounts) /\ \A row \in a.accounts : AccountValid(row)

\* The dates the client expects, of a page of days or of a whole range.
ExpectedDays(q, offset, limit) ==
  [i \in 1 .. AtMost((q.until - 1) \div TicksPerDay - q.from \div TicksPerDay + 1 - offset, limit) |->
     q.from \div TicksPerDay + offset + i - 1]
ExpectedDates(q) ==
  LET g == Granularity(q)
  IN IF g = "DAY" THEN ExpectedDays(q, 0, DayLimit + 1) ELSE Dates(q, g)
TrendsMatch(rows, dates) ==
  /\ [i \in DOMAIN rows |-> rows[i].date] = dates
  /\ \A i \in DOMAIN rows : FlowValid(rows[i].flow)
ProductValid(row) ==
  /\ row.net = row.gross - row.refunded
  /\ (row.refunded = 0) = (row.returned = 0)
  /\ (row.gross = 0) = (row.units = 0)
ProductsValid(rows, total) ==
  /\ Len(rows) <= TopProducts
  /\ IF total <= TopProducts THEN total = Len(rows) ELSE Len(rows) = TopProducts
  /\ \A i \in DOMAIN rows : ProductValid(rows[i])
  /\ \A i, j \in DOMAIN rows : rows[i].product = rows[j].product => i = j
  /\ \A i \in 2 .. Len(rows) :
       LET x == rows[i - 1]
           y == rows[i]
       IN \/ x.gross > y.gross
          \/ x.gross = y.gross /\ x.units > y.units
          \/ x.gross = y.gross /\ x.units = y.units /\ x.product < y.product
MerchantsValid(rows, gross) ==
  LET sum == FoldSeq(LAMBDA m, n : m.gross + n, 0, rows)
  IN /\ Len(rows) <= TopMerchants
     /\ \A i \in DOMAIN rows : rows[i].gross > 0
     /\ \A i \in 2 .. Len(rows) :
          \/ rows[i - 1].gross > rows[i].gross
          \/ rows[i - 1].gross = rows[i].gross /\ rows[i - 1].merchant < rows[i].merchant
     /\ \A i, j \in DOMAIN rows : rows[i].merchant = rows[j].merchant => i = j
     /\ (gross = 0) = (rows = <<>>)
     /\ sum <= gross /\ (Len(rows) < TopMerchants => sum = gross)
AnalyticsAccepted(r, q, a) ==
  LET flow == a.summary.flow
  IN /\ SummaryAccepted(r, q, a.summary)
     /\ TrendsMatch(a.trends, ExpectedDates(q))
     /\ Adds(flow, [i \in DOMAIN a.trends |-> a.trends[i].flow], DayFields)
     /\ a.hourly # <<>> =>
          /\ a.granularity = "DAY" /\ Len(a.hourly) = TicksPerDay
          /\ \A h \in DOMAIN a.hourly : FlowValid(a.hourly[h])
          /\ Adds(flow, a.hourly, DayFields \cup {"net"})
     /\ ProductsValid(a.topProducts, a.totalProducts)
     /\ ~a.summary.own => MerchantsValid(a.topMerchants, flow.gross)
RankingsAccepted(r, q, page, sortBy, merchant, a) ==
  /\ ScopeValid(a.scope) /\ ScopeMatches(a.scope, q) /\ RangeMatches(a, q)
  /\ a.own = Own(r) /\ a.page = page /\ a.sortBy = sortBy /\ a.merchant = merchant
  /\ Len(a.items) <= RankingPage
DailyAccepted(r, q, page, a) ==
  /\ ScopeValid(a.scope) /\ ScopeMatches(a.scope, q) /\ RangeMatches(a, q)
  /\ a.own = Own(r) /\ a.page = page
  /\ a.total = DayCount(q) /\ a.totalPages = Pages(a.total, PageSize)
  /\ TrendsMatch(a.items, ExpectedDays(q, (page - 1) * PageSize, PageSize))
TransactionsAccepted(r, q, page, a) ==
  /\ ScopeValid(a.scope) /\ ScopeMatches(a.scope, q) /\ RangeMatches(a, q)
  /\ a.own = Own(r) /\ a.page = page
  /\ \A i \in DOMAIN a.items : (a.scope.kind = All) = (a.branches[i] # None)
  /\ \A i, j \in DOMAIN a.items : a.items[i].id = a.items[j].id => i = j
PeriodAccepted(r, q, a) ==
  /\ ScopeValid(a.scope) /\ ScopeMatches(a.scope, q) /\ a.own = Own(r)
  /\ a.until = q.until /\ a.active = (a.from # None) /\ (a.active => a.from < a.until)

-----------------------------------------------------------------------------
\* What happens meanwhile.
Begun(type) == OfType(recorded \cup open, type)
NextId == Min((1 .. MaxSales + MaxRefunds) \ {e.id : e \in recorded \cup open})
Begin(type, sale, b, a, lines, prices) ==
  /\ Usable(a, b)
  /\ open' = open \cup {[type |-> type, id |-> NextId, sale |-> sale, at |-> clock,
                         branch |-> b, account |-> a, lines |-> lines, prices |-> prices,
                         total |-> Worth(lines, prices)]}
  /\ UNCHANGED <<clock, recorded, grants, affiliated, settings, list>>
BeginSale(b, a, lines, prices) ==
  Cardinality(Begun("SALE")) < MaxSales /\ Begin("SALE", NextId, b, a, lines, prices)
Remaining(s) == [p \in Products |-> s.lines[p] -
                   MapThenSumSet(LAMBDA e : e.lines[p], {e \in Begun("REFUND") : e.sale = s.id})]
BeginRefund(s, a, lines) ==
  /\ Cardinality(Begun("REFUND")) < MaxRefunds
  /\ s \in OfType(recorded, "SALE")
  /\ \A p \in Products : lines[p] <= Remaining(s)[p]
  /\ Begin("REFUND", s.id, s.branch, a, lines, s.prices)
Commit(e) ==
  /\ recorded' = recorded \cup {e}
  /\ open' = open \ {e}
  /\ UNCHANGED <<clock, grants, affiliated, settings, list>>
Abort(e) == open' = open \ {e} /\ UNCHANGED <<clock, recorded, grants, affiliated, settings, list>>
Tick ==
  /\ clock < LastTick /\ clock' = clock + 1
  /\ UNCHANGED <<recorded, open, grants, affiliated, settings, list>>

Grant(B) == grants' = B /\ UNCHANGED <<clock, recorded, open, affiliated, settings, list>>
Affiliate(m, B) ==
  /\ affiliated' = [affiliated EXCEPT ![m] = B]
  /\ UNCHANGED <<clock, recorded, open, grants, settings, list>>
SaveAccount(a, enabled, B) ==
  /\ a # Cash /\ B # {}
  /\ settings' = [settings EXCEPT ![a] = [enabled |-> enabled, branches |-> B]]
  /\ UNCHANGED <<clock, recorded, open, grants, affiliated, list>>

\* The reader reads the first page, and then one page after another while the
\* last answer says there is a next one.
Rows(a) == {a.items[i] : i \in DOMAIN a.items}
OpenList(r, q) ==
  /\ list = None /\ Resolves(r, q)
  /\ LET a == Transactions(r, q, All, 1)
     IN list' = [reader |-> r, question |-> q, page |-> 1, more |-> 1 < a.totalPages,
                 read |-> Rows(a), first |-> Matched(r, q)]
  /\ UNCHANGED <<clock, recorded, open, grants, affiliated, settings>>
NextPage ==
  /\ list # None /\ list.more /\ Resolves(list.reader, list.question)
  /\ LET a == Transactions(list.reader, list.question, All, list.page + 1)
     IN list' = [list EXCEPT !.page = @ + 1, !.more = list.page + 1 < a.totalPages,
                             !.read = @ \cup Rows(a)]
  /\ UNCHANGED <<clock, recorded, open, grants, affiliated, settings>>

Init ==
  /\ clock = 0 /\ recorded = {} /\ open = {}
  /\ grants = Branches
  /\ affiliated = [m \in Merchants |-> {}]
  /\ settings = [a \in Accounts \ {Cash} |-> [enabled |-> TRUE, branches |-> Branches]]
  /\ list = None

Work ==
  \/ \E b \in Branches, a \in Accounts, lines \in Lines :
       \E prices \in PriceLists(lines) : BeginSale(b, a, lines, prices)
  \/ \E s \in recorded, a \in Accounts, lines \in Lines : BeginRefund(s, a, lines)
  \/ \E e \in open : Commit(e) \/ Abort(e)
  \/ Tick
  \/ \E B \in SUBSET Branches : Grant(B)
  \/ \E m \in Merchants, B \in SUBSET Branches : Affiliate(m, B)
  \/ \E a \in Accounts, enabled \in BOOLEAN, B \in SUBSET Branches : SaveAccount(a, enabled, B)
Reading == (\E r \in Readers, q \in Questions : OpenList(r, q)) \/ NextPage
Next == Work \/ Reading
Spec == Init /\ [][Next]_vars

-----------------------------------------------------------------------------
(* Properties *)

\* The client accepts the pages of rankings, days and transactions and the
\* all-time period, of every reader, scope, range, order and merchant it may ask
\* for (reports.service.ts against report.schemas.ts and report-api.ts, which
\* derive the calendar and the totals separately).
ListsAccepted(r, q) ==
  /\ PeriodAccepted(r, q, Period(r, q.scope, q.until))
  /\ \A page \in 1 .. Pages(DayCount(q), PageSize) + 1 :
       DailyAccepted(r, q, page, Daily(r, q, page))
  /\ \A type \in {All, "SALE", "REFUND"}, page \in 1 .. 2 :
       TransactionsAccepted(r, q, page, Transactions(r, q, type, page))
  /\ \A page \in 1 .. Pages(Cardinality(Products), RankingPage) + 1,
        sortBy \in {"GROSS_SALES", "UNITS_SOLD"}, merchant \in Merchants \cup {None} :
       MayFilter(r, merchant) =>
         RankingsAccepted(r, q, page, sortBy, merchant, Rankings(r, q, page, sortBy, merchant))
\* It accepts the summary and the analytics too, but refuses the analytics (not the
\* summary) when there are more products than it expects.
FewProducts(a) == a.totalProducts <= TopProducts
OverviewAccepted(r, q, a) ==
  SummaryAccepted(r, q, a.summary) /\ (FewProducts(a) => AnalyticsAccepted(r, q, a))
EveryAnswerAccepted ==
  \A r \in Readers, q \in Questions : Resolves(r, q) =>
    OverviewAccepted(r, q, Analytics(r, q)) /\ ListsAccepted(r, q)
\* Without that exception.
EveryAnalyticsAccepted ==
  \A r \in Readers, q \in Questions : Resolves(r, q) => AnalyticsAccepted(r, q, Analytics(r, q))

\* The reports tell one story: what the merchants see of their own adds up to
\* what the staff sees, the branches to all branches, the pages of days and the
\* pages of products to the summary (docs/modules/reports.md).
Staff == [role |-> "OWNER", merchant |-> None]
Money(flow) == <<flow.gross, flow.units, flow.refunded, flow.returned, flow.net>>
SumOver(S, F(_)) ==
  LET parts == [x \in S |-> F(x)] IN [i \in 1 .. 5 |-> MapThenSumSet(LAMBDA x : parts[x][i], S)]
MerchantsAddUp(q) ==
  Money(Summary(Staff, q).flow)
    = SumOver(Merchants, LAMBDA m : Money(Summary(MerchantReader(m), q).flow))
BranchesAddUp(r, q) ==
  Money(Summary(r, [q EXCEPT !.scope = All]).flow)
    = SumOver(Visible(r), LAMBDA b : Money(Summary(r, [q EXCEPT !.scope = b]).flow))
DaysAddUp(r, q) ==
  LET total(page) == LET rows == Daily(r, q, page).items
                     IN SumOver(DOMAIN rows, LAMBDA i : Money(rows[i].flow))
  IN Money(Summary(r, q).flow) = SumOver(1 .. Pages(DayCount(q), PageSize), total)
ProductsAddUp(r, q) ==
  LET total(page) == LET rows == Rankings(r, q, page, "UNITS_SOLD", None).items
                     IN SumOver(DOMAIN rows, LAMBDA i : Money(rows[i]))
      pages == Rankings(r, q, 1, "UNITS_SOLD", None).totalPages
  IN Money(Summary(r, q).flow) = SumOver(1 .. pages, total)
\* All these sums agree, for every question and every reader.
AllTotalsAgree ==
  \A q \in Questions :
    /\ MerchantsAddUp(q)
    /\ \A r \in Readers : Resolves(r, q) =>
         BranchesAddUp(r, q) /\ DaysAddUp(r, q) /\ ProductsAddUp(r, q)

\* Whoever pages through the transactions of a range to the end has seen every
\* one that was committed when it began, although sales that began earlier commit
\* meanwhile and push rows to later pages.  (A row may be seen twice.)  All
\* branches of a manager or a merchant may become fewer, so only the owner's.
NothingMissed ==
  list # None /\ ~list.more /\ (list.reader.role = "OWNER" \/ list.question.scope # All)
    => list.first \subseteq list.read
=============================================================================
