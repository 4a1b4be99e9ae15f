------------------------------ MODULE MCReports ------------------------------
(***************************************************************************)
(* Small instances of the sales reports (SalesReports), one per scene.     *)
(* The constants of the configuration are those of the scene in which a    *)
(* reader pages through the transactions while others commit.              *)
(***************************************************************************)
EXTENDS SalesReports, TLC

CONSTANTS b1, b2, m1, m2, cash, online
VARIABLE scene

TwoMakers == 1 :> m1 @@ 2 :> m2
TwoPrices == 1 :> {1, 2} @@ 2 :> {1}
OneMaker == 1 :> m1
OnePrice == 1 :> {1}
ThreeMakers == 1 :> m2 @@ 2 :> m1 @@ 3 :> m1
ThreePrices == 1 :> {1, 2} @@ 2 :> {1} @@ 3 :> {1}

\* Two branches, merchants, products and accounts.
Totals == INSTANCE SalesReports WITH
  Branches <- {b1, b2}, Merchants <- {m1, m2}, Accounts <- {cash, online}, Cash <- cash,
  Products <- {1, 2}, Maker <- TwoMakers, Price <- TwoPrices,
  TicksPerDay <- 1, DaysPerMonth <- 2, MonthsPerYear <- 2, DayLimit <- 2, MonthLimit <- 3,
  RankingPage <- 3, TopProducts <- 2, TopMerchants <- 2, PageSize <- 1,
  MaxUnits <- 1, MaxSales <- 1, MaxRefunds <- 1, LastTick <- 1
\* One branch and product over days, months and years.
Periods == INSTANCE SalesReports WITH
  Branches <- {b1}, Merchants <- {m1}, Accounts <- {cash}, Cash <- cash,
  Products <- {1}, Maker <- OneMaker, Price <- OnePrice,
  TicksPerDay <- 2, DaysPerMonth <- 2, MonthsPerYear <- 1, DayLimit <- 1, MonthLimit <- 2,
  RankingPage <- 3, TopProducts <- 2, TopMerchants <- 2, PageSize <- 2,
  MaxUnits <- 1, MaxSales <- 2, MaxRefunds <- 1, LastTick <- 5
\* Two merchants and more products than the client expects in analytics, one of
\* them sold at two prices; the rankings have two pages.
Ranking == INSTANCE SalesReports WITH
  Branches <- {b1}, Merchants <- {m1, m2}, Accounts <- {cash}, Cash <- cash,
  Products <- {1, 2, 3}, Maker <- ThreeMakers, Price <- ThreePrices,
  TicksPerDay <- 1, DaysPerMonth <- 2, MonthsPerYear <- 2, DayLimit <- 2, MonthLimit <- 3,
  RankingPage <- 2, TopProducts <- 1, TopMerchants <- 2, PageSize <- 2,
  MaxUnits <- 1, MaxSales <- 2, MaxRefunds <- 1, LastTick <- 0

MCInit ==
  \/ scene = "totals" /\ Totals!Init
  \/ scene = "periods" /\ Periods!Init
  \/ scene = "ranking" /\ Ranking!Init
  \/ scene = "paging" /\ Init
\* Nobody pages in the first three scenes, and nothing else changes in the last.
\* Transactions commit in any order in the last; in the others one at a time, and
\* access and accounts change once all are committed.
OneAtATime == Cardinality(open') <= 1
Few == /\ grants' \in {{b1}, {b1, b2}}
       /\ affiliated'[m1] = {} /\ affiliated'[m2] \in {{}, {b2}}
       /\ settings'[online].branches = {b1, b2}
       /\ UNCHANGED <<grants, affiliated, settings>> \/ (clock = 1 /\ recorded # {} /\ open = {})
MCNext ==
  /\ UNCHANGED scene
  /\ \/ scene = "totals" /\ Totals!Work /\ OneAtATime /\ Few
     \/ scene = "periods" /\ Periods!Work /\ OneAtATime /\ UNCHANGED <<grants, affiliated>>
     \/ scene = "ranking" /\ Ranking!Work /\ OneAtATime /\ UNCHANGED <<grants, affiliated, settings>>
     \/ scene = "paging" /\ Next /\ UNCHANGED <<grants, affiliated>>
MCSpec == MCInit /\ [][MCNext]_<<scene, vars>>

\* A report depends on the committed records only, and every set of them is reached
\* with nothing open at the last tick: there the reports are looked at.
Settled(tick) == open = {} /\ clock = tick
\* The client accepts every answer of the server, but for the analytics of more
\* products than it expects.
AnswersAccepted == /\ scene = "totals" /\ Settled(1) => Totals!EveryAnswerAccepted
                   /\ scene = "periods" /\ Settled(5) => Periods!EveryAnswerAccepted
                   /\ scene = "ranking" /\ Settled(0) => Ranking!EveryAnswerAccepted
\* Merchants, branches, days and products add up to the summary.
TotalsAgree == /\ scene = "totals" /\ Settled(1) => Totals!AllTotalsAgree
               /\ scene = "periods" /\ Settled(5) => Periods!AllTotalsAgree
               /\ scene = "ranking" /\ Settled(0) => Ranking!AllTotalsAgree

\* "the 15-of-N product count" is accepted (docs/modules/reports.md:505): with more
\* products than the client's bound, its analytics are accepted like any other.
RankingSpec == scene = "ranking" /\ Ranking!Init
                 /\ [][Ranking!Work /\ UNCHANGED scene]_<<scene, vars>>
\* docs/modules/reports.md: the client accepts "the 15-of-N product count".
ManyProductsAccepted == Ranking!EveryAnalyticsAccepted
=============================================================================
