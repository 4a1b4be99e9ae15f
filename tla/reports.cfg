\* Totals, periods and paging.
CONSTANTS
  b1 = b1
  b2 = b2
  m1 = 1
  m2 = 2
  cash = cash
  online = online
  All = All
  None = None
  Branches = {b1}
  Merchants = {1}
  Accounts = {cash}
  Cash = cash
  Products = {1}
  Maker <- OneMaker
  Price <- OnePrice
  TicksPerDay = 1
  DaysPerMonth = 2
  MonthsPerYear = 2
  DayLimit = 2
  MonthLimit = 3
  RankingPage = 3
  TopProducts = 2
  TopMerchants = 2
  PageSize = 1
  MaxUnits = 1
  MaxSales = 3
  MaxRefunds = 1
  LastTick = 1
SPECIFICATION MCSpec
CHECK_DEADLOCK FALSE
INVARIANTS
  AnswersAccepted
  TotalsAgree
  NothingMissed
