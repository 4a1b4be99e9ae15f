\* Sales, refunds, stock commands and changes of status.
CONSTANTS
  i1 = i1
  i2 = i2
  s1 = s1
  s2 = s2
  f1 = f1
  f2 = f2
  k1 = k1
  k2 = k2
  w1 = w1
  w2 = w2
  w3 = w3
  None = None
  Items = {i1, i2}
  SaleIds = {s1, s2}
  RefundIds = {f1, f2}
  StockIds = {k1, k2}
  Checkouts <- MCCheckouts
  Refunds <- MCRefunds
  StockCommands <- MCStockCommands
  Prices = {1, 2}
  MaxQuantity = 3
  Workers = {w1, w2, w3}
  OpeningStock <- MCOpening
  Switches = {"organization", "branch", "account", "participation"}
  Touched = {i1}
SYMMETRY WorkerSymmetry
SPECIFICATION MCSpec
INVARIANTS
  DoneIsCommitted
  NoOverReturn
  LedgerChain
  AccountedOnce
PROPERTIES
  NothingThroughClosedGates
  ImplementsBook
