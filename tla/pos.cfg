\* Payment, the cart and returns.
CONSTANTS
  old = old
  new = new
  p1 = p1
  p2 = p2
  qa = qa
  qb = qb
  ca = ca
  cb = cb
  s1 = s1
  s2 = s2
  None = None
  Contents = {old, new}
  MaxIds = 2
  MaxFaults = 2
  MaxOffers = 1
SYMMETRY Symmetry
SPECIFICATION MCSpec
CHECK_DEADLOCK FALSE
INVARIANTS
  RejectedIsUnsold
  DeniedIsEmpty
PROPERTIES
  EarlierSalesSeen
  RefundsAreKnown
  PricesAreReviewed
