\* Sessions under Web Locks, under password changes and under lost answers; links.
CONSTANTS
  t1 = t1
  t2 = t2
  s1 = s1
  s2 = s2
  r1 = r1
  r2 = r2
  r3 = r3
  k1 = k1
  k2 = k2
  None = None
  Tabs = {t1, t2}
  Ids = {s1, s2}
  Requests = {r1, r2, r3}
  Kinds = {"restore", "login", "logout"}
  WebLocks = TRUE
  MaxRefreshes = 3
  MaxHash = 1
  MaxFaults = 1
SYMMETRY Symmetry
SPECIFICATION MCSpec
CHECK_DEADLOCK FALSE
INVARIANTS
  LiveUnderCurrentPassword
  ExchangedOnce
PROPERTIES
  LocksKeepSessions
  LinksEnd
