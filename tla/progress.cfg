\* One request id that is polled for ever, two tabs, one checkout.
CONSTANTS
  None = None
  a1 = a1
  old = old
  new = new
  t1 = t1
  t2 = t2
  s1 = s1
  q1 = q1
  q2 = q2
  Actors = {a1, a2}
  RequestIds = {r1}
  Commands = {c1}
  Workers = {w1, w2}
  ExclusiveSubmit = TRUE
  MaxFaults = 1
SPECIFICATION MCSpec
CHECK_DEADLOCK FALSE
INVARIANTS
  PreparedIsUnexecuted
PROPERTIES
  ImplementsEnvelope
  CommittedIsResolved
  RefreshSettles
  PendingEnds
