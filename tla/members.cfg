\* Owners, the access of a member, and invitations.
CONSTANTS
  ann = ann
  bob = bob
  cyd = cyd
  b1 = b1
  m1 = m1
  m2 = m2
  n1 = n1
  n2 = n2
  w1 = w1
  w2 = w2
  None = None
  Users = {ann, bob, cyd}
  Branches = {b1}
  Merchants = {m1, m2}
  Invites = {n1, n2}
  Workers = {w1, w2}
  MaxTokens = 1
  Commands <- AllCommands
  Founders = {ann}
  Switched = {b1}
  Switching = TRUE
SYMMETRY WorkerSymmetry
SPECIFICATION MCSpec
INVARIANTS
  AlwaysAnOwner
  NoStrayAccess
  AuditFollowsRole
PROPERTIES
  AcceptedWhilePending
