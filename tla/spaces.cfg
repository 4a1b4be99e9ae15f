\* Periods, changes of status, demoted owners and types of spaces.
CONSTANTS
  ann = ann
  bob = bob
  b1 = b1
  b2 = b2
  m1 = m1
  m2 = m2
  s1 = s1
  s2 = s2
  t1 = t1
  t2 = t2
  o1 = o1
  o2 = o2
  w1 = w1
  w2 = w2
  None = None
  Users = {ann, bob}
  Branches = {b1, b2}
  Merchants = {m1, m2}
  Workers = {w1, w2}
  Spaces = {s1, s2}
  Types = {t1, t2}
  Occupancies = {o1, o2}
  BranchOf <- TwoBranches
  Commands <- AllCommands
  Demoted = {ann}
  Switched = {b1}
  Switching = TRUE
  MaxTime = 2
  MaxVersion = 3
SYMMETRY WorkerSymmetry
SPECIFICATION MCSpec
INVARIANTS
  NeverDoubleOccupied
  OccupantsAreActive
  ArchivedIsEmpty
PROPERTIES
  WritesAreLawful
  TypesAreCurrent
