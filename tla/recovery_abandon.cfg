\* The documented fence of an abandoned command.
CONSTANTS
  Actors = {a1}
  RequestIds = {r1}
  Commands = {c1}
  Workers = {w1, w2}
  None = None
  ExclusiveSubmit = FALSE
  MaxFaults = 0
SPECIFICATION Spec
INVARIANTS
  AbandonedIsFenced
