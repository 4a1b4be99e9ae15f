\* Two requests at once, two request ids, overlapping submissions, one fault; or
\* two actors with one command.
CONSTANTS
  Actors = {a1, a2}
  RequestIds = {r1, r2}
  Commands = {c1, c2}
  Workers = {w1, w2}
  None = None
  ExclusiveSubmit = FALSE
  MaxFaults = 1
SPECIFICATION Spec
SYMMETRY Symmetry
CONSTRAINT Few
INVARIANTS
  OutcomeIsOwn
  ResolvedHasSource
  OneBlockingPerActor
  AnswerMatchesRequest
PROPERTIES
  ClosedIsFinal
