SPECIFICATION Spec
CONSTANTS
  Events = {1}
  Objects = {o1}
  Values = {v1}
  Reasons = {r1}
  Hosts = {h1, h2}
  Limits = {1}
  StaleBounds = {1, 2}
  MaxTime = 3
  MaxRevision = 2
  MaxSuccessors = 1
SYMMETRY HostSymmetry
INVARIANTS
  SuccessorLineage
  ErrorClassLaw
PROPERTIES
  TakeoverRespectsBound
  FirstOutcomeStands
  WithdrawalIsReported
CHECK_DEADLOCK FALSE
