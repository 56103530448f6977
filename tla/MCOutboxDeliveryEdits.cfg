SPECIFICATION Spec
CONSTANTS
  Events = {1}
  Objects = {o1}
  Values = {v1}
  Reasons = {r1}
  Hosts = {h1}
  Limits = {1}
  StaleBounds = {0}
  MaxTime = 0
  MaxRevision = 2
  MaxSuccessors = 1
  MaxCrashes = 0
  DestEdits = {o1}
INVARIANTS
  TypeOK
PROPERTIES
  ImplementsTransfer
CHECK_DEADLOCK FALSE
