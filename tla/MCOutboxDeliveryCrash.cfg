SPECIFICATION FairSpec
CONSTANTS
  Events = {1}
  Objects = {o1}
  Values = {v1}
  Reasons = {r1}
  Hosts = {h1, h2}
  Limits = {1}
  StaleBounds = {1}
  MaxTime = 1
  MaxRevision = 1
  MaxSuccessors = 0
  MaxCrashes = 1
  DestEdits = {}
PROPERTIES
  EventuallySettled
CHECK_DEADLOCK FALSE
