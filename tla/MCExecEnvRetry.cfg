SPECIFICATION Spec
CONSTANTS
  NumEnvs = 1
  w1 = w1
  inner = inner
  Trees = {w1}
  Targets = {}
  Inside <- TargetPlaces
  Provisioners = {p1}
  Cleaners = {c1}
  MaxOpens = 1
  Vanishing = {w1}
  Dispatchable = {w1}
  Unledgered = {}
  Holdable = {}
  None = None
INVARIANTS
  LaterSweepCanRetry
CHECK_DEADLOCK FALSE
