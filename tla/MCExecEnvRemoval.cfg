SPECIFICATION Spec
CONSTANTS
  NumEnvs = 2
  w1 = w1
  inner = inner
  Trees = {w1, w2}
  Targets = {inner}
  Inside <- TargetPlaces
  Provisioners = {p1}
  Cleaners = {c1}
  MaxOpens = 2
  Vanishing = {w1}
  Dispatchable = {w1}
  Unledgered = {w1}
  Holdable = {1}
  None = None
INVARIANTS
  TypeOK
  BindingsNameTheLiveRow
  ClaimShutsOutDispatch
  ReclaimedMeansFreed
  ReclaimingHasOneOwner
PROPERTIES
  UncertifiedTreeStaysFenced
CHECK_DEADLOCK FALSE
