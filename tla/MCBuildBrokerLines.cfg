SPECIFICATION Spec
CONSTANTS
  NumTickets = 3
  main = main
  fork = fork
  other = other
  Heads = {main, fork, other}
  Head <- ForkMainOther
  Lineage <- ForkLineage
  Drains = {p1}
  Abandoners = {}
  Cancellable = {}
  MaxAttempts = 2
  MaxFaults = 0
  None = None
INVARIANTS
  ResidentStaysOnOneLine
CHECK_DEADLOCK FALSE
