SPECIFICATION FairSpec
CONSTANTS
  NumTickets = 2
  main = main
  fork = fork
  other = other
  Heads = {main, fork, other}
  Head <- TwoForks
  Lineage <- ForkLineage
  Drains = {p1, p2}
  Abandoners = {a1}
  Cancellable = {1}
  MaxAttempts = 2
  MaxFaults = 1
  None = None
INVARIANTS
  TypeOK
  OneCargo
  TornIsFenced
PROPERTIES
  LastDriverDecidesReuse
  EveryTicketEnds
CHECK_DEADLOCK FALSE
