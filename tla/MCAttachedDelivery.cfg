SPECIFICATION FairSpec
CONSTANTS
  start = start
  progress = progress
  input = input
  done = done
  corrected = corrected
  amended = amended
  failed = failed
  clean = clean
  Facts = {start, progress, done, corrected, failed}
  Fact <- FactsOfARun
  Procs = {p1, p2}
  MaxFaults = 1
  None = None
INVARIANTS
  TypeOK
  NeverWalksBackward
  NeverGuessesAWinner
  IntentTellsTheTerminal
  ReplacedStaysReplaced
  ReceiptPinsContent
  CreditIsEarned
PROPERTIES
  ConflictFreezesTheResult
  NewestResultIsAnswered
  ImplementsHandOver
CHECK_DEADLOCK FALSE
