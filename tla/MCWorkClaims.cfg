SPECIFICATION Spec
CONSTANTS
  Claims = {c1, c2}
  Agents = {a1, a2}
  Clients = {k1}
  Issues = {i1}
  Flows = {f1}
  Projects = {p1, p2}
  h1 = h1
  h2 = h2
  Heads = {h1, h2}
  Envs = {e1}
  Worktrees <- TwoWorktrees
  Scopes <- NestedScopes
  Terms <- TwoWritersAndReader
  None = None
  MaxVersion = 3
SYMMETRY OwnershipSymmetry
INVARIANTS
  TypeOK
  WritersAreDisjoint
  OneHeadPerIssue
  EvidenceIsConsistent
  OneProjectPerFlow
PROPERTIES
  NoSilentTakeover
  VersionPinsTerms
  EvidenceMovesForward
CHECK_DEADLOCK FALSE
