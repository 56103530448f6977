SPECIFICATION Spec
CONSTANTS
  Claims = {c1}
  Agents = {a1}
  Clients = {k1}
  Issues = {i1}
  Flows = {}
  Projects = {}
  h1 = h1
  h2 = h2
  Heads = {h1, h2}
  Envs = {}
  Worktrees <- TwoWorktrees
  Scopes <- NestedScopes
  Terms <- TwoWritersAndReader
  None = None
  MaxVersion = 2
INVARIANTS
  OrphansHaveAWayOut
CHECK_DEADLOCK FALSE
