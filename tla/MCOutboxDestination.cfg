SPECIFICATION Spec
CONSTANTS
  EventIds = {e1, e2, e1lw}
  ReservedIds = {e1lw}
  Objects = {o1, o2}
  Rows = {w1, w2}
  Sources = {s1, s2}
  Partitions = {p1, p2}
  Stores = {role, other}
  Role = role
INVARIANTS
  ReceiptsAreBacked
  OnePartition
PROPERTIES
  AppliedAtMostOnce
