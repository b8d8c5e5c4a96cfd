CONSTANTS
  b1 = b1
  b2 = b2
  b3 = b3
  c1 = c1
  c2 = c2
  Bindings = {b1, b2, b3}
  Existing = {b1, b2}
  Provider <- MCProvider
  Priority <- MCPriority
  Weight <- MCWeight
  Rank <- MCRank
  Callers = {c1, c2}
  Selector <- OneReplica
  Receivers = {r1}
  Excludes <- MCExcludes
  Covered = TRUE
  MaxChanges = 1
  MaxFaults = 1
  None = None
SPECIFICATION Spec
INVARIANTS TypeOK NoRepeat WeightsBounded
SYMMETRY CallerSymmetry
CHECK_DEADLOCK FALSE
