CONSTANTS
  Apps = {a1}
  Clients = {c1, c2}
  Syncers = {s1, s2}
  Quotas = {0, 1}
  DefaultQuota = 2
  RateLimit = 1
  Second = 2
  Day = 2
  MaxTime = 2
  MaxFaults = 1
  None = None
SPECIFICATION Spec
INVARIANTS AcceptedWithinQuota  StatsOfTheirDay
SYMMETRY MCSymmetry
CHECK_DEADLOCK FALSE
