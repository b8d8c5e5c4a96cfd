CONSTANTS
  Tasks = {t1}
  Workers = {w1,w2}
  Reports = {c1}
  Providers = {p1,p2}
  Async = {t1}
  SendActions = {"retry", "switch_provider", "fail", "alert"}
  CallbackActions = {"fail", "alert"}
  RetryMax = 2
  SwitchMax = 1
  ExcludeCurrent = TRUE
  BatchSize = 1
  MaxFaults = 2
  AmbiguousPush = FALSE
  OneVerdict = TRUE
  Scanning = TRUE
  NoRow = NoRow
SPECIFICATION Spec
INVARIANTS SendBound 
SYMMETRY NameSymmetry
CHECK_DEADLOCK FALSE
