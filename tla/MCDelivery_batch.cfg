CONSTANTS
  Tasks = {t1,t2}
  Workers = {w1,w2}
  Reports = {}
  Providers = {p1,p2}
  Async = {}
  SendActions = {"switch_provider"}
  CallbackActions = {"fail"}
  RetryMax = 1
  SwitchMax = 1
  ExcludeCurrent = TRUE
  BatchSize = 2
  MaxFaults = 1
  AmbiguousPush = TRUE
  OneVerdict = TRUE
  Scanning = FALSE
  NoRow = NoRow
SPECIFICATION Spec
INVARIANTS  BoundedStranding SwitchNeverRepeats
SYMMETRY NameSymmetry
CHECK_DEADLOCK FALSE
