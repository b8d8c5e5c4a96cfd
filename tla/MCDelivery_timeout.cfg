CONSTANTS
  Tasks = {t1}
  Workers = {w1}
  Reports = {c1}
  Providers = {p1}
  Async = {t1}
  SendActions = {"retry"}
  CallbackActions = {"fail"}
  RetryMax = 1
  SwitchMax = 0
  ExcludeCurrent = TRUE
  BatchSize = 1
  MaxFaults = 0
  AmbiguousPush = FALSE
  OneVerdict = TRUE
  Scanning = TRUE
  NoRow = NoRow
SPECIFICATION Spec
PROPERTIES TimeoutKeepsTheRest
CHECK_DEADLOCK FALSE
