CONSTANTS
  Tasks = {t1}
  Workers = {w1,w2}
  Reports = {c1,c2}
  Providers = {p1}
  Async = {t1}
  SendActions = {"retry"}
  CallbackActions = {"fail"}
  RetryMax = 2
  SwitchMax = 0
  ExcludeCurrent = TRUE
  BatchSize = 2
  MaxFaults = 1
  AmbiguousPush = FALSE
  OneVerdict = TRUE
  Scanning = FALSE
  NoRow = NoRow
SPECIFICATION FairSpec
INVARIANTS TypeOK
   
CHECK_DEADLOCK FALSE
