CONSTANTS
  Singles = {t1}
  Batched = {}
  Scanners = {s1}
  Times = {3}
  Second = 2
  LastInstant = 4
  ScanCount = 1
  WholeSeconds = FALSE
  MaxFaults = 0
  NoScore = NoScore
SPECIFICATION FairSpec
PROPERTIES ScheduledIsSent
CHECK_DEADLOCK FALSE
