CONSTANTS
  Singles = {t1, t2}
  Batched = {b1}
  Scanners = {s1, s2}
  Times = {0, 4, 6}
  Second = 3
  LastInstant = 7
  ScanCount = 1
  WholeSeconds = TRUE
  MaxFaults = 1
  NoScore = NoScore
SPECIFICATION FairSpec
INVARIANTS PushBound LossNeedsFault
PROPERTIES NeverEarly EverySendGoesOut
CHECK_DEADLOCK FALSE
