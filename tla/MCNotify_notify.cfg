CONSTANTS
  t1 = t1
  t2 = t2
  Tasks = {t1, t2}
  Via <- MCVia
  Fleets <- MCFleets
  Bindings <- MCBindings
  Params <- MCParams
  Config <- MCConfig
  Workers = {w1, w2}
  SendActions = {"retry", "fail"}
  CallbackActions = {"retry", "fail"}
  Answers <- MCAnswers
  Rests = {3}
  Margin = 2
  Slack = 1
  MaxTime = 4
  MaxSends = 2
  MaxReports = 2
  MaxFaults = 1
  None = None
SPECIFICATION Spec
INVARIANTS OwnReports SuccessIsCarried TokenWorks ParamsInPlace
PROPERTIES OwnTimeout SuccessIsTold
CHECK_DEADLOCK FALSE
