CONSTANTS
  Callers = {c1, c2, c3}
  MaxRequests = 2
  MinRequests = 2
  Interval = 2
  Timeout = 1
  RateNum = 2
  RateDen = 3
  MaxCalls = 7
  MaxTime = 7
  MaxResets = 3
SPECIFICATION Spec
INVARIANTS TypeOK Accounted HalfOpenBound NeverWedged
PROPERTIES OnlyOwnCallsTrip
SYMMETRY CallerSymmetry
CHECK_DEADLOCK FALSE
