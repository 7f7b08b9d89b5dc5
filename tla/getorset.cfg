SPECIFICATION CallersFairSpec
CONSTANTS
  undefined = undefined
  Callers = {p1, p2, p3}
  Values = {v}
  Errors = {e}
  Options <- Extremes
  MayReject = TRUE
INVARIANTS
  SingleFlight
  NoNeedlessRun
  NoResultLost
PROPERTIES
  CallersEnd
