SPECIFICATION Spec
CONSTANTS
  Respondents = {r1, r2}
  IdMax = 3
  MaxSurveys = 2
  MaxConns = 2
  Cap = 2
  MaxBreaks = 0
  Reconnect = FALSE
INVARIANT EarlyReturnComplete
CHECK_DEADLOCK FALSE
