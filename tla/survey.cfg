SPECIFICATION FairSpec
CONSTANTS
  Respondents = {r1, r2}
  IdMax = 3
  MaxSurveys = 3
  MaxConns = 3
  Cap = 1
  MaxBreaks = 1
  Reconnect = TRUE
INVARIANTS TypeOK ResponsesCurrent
PROPERTY SurveyReturns
CHECK_DEADLOCK FALSE
