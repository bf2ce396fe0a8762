SPECIFICATION FairSubSpec
CONSTANTS
  Byte = {0, 1}
  MaxLen = 2
  Cap = 1
  Options <- MCOptions
INVARIANT RedialWithinLimits
PROPERTIES NextFilters RedialEnds
CHECK_DEADLOCK FALSE
