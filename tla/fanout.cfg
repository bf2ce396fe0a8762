SPECIFICATION FairSpec
CONSTANTS
  Scenarios <- MCScenarios
  MaxConns = 3
  MaxMsgs = 5
  Cap = 1
INVARIANTS TypeOK LivePeersKept InTurn
PROPERTIES  ReachesAll PublishReturns OnlyFrontStarves
CHECK_DEADLOCK FALSE
