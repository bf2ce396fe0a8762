SPECIFICATION Spec
CONSTANTS
  Base = 8
  LenBytes = 2
  UsizeLimit = 16
  TtlLen = 2
  TtlMask = 4
  MaxTtl = 3
  N = 8
  Data <- MCData
  MaxLen = 4
INVARIANTS TypeOK SameView CodecExact Pair1Delivers
PROPERTY MessageSpec
CHECK_DEADLOCK FALSE
