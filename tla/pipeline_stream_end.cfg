SPECIFICATION FairSpec
CONSTANTS
  Pushers = {p1, p2}
  ChanCap = 1
  StreamCap = 1
  MaxMsgs = 1
PROPERTY StreamEnds
CHECK_DEADLOCK FALSE
