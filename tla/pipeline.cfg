SPECIFICATION FairSpec
CONSTANTS
  Pushers = {p1, p2}
  ChanCap = 1
  StreamCap = 2
  MaxMsgs = 3
INVARIANTS TypeOK NothingLost
PROPERTIES PushedIsPulled DropEndsTasks
CHECK_DEADLOCK FALSE
