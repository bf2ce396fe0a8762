SPECIFICATION FairUdpSpec
CONSTANTS
  Clients = {c1, c2}
  Server = server
  Stranger = stranger
  Nobody = nobody
  MaxCalls = 2
  Once = {c2}
  MaxFaults = 2
INVARIANT ReplyIsOwn
PROPERTY CallsEnd
CHECK_DEADLOCK FALSE
