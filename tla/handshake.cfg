SPECIFICATION FairSpec
CONSTANTS
  Protocols = {"PAIR0", "PAIR1", "PUB0", "SUB0", "REQ0", "REP0", "PUSH0", "PULL0", "SURVEYOR0", "RESPONDENT0", "BUS0", "X99", "X9A"}
  Schemes = {"sp", "ws"}
  Urls = {"tcp", "ipc", "ipc2", "ws", "wss", "tls+tcp", "quic", "vsock", "kcp"}
  Few = {"REQ0", "REP0"}
  HsLen = 2
  FrameLen = 1
  StreamCap = 3
  Faults = TRUE
INVARIANTS TypeOK Agreement MatchedPairs
PROPERTIES Decides FittingEndsConnect
CHECK_DEADLOCK FALSE
