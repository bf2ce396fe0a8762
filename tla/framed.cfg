SPECIFICATION FairSpec
CONSTANTS
  Base = 2
  LenBytes = 2
  UsizeLimit = 4
  Format = "Ipc"
  MAX_FRAME_BYTES = 2
  Messages <- MCMessagesOversize
  MaxSends = 3
  StreamCap = 2
  max_bufs = 1
  max_buf_bytes = 2
INVARIANTS TypeOK PrefixIntact
PROPERTIES ChannelSpec OversizeRejected SentIsDelivered
