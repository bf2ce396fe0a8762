SPECIFICATION Spec
CONSTANTS
  Half = 2
  MaxCalls = 2
  Cap = 1
  Resend = FALSE
  Reconnect = FALSE
  max_attempts = {}
  Faults = {}
  MaxFaults = 0
PROPERTY CorrectReplyReturned
CHECK_DEADLOCK FALSE
