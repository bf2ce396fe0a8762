SPECIFICATION FairSpec
CONSTANTS
  Half = 4
  MaxCalls = 2
  Cap = 1
  Resend = TRUE
  Reconnect = TRUE
  max_attempts = {2}
  Faults = {"break", "crash", "cancel", "drop"}
  MaxFaults = 3
INVARIANTS TypeOK ReplyIsOwn IdsConsistent AtMostOnceWithoutResend
PROPERTIES CorrectReplyReturned EveryCallReturnsOrStuck
CHECK_DEADLOCK FALSE
