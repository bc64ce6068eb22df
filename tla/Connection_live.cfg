SPECIFICATION LiveSpec
CONSTANTS
  Tokens <- MCTokens
  HasGetToken = FALSE
  MaxAttempts = 9
  MaxCalls = 3
  MaxFaults = 1
INVARIANT NeverResendRejected
PROPERTIES ConnectingEnds CloseEnds
CHECK_DEADLOCK FALSE
