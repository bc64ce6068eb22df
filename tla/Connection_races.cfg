SPECIFICATION Spec
CONSTANTS
  Tokens <- MCTokens
  HasGetToken = TRUE
  MaxAttempts = 8
  MaxCalls = 2
  MaxFaults = 2
INVARIANTS ConnectingHasWork TransportIsLatest OpenIsOwned DownIsQuiet
PROPERTIES NoSpuriousTeardown ClosedIsFinal
CHECK_DEADLOCK FALSE
