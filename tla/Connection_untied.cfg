SPECIFICATION Spec
CONSTANTS
  Tokens <- MCTokens
  HasGetToken = TRUE
  MaxAttempts = 8
  MaxCalls = 3
  MaxFaults = 1
PROPERTIES OutdatedReportIgnored
CHECK_DEADLOCK FALSE
