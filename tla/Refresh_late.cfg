SPECIFICATION MCSpec
CONSTANTS
  f1 = f1
  f2 = f2
  Flows = {f1, f2}
  MaxCalls = 3
  MaxFaults = 1
  MaxEvents = 4
PROPERTY EveryConnectHasFreshToken
CHECK_DEADLOCK FALSE
