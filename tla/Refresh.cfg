SPECIFICATION MCSpec
CONSTANTS
  f1 = f1
  f2 = f2
  Flows = {f1, f2}
  MaxCalls = 3
  MaxFaults = 2
  MaxEvents = 4
INVARIANT BothHaveOneRefresh
PROPERTIES BothEndedChangeNothing BothUseFreshTokens BothGoOn
CHECK_DEADLOCK FALSE
