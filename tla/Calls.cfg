SPECIFICATION LiveSpec
CONSTANTS
  c1 = c1
  c2 = c2
  c3 = c3
  ClientCalls = {c1}
  SubCalls = {c2}
  Sends = {c3}
  MaxCmdID = 4
  LastCmdID = 3
  MaxOpened = 2
  MaxCalls = 3
  MaxFaults = 1
INVARIANTS ResultOnce WaitsOnlyWhileComing ServerAccepts
PROPERTY EveryCallAnswered
CHECK_DEADLOCK FALSE
