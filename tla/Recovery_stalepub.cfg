SPECIFICATION Spec
CONSTANTS
  HasGetState = FALSE
  MaxPublished = 2
  MaxCalls = 1
  MaxFaults = 1
PROPERTY PositionNeverMovesBack
CHECK_DEADLOCK FALSE
