SPECIFICATION LiveSpec
CONSTANTS
  HasGetToken = TRUE
  HasGetState = TRUE
  MaxCalls = 3
  MaxFaults = 1
INVARIANTS SubscribingHasWork ServerAgrees NeverAlreadySubscribed
PROPERTIES NothingStaleSent SubscribingEnds
CHECK_DEADLOCK FALSE
