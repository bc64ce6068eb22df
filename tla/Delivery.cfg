SPECIFICATION MCLiveSpec
CONSTANTS
  MCChannels = {news}
  MCRecoverable = {news}
  HasGetState = TRUE
  MaxPublished = 2
  MaxCalls = 3
  MaxFaults = 2
  MaxServerPublished = 2
  MaxServerCalls = 2
  MaxServerChanges = 2
  MaxServerFaults = 2
  MaxServerEvents = 3
INVARIANTS DeltasFitTheirBase BothRecoverFromWhatWasSeen ServerSubsAgree
PROPERTIES CatchesUp BothFollowStream
CHECK_DEADLOCK FALSE
