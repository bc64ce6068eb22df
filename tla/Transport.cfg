SPECIFICATION MCSpec
CONSTANTS
  w1 = w1
  Nobody = Nobody
  Writers = {w1}
  Codes = {1009, 2999, 3499, 3500, 3999, 4000, 4499, 4500}
  TextCodes = {0, 3500}
  MaxFrames = 2
  MaxWrites = 2
  Interval = 2
  MaxDelay = 1
  Capacity = 2
  MaxSessions = 2
  Callers = {c1, c2}
  Dispatcher = d
  MaxPush = 4
INVARIANTS EndIsInOrder EndedForSilence NoLostSignal
PROPERTIES EndsAreNoticed SilenceIsNoticed ImplementsFifo EveryPushRuns CallsReturn
CHECK_DEADLOCK FALSE
