SPECIFICATION Spec
CONSTANTS
  a = a
  b = b
  a1 = a1
  a2 = a2
  b1 = b1
  NoSub = NoSub
  Channels = {a, b}
  Subs = {a1, a2, b1}
  ChannelOf <- MCChannelOf
  Ids = {1, 2}
  MaxCalls = 6
  MaxPushes = 1
  MaxFaults = 1
INVARIANTS RightSubscription SubscribedIsRouted ActiveIsRegistered
CHECK_DEADLOCK FALSE
