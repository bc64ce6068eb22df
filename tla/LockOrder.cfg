SPECIFICATION Spec
CONSTANTS
  c = c
  s1 = s1
  app = app
  timer = timer
  dispatcher = dispatcher
  reader = reader
  Nobody = Nobody
  Subs = {s1}
  Apps = {app}
  Background = {timer}
  MaxCalls = 2
  MaxOthers = 1
INVARIANTS NoDeadlock AwaitedComes
CHECK_DEADLOCK FALSE
