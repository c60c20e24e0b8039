SPECIFICATION GateLiveSpec
CONSTANTS
  l1 = l1
  l2 = l2
  Lanes = {l1,l2}
  MinHours = 2
  MinSessions = 2
  MaxTime = 4
  MaxSessions = 3
  MaxFailures = 2
  MaxForced = 1
INVARIANTS
  StateIsExact
PROPERTIES
  DuePassOnly
  OpenGateIsServed
CHECK_DEADLOCK FALSE
