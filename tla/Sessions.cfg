SPECIFICATION LiveSpec
CONSTANTS
  s1 = s1
  s2 = s2
  Sessions = {s1, s2}
  MaxTurn = 2
  Hosts <- ManyHosts
  MaxMessages = 4
  ContextSize = 1
INVARIANTS
  BehindCursorIsLearned
  TraceIsEvidence
PROPERTIES
  DropOnlyLearned
  FailedWindowIsRetried
  QueueDrains
CHECK_DEADLOCK FALSE
