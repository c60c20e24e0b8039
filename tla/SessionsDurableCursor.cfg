SPECIFICATION Spec
CONSTANTS
  s1 = s1
  s2 = s2
  Sessions = {s1, s2}
  MaxTurn = 2
  Hosts <- HermesHost
  MaxMessages = 4
  ContextSize = 1
INVARIANTS
  CursorIsProcessed
CHECK_DEADLOCK FALSE
