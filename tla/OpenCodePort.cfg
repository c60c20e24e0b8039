SPECIFICATION Spec
CONSTANTS
  s1 = s1
  Sessions = {s1}
  MessageLimit = 2
  MaxTurns = 3
  MaxIdles = 3
  MaxFailures = 2
INVARIANTS
  DoneIsLearned
  GoneWithoutTrace
PROPERTIES
  DeliveredMovesOn
