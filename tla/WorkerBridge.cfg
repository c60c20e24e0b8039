SPECIFICATION Spec
CONSTANTS
  c1 = c1
  c2 = c2
  Callers = {c1, c2}
  MaxCommands = 4
  MaxAsks = 2
  MaxDeaths = 1
  MaxGarbage = 2
SYMMETRY Symmetry
INVARIANTS
  NothingRunsOn
  NothingLeftInBuffer
PROPERTIES
  ImplementsRequests
