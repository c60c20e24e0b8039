SPECIFICATION Spec
CONSTANTS
  n1 = n1
  n2 = n2
  a = a
  b = b
  p1 = p1
  p2 = p2
  Names = {n1, n2}
  Lines = {a, b}
  Torn = Torn
  NoFile = NoFile
  Prompts = {p1, p2}
  MaxLines = 1
  Limit = 1
  ScanCap = 1
  Scopes <- SmallScopes
SYMMETRY Symmetry
INVARIANTS
  LonePromptIsExact
  AutoThrowsOnlyForRemoved
  VectorsAreOfTheirLines
  NewestIsKept
  ResultIsTrue
CHECK_DEADLOCK FALSE
