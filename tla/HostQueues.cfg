SPECIFICATION Spec
CONSTANTS
  Sessions = {1, 2}
  Gate <- SmallGate
  Hosts <- SmallHosts
  MaxEvents = 5
INVARIANTS
  ModelIsOfTheEvent
  CallsComeInTime
  TurnsPrecedeEnd
  FailuresSurface
  PublishedIsDreamt
PROPERTIES
  TurnsSettle
CHECK_DEADLOCK FALSE
