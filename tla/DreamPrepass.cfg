SPECIFICATION PrepassSpec
CONSTANTS
  private = private
  public = public
  secret = secret
  Types <- ThreeTypes
  Names <- ThreeNames
  Bodies = {private, public, secret}
  Rejected = {secret}
  Redacted <- OneSpan
  MaxFiles = 3
  MaxCrashes = 1
  MaxPasses = 2
INVARIANTS
  IdempotentAfterTwo
PROPERTIES
  BodiesAreKept
CHECK_DEADLOCK FALSE
