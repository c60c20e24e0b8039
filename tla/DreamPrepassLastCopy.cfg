SPECIFICATION PrepassSpec
CONSTANTS
  private = private
  public = public
  secret = secret
  Types <- TwoTypes
  Names <- TwoNames
  Bodies = {private, public}
  Rejected = {}
  Redacted <- NoSpan
  MaxFiles = 2
  MaxCrashes = 0
  MaxPasses = 1
PROPERTIES
  LastCopyIsKept
CHECK_DEADLOCK FALSE
