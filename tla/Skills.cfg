SPECIFICATION Spec
CONSTANTS
  e1 = e1
  good = good
  bad = bad
  None = None
  Evolvers = {e1}
  Skills <- TwoSkills
  Texts = {good, bad}
  Rejected = {bad}
  GlobLimit = 100
  Strays = TRUE
  MaxRuns = 2
  MaxForeign = 1
  MaxFaults = 1
  MaxCrashes = 1
  MaxMishaps = 1
INVARIANTS
  AllOrNothing
  ReadableAtRest
  CoordinationIsTrue
PROPERTIES
  PublicationIsLocal
CHECK_DEADLOCK FALSE
