SPECIFICATION LiveSpec
CONSTANTS
  w1 = w1
  w2 = w2
  w3 = w3
  Writers = {w1, w2, w3}
  NoWriter = NoWriter
  Timeout = 3
  Environments <- AnyEnvironment
INVARIANTS
  MutualExclusion
PROPERTIES
  ImplementsMutex
  ElockedOnlyIfAlive
  BoundedWait
