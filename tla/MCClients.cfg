SPECIFICATION Spec
CONSTANTS
  Sessions = {s1, s2}
  Null = Null
  ScopeSets <- MCScopeSets
  Ttl = 1
  Horizon = 1
  Persistent = FALSE
  MaxRequests = 2
  MaxStarts = 1
  NoKey = NoKey
  MaxKeys = 3
  Retries = 2
INVARIANTS
  CaptureWasAuthorized
  EndedMeansEnded
  KeysMatch
PROPERTIES
  DecisionIsLearned
  PublicationSettles
