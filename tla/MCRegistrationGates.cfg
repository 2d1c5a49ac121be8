\* Every gate is on; the quota is one registration per hour of one tick.
SPECIFICATION Spec
CONSTANTS
  i1 = i1
  i2 = i2
  rec = rec
  r1 = r1
  r2 = r2
  r3 = r3
  none = none
  Sessions <- MCSessions
  Null <- none
  ScopeSets <- MCScopeSets
  Ttl = 0
  Horizon = 1
  Persistent = TRUE
  Requests <- MCRequests
  RecordingSessions <- MCRecordingSessions
  RecordingsPersistent = TRUE
  QuotaPerHour = 1
  Hour = 1
  Gates <- MCAllGates
SYMMETRY Symmetric
CHECK_DEADLOCK FALSE
INVARIANTS TypeOK OneProofPerSession GeneratedRestsOnRecorded QuotaHoldsWithoutAwait
PROPERTIES EndedIsFinal ImplementsOneTimeGrant
