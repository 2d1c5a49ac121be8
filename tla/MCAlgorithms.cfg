SPECIFICATION Spec
CONSTANTS
  Size = 2
  Tasks = {t1, t2, t3, t4, broken}
  Broken = {broken}
  Faults = {"reject", "die", "terminate"}
  ZERO_HASH = ZERO_HASH
  Leaves = {a, b, c}
  MaxLeaves = 5
  MaxOther = 4
  Byte = 4
  TargetRate = 4
  FloatOf <- MCFloatOf
  Rates = {2, 3, 4, 7, 9}
  MaxSamples = 4
  MaxChunks = 3
  SyncWord <- MCSyncWord
  Payloads <- MCPayloads
  Nibbles = 2
  RepetitionFactor = 4
  SubbandCount = 8
  MaxFrameCount = 190
INVARIANTS
  TasksInOnePlace
  QueueWaitsOnlyAfterFailure
  RootIsBindingTree
  ProvesExactlyItsLeaves
  CanonicalAudioIsFaithful
  WorkerAgrees
  DamageIsCorrected
  LongAudioCarriesPayload
PROPERTIES
  TasksAnswered
CHECK_DEADLOCK FALSE
