SPECIFICATION FairSpec
CONSTANTS
  Batches = {a, b, x}
  Known = {a, b}
  Null = Null
  Concurrency = 2
  MaxRetries = 2
  MaxQueueSize = 2
  Calls = {"stop", "clear"}
  MaxItems = 2
  MaxWorkers = 4
INVARIANTS
  StatesAgree
  OnePublisherPerBatch
  AttemptsBounded
  StoredIsReported
PROPERTIES
  EventuallySettled
CHECK_DEADLOCK FALSE
