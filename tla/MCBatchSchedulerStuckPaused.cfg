SPECIFICATION FairSpec
CONSTANTS
  Batches = {a}
  Known = {a}
  Null = Null
  Concurrency = 1
  MaxRetries = 2
  MaxQueueSize = 2
  Calls = {"stop"}
  MaxItems = 2
  MaxWorkers = 2
PROPERTIES
  PausedIsResumed
CHECK_DEADLOCK FALSE
