SPECIFICATION FairSpec
CONSTANTS
  Events = {e1, e2}
  Handlers = {h1, h2}
  Flusher = flusher
  Closer = closer
  BatchSize = 2
  MaxRetries = 1
  Threshold = 1
  HECCircuitBreaker = TRUE
  DLQ = TRUE
  PersistentBuf = TRUE
  Answers = {"accepted", "retryable", "rejected", "lost"}
  DiskFaults = TRUE
INVARIANTS TypeOK OneOwner BatchBound EventCountHonest NoSilentLoss BoundedRedelivery
PROPERTIES NilMeansAcknowledged ContractSpec EventsLeaveMemory
CHECK_DEADLOCK FALSE
