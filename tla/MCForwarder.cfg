SPECIFICATION ForwarderFairSpec
CONSTANTS
  Clients = {c1}
  MaxConnections = 1
  MaxMessages = 2
  Monitoring = FALSE
  Stamps = {s1}
  None = none
  BatchSize = 2
  MaxRetries = 0
  Threshold = 1
  HECCircuitBreaker = TRUE
  DLQ = TRUE
  PersistentBuf = FALSE
  Answers = {"accepted", "rejected"}
  DiskFaults = FALSE
INVARIANTS NothingBehindClose ExitLosesNothing
PROPERTY SlotsComeBack
CHECK_DEADLOCK FALSE
