SPECIFICATION Spec
CONSTANTS
  Events = {e1, e2, e3}
  NUL = nul
  BatchSize = 2
  ScanLimit = 50
  DLQ = FALSE
  PersistentBuf = TRUE
  SplunkUp = FALSE
PROPERTY TruncatedBufferWasSent
