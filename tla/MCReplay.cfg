SPECIFICATION Spec
CONSTANTS
  Events = {e1, e2, e3}
  NUL = nul
  BatchSize = 2
  ScanLimit = 2
  DLQ = TRUE
  PersistentBuf = TRUE
  SplunkUp = FALSE
INVARIANT TypeOK
PROPERTIES TruncatedDLQWasSent ReadableSentBeforeTruncation SavesKeepReachableLines
