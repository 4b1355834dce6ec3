SPECIFICATION FairSpec
CONSTANTS
  Events = {e1, e2}
  NUL = nul
  BatchSize = 2
  ScanLimit = 50
  DLQ = FALSE
  PersistentBuf = TRUE
  SplunkUp = FALSE
PROPERTY StartupCompletes
