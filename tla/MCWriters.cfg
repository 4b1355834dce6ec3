SPECIFICATION FairSpec
CONSTANTS
  Kinds = {"pipe", "file"}
  Handlers = {h1}
  Flusher = flusher
  Closer = closer
  BatchSize = 2
  WriterSize = 2
  MaxFileSize = 2
  MaxFiles = 1
  MaxEvents = 3
  MaxMishaps = 2
  LastSecond = 1
INVARIANTS TypeOK ReceivedInOrder CurrentFileKept
PROPERTIES ContractSpec RotationLosesOldest EventsLeaveBuffer
CHECK_DEADLOCK FALSE
