SPECIFICATION Spec
CONSTANTS
  Kinds = {"pipe"}
  Handlers = {h1}
  Flusher = flusher
  Closer = closer
  BatchSize = 2
  WriterSize = 3
  MaxFileSize = 2
  MaxFiles = 1
  MaxEvents = 3
  MaxMishaps = 1
  LastSecond = 1
PROPERTY FlushWritesAll
CHECK_DEADLOCK FALSE
