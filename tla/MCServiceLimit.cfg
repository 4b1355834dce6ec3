SPECIFICATION Spec
CONSTANTS
  Clients = {c1, c2}
  MaxConnections = 1
  MaxMessages = 2
  Monitoring = FALSE
  Stamps = {s1, s2}
  None = none
  MaxCapacity = 5000
  Second = 10
  MaxDuration = 80000
INVARIANT ConnectionLimit
CHECK_DEADLOCK FALSE
