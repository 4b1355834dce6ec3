SPECIFICATION Spec
CONSTANTS
  Clients = {c1, c2}
  MaxConnections = 1
  MaxMessages = 2
  Monitoring = TRUE
  Stamps = {s1, s2}
  None = none
  MaxCapacity = 5000
  Second = 10
  MaxDuration = 80000
SYMMETRY Symmetry
INVARIANTS TypeOK NoAddAfterClose AtMostOneLateEvent TrackedOrCancelled
CHECK_DEADLOCK FALSE
