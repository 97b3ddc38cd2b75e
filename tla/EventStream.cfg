SPECIFICATION Spec
CONSTANTS
  Requests = {q1, q2}
  Nobody = nobody
  PageSize = 2
  EventLimit = 2
  IdleChecks = 3
  MaxIds = 3
  MaxStarts = 1
  MaxFaults = 1
  MaxDrops = 1
CHECK_DEADLOCK FALSE
INVARIANTS
  StreamIsComplete
