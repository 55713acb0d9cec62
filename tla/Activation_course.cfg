CONSTANTS
  Processes = {p1, p2}
  Kinds <- MCKinds
  Keys = {k1}
  MaxAttempts = 2
  MaxOrdinal = 1
  MaxGenerations = 2
  MaxFaults = 1
  MaxRequests = 3
  Last = 2
  MaxReconnects = 1
  MaxPolls = 2
  None = None
SPECIFICATION MCSpec
INVARIANTS WorkKept SourceHeld
PROPERTIES InOrder OperationsFinish ProgressTold
CHECK_DEADLOCK FALSE
