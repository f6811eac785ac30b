CONSTANTS
  None = None
  MaxAttempts = 2
  MaxChunks = 2
  MaxRefreshes = 1
  MaxFailures = 1
SPECIFICATION Spec
INVARIANTS
  TypeOK
  OwnConnection
  NoClientLost
  LateAtMostOnce
PROPERTY
  AbortedEnds
CHECK_DEADLOCK FALSE
