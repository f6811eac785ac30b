CONSTANTS
  Threads = {t1, t2}
  t1 = t1
  t2 = t2
  None = None
  MaxContainers = 4
  MaxEnvs = 3
  MaxTroubles = 1
  MaxSweeps = 1
SPECIFICATION Spec
INVARIANTS
  TypeOK
  OneSandbox
  StartedOnce
PROPERTY
  LockFreed
CHECK_DEADLOCK FALSE
