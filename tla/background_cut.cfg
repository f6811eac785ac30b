CONSTANTS
  MaxKids = 2
  MaxCalls = 1
  Nobody = Nobody
  MaxDepth = 2
  MaxChildren = 2
  HasTimeout = FALSE
  MaxInterrupts = 1
  MaxFailures = 0
SPECIFICATION Spec
INVARIANTS
  BackgroundUnaffected
CHECK_DEADLOCK FALSE
