CONSTANTS
  MaxKids = 2
  MaxCalls = 2
  Nobody = Nobody
  MaxDepth = 2
  MaxChildren = 2
  HasTimeout = TRUE
  MaxInterrupts = 1
  MaxFailures = 1
SPECIFICATION Spec
INVARIANTS
  TypeOK
  OneEntryPerTask
  NamesRestored
PROPERTY
  CallsReturn
CHECK_DEADLOCK FALSE
