CONSTANTS
  Turn = Turn
  Closer = Closer
  NoThread = NoThread
  MaxMessages = 6
  MaxFailures = 1
  MaxCrashes = 1
SPECIFICATION Spec
INVARIANTS
  TypeOK
  RowsInOrder
  MarkIsRow
  NothingLost
CHECK_DEADLOCK FALSE
