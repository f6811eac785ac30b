CONSTANTS
  a = a
  b = b
  c = c
  d = d
  Calls = {a, b, c, d}
  Tids = {t1, t2}
  Main = Main
  Turns <- MCTurns
  Rejectable = {a, d}
  Unguarded = {c}
  MaxWorkers = 2
  HasDeadline = TRUE
  MaxInterrupts = 1
  MaxSteers = 1
  NoTid = NoTid
SPECIFICATION Spec
INVARIANTS
  TypeOK
  OneResultPerCall
  NoneMeansNotRun
  InterruptDelivered
  SteerOnce
PROPERTY
  BatchEnds
