CONSTANTS
  A = A
  B = B
  main = main
  work = work
  Tasks = {A, B}
  Default = Default
  a1 = a1
  a2 = a2
  b1 = b1
  Slots = {a1, a2, b1}
  TaskOf <- MCTaskOf
  Dirs = {main, work}
  ProcessCwd = main
  TerminalCwd = Unset
  Unset = Unset
  Override <- MCOverride
  PathOrder <- MCPathOrder
  Inputs <- MCInputs
  Commands <- MCCommands
  Hosts = {"same"}
  Cap = 1
  MaxCalls = 3
  MaxEdits = 1
  MaxOther = 1
SPECIFICATION Spec
INVARIANTS
  TypeOK
  EditsKept
  NoDeadlock
SYMMETRY CallsOfA
CHECK_DEADLOCK FALSE
