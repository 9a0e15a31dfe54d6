SPECIFICATION Spec
CONSTANTS
  MaxProcs = 3
  Node = {n1, n2, n3}
  NULL = NULL
  Boot = Boot
  SchedOffset = 2
  JiffyModulus = 3
  WorkMod = 2
  DirectCallers = {0}
  SyscallCallers = {0, 1, 2}
  SysNums = {0, 1, 2, 3, 4, 5}
INVARIANTS
  ContextPreserved
  PanicOnlyWhenAllExited
  ListIntact
  SizeMatchesList
  NullOnlyInWindow
  InsertedIsListed
PROPERTIES
  ResumeWhereLeft
  ImplementsRoundRobin
  EveryProcessRuns
CHECK_DEADLOCK FALSE
