SPECIFICATION Spec
CONSTANTS
  MaxProcs = 3
  Node = {n1, n2, n3}
  NULL = NULL
  Boot = Boot
  SchedOffset = 2
  JiffyModulus = 5
  WorkMod = 1
  DirectCallers = {}
  SyscallCallers = {}
  SysNums = {}
PROPERTIES
  CreatedProcessRuns
CHECK_DEADLOCK FALSE
