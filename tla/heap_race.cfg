SPECIFICATION Spec
CONSTANTS
  HeapBegin = 4
  HeapEnd = 66
  DescSize = 2
  Sizes = {1, 5}
  AddrMod = 92
  Task = {t1}
  Idle = Idle
  Overlap = TRUE
INVARIANTS
  PayloadsDisjoint
CHECK_DEADLOCK FALSE
