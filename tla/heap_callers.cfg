SPECIFICATION Spec
CONSTANTS
  HeapBegin = 4
  HeapEnd = 66
  DescSize = 2
  Sizes = {1, 5, 9}
  AddrMod = 92
  Task = {t1}
  Idle = Idle
  Overlap = FALSE
INVARIANTS
  PayloadsDisjoint
  PayloadInHeap
  Tiled
  SearchIsFirstFit
CHECK_DEADLOCK FALSE
