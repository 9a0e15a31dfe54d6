SPECIFICATION LibrarySpec
CONSTANTS
  Node = {n1, n2, n3, n4}
  NULL = NULL
  Val = {a, b}
  NoVal = NoVal
  Uses <- OwnerUses
  order = 3
  Keys = {1, 2, 3, 4, 5, 6}
  MapValues = {1, 2}
  MaxNodes = 12
  CHUNKSIZE = 48
  HeapStarts = {8, 184}
  HeapSizes = {8, 40, 320}
  SignBit = 200
  Requests = {0, 1, 9, 48}
  MaxLive = 3
  Chars = {0, 65}
  MaxTyped = 3
  MemSize = 6
  MaxCopy = 3
SYMMETRY NodeSymmetry
INVARIANTS
  WellFormed
  NoDangling
  StringsAgree
  TreeWellFormed
  TraversalsAgree
  BoundaryTags
  
  ProgramsCompute
PROPERTIES
  ImplementsDeque
  ImplementsDict
CHECK_DEADLOCK FALSE
