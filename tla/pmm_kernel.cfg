SPECIFICATION Spec
CONSTANTS
  WordBits = 4
  ByteBits = 2
  Words = 16
  BlockSize = 4
  MemSize = 64
  Available <- MemoryMap
  Deinits <- KmainDeinits
  Runs = {}
  UintMod = 256
INVARIANTS
  KernelReserved
CHECK_DEADLOCK FALSE
