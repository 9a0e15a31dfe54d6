SPECIFICATION Spec
CONSTANTS
  WordBits = 4
  ByteBits = 2
  Words = 16
  BlockSize = 4
  MemSize = 64
  Available <- MemoryMap
  Deinits <- PhysicalDeinits
  Runs = {}
  UintMod = 256
INVARIANTS
  HeldExclusively
  HeldIsAvailable
  DeinitIsReserved
  NullMeansExhausted
  BitmapInBounds
PROPERTIES
  CountFollowsMap
CHECK_DEADLOCK FALSE
