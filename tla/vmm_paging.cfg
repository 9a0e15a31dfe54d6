SPECIFICATION VmSpec
CONSTANTS
  WordBits = 8
  ByteBits = 2
  Words = 8
  BlockSize = 4
  MemSize = 32
  Available <- VmmMap
  Deinits <- NoDeinits
  Runs = {1, 2}
  UintMod = 256
  Entries = 7
  KernelBase = 14
  Pages = {7, 21, 22}
  Devices = {9}
CONSTRAINT FewStale
INVARIANTS
  NullIsNeverGranted
  TablesPrivate
  KernelStaysMapped
PROPERTIES
  OnePageAtATime
CHECK_DEADLOCK FALSE
