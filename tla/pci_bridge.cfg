SPECIFICATION DriversSpec
CONSTANTS
  schedule = schedule
  print_jiffies = print_jiffies
  blink = blink
  Callback = {schedule, print_jiffies, blink}
  Offset <- MixedOffset
  NoReturn = {schedule}
  JiffyMod = 11
  NoNode = NoNode
  FB_WIDTH = 5
  FB_HEIGHT = 2
  VideoRows = 6
  Processes = {p1, p2}
  Texts <- Lines
  MaxPrints = 3
  Hands <- Keys
  MaxPresses = 3
  RX_BUF_SIZE = 24
  Lengths = {5, 9}
  Senders = {p1, p2}
  Protocols = {2054, 9}
  Descriptors = 2
  MaxFrames = 3
  Machines <- SmallMachines
  DEVICE_PER_BUS = 2
  FUNCTION_PER_DEVICE = 4
  FunctionNums = 2
  StackLimit = 3
INVARIANTS
  SearchesBehindBridge
CHECK_DEADLOCK FALSE
