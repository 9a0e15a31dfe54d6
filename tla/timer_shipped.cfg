SPECIFICATION FairSpec
CONSTANTS
  schedule = schedule
  print_jiffies = print_jiffies
  blink = blink
  Callback = {schedule, print_jiffies}
  Offset <- ShippedOffset
  NoReturn = {schedule}
  JiffyMod = 11
  NoNode = NoNode
PROPERTIES
  EveryCallbackRuns
CHECK_DEADLOCK FALSE
