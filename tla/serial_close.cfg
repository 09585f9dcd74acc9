SPECIFICATION FairSpec
CONSTANTS
  loop = loop
  high = high
  handler = handler
  Threads = {loop}
  Prio <- PrioOneTask
  HwiPrio = 9
  Owner = loop
  N = 4
  Duplex = FALSE
  MaxWrite = 2
  MaxTotal = 4
  MaxEnds = 1
PROPERTY CallsReturn
CHECK_DEADLOCK FALSE
