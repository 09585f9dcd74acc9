SPECIFICATION FairSpec
CONSTANTS
  loop = loop
  high = high
  handler = handler
  Threads = {loop}
  Prio <- PrioOneTask
  HwiPrio = 9
  Owner = loop
  N = 4
  Duplex = TRUE
  MaxWrite = 4
  MaxTotal = 7
  MaxEnds = 1
INVARIANT StaleOnlyWhenCrowded
PROPERTY ChannelSpec
PROPERTY OpenCallsReturn
PROPERTY AllSent
CHECK_DEADLOCK FALSE
