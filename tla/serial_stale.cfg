SPECIFICATION Spec
CONSTANTS
  loop = loop
  high = high
  handler = handler
  Threads = {loop}
  Prio <- PrioOneTask
  HwiPrio = 9
  Owner = loop
  N = 4
  Duplex = FALSE
  MaxWrite = 4
  MaxTotal = 7
  MaxEnds = 0
INVARIANT PrimesPending
CHECK_DEADLOCK FALSE
