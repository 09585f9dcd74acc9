SPECIFICATION Spec
CONSTANTS
  loop = loop
  high = high
  handler = handler
  Threads = {loop, high, handler}
  Prio <- PrioPreempt
  HwiPrio = 9
  Owner = loop
  N = 2
  Duplex = TRUE
  MaxWrite = 2
  MaxTotal = 3
  MaxEnds = 0
INVARIANT TypeOK
INVARIANT TxOwnership
INVARIANT SliceInBounds
INVARIANT HeldWhileSending
CHECK_DEADLOCK FALSE
