SPECIFICATION Spec
CONSTANTS
  loop = loop
  task = task
  NoThread = NoThread
  Threads = {loop, task}
  Owner = loop
  R = 2
  Gated = TRUE
  MaxArrive = 1
  MaxEnds = 0
  MaxNest = 2
INVARIANT GateHeld
CHECK_DEADLOCK FALSE
