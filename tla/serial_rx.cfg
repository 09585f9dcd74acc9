SPECIFICATION FairSpec
CONSTANTS
  loop = loop
  task = task
  NoThread = NoThread
  Threads = {loop, task}
  Owner = loop
  R = 2
  Gated = TRUE
  MaxArrive = 4
  MaxEnds = 1
  MaxNest = 1
INVARIANT ReadSatisfied
PROPERTY InputSpec
PROPERTY SleeperServed
CHECK_DEADLOCK FALSE
