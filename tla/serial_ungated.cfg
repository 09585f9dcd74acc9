SPECIFICATION FairSpec
CONSTANTS
  loop = loop
  task = task
  NoThread = NoThread
  Threads = {loop, task}
  Owner = loop
  R = 2
  Gated = FALSE
  MaxArrive = 4
  MaxEnds = 0
  MaxNest = 0
PROPERTY SleeperServed
CHECK_DEADLOCK FALSE
