SPECIFICATION Spec
CONSTANTS
  R = 4
  Answers <- Given
  MaxWrite = 5
  MaxRead = 5
  MaxStarts = 3
  Lag = FALSE
  Early = FALSE
  RestartFull = FALSE
  Reread = FALSE
INVARIANT AwakeInTransfer
CHECK_DEADLOCK FALSE
