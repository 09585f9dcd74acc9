SPECIFICATION Spec
CONSTANTS
  R = 4
  Answers <- Given
  MaxWrite = 5
  MaxRead = 5
  MaxStarts = 3
  Lag = FALSE
  Early = TRUE
  RestartFull = FALSE
  Reread = FALSE
INVARIANT TypeOK
CHECK_DEADLOCK FALSE
