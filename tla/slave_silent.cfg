SPECIFICATION Spec
CONSTANTS
  R = 4
  Answers <- GivenOrSilent
  MaxWrite = 5
  MaxRead = 5
  MaxStarts = 3
  Lag = FALSE
  Early = FALSE
  RestartFull = FALSE
  Reread = FALSE
INVARIANT ReadAnswered
CHECK_DEADLOCK FALSE
