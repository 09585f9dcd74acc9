SPECIFICATION FairSpec
CONSTANTS
  R = 4
  Answers <- Given
  MaxWrite = 5
  MaxRead = 5
  MaxStarts = 3
  Lag = FALSE
  Early = FALSE
  RestartFull = FALSE
  Reread = FALSE
INVARIANT TypeOK
INVARIANT MessagesIntact
INVARIANT ReadAnswered
PROPERTY MessagesArrive
CHECK_DEADLOCK FALSE
