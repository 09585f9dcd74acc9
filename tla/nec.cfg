SPECIFICATION Spec
CONSTANTS
  NEC_BITS = 2
  Gaps <- RepeatSpace
  Stretches <- OnTime
  MaxSent = 4
  MaxLate = 1
  MaxCuts = 1
  SlowPoll = FALSE
INVARIANT TypeOK
INVARIANT DecodedWasSent
INVARIANT FrameReceived
CHECK_DEADLOCK FALSE
