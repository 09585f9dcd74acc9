SPECIFICATION Spec
CONSTANTS
  NEC_BITS = 2
  Gaps <- LongSilence
  Stretches <- OnTime
  MaxSent = 3
  MaxLate = 0
  MaxCuts = 1
  SlowPoll = FALSE
INVARIANT FrameReceived
CHECK_DEADLOCK FALSE
