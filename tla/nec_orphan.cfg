SPECIFICATION Spec
CONSTANTS
  NEC_BITS = 2
  Gaps <- RepeatSpace
  Stretches <- OnTime
  MaxSent = 3
  MaxLate = 0
  MaxCuts = 1
  SlowPoll = FALSE
PROPERTY RepeatsTheLast
CHECK_DEADLOCK FALSE
