SPECIFICATION BoardSpec
CONSTANTS
  loopA = loopA
  loopB = loopB
  Tasks = {loopA, loopB}
  Prio <- PrioEqual
  Period = 4
  TickMod = 10
  Delays = {0, 1, 4, 7, 8}
  Resolutions = {1, 4}
  Lone = TRUE
  MaxTicks = 1000
INVARIANT TypeOK
INVARIANT NoOversleep
INVARIANT Accurate
INVARIANT ClockSurvives
INVARIANT OneConstraint
PROPERTY NoEarlyWake
PROPERTY DelaysEnd
PROPERTY RoundIsExact
