SPECIFICATION Spec
CONSTANTS
  loopA = loopA
  loopB = loopB
  Tasks = {loopA, loopB}
  Prio <- PrioEqual
  Period = 4
  TickMod = 14
  Delays = {3, 4}
  Resolutions = {4}
  Lone = FALSE
INVARIANT NoOversleep
