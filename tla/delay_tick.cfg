SPECIFICATION Spec
CONSTANTS
  loopA = loopA
  loopB = loopB
  Tasks = {loopA}
  Prio <- PrioOne
  Period = 4
  TickMod = 14
  Delays = {4}
  Resolutions = {}
  Lone = FALSE
PROPERTY TickIsPeriod
