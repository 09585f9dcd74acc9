SPECIFICATION Spec
CONSTANTS
  loopA = loopA
  loopB = loopB
  Tasks = {loopA, loopB}
  Prio <- PrioPreempt
  Period = 4
  TickMod = 14
  Delays = {3, 4}
  Resolutions = {}
  Lone = FALSE
INVARIANT OneSource
