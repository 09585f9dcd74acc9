SPECIFICATION Spec
CONSTANTS
  loopA = loopA
  loopB = loopB
  m1 = m1
  m2 = m2
  m3 = m3
  f1 = f1
  f2 = f2
  Tasks = {loopA, loopB}
  Mappable = {m1, m2, m3}
  Home <- TwoHomes
  Owner <- TwoOwners
  CCRs = 2
  OtherTimers = {0, 1}
  Nowhere = Nowhere
  FixedMark = FixedMark
  NOT_IN_USE = NOT_IN_USE
  IN_USE = IN_USE
  INVALID = INVALID
INVARIANT DutyReachesPin
INVARIANT PinsDriven
INVARIANT TimersExclusive
INVARIANT TimersReturned
