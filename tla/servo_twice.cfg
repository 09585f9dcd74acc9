SPECIFICATION Spec
CONSTANTS
  a = a
  b = b
  c = c
  p1 = p1
  p2 = p2
  p3 = p3
  none = none
  Objects = {a, b, c}
  Pins = {p1, p2}
  SlotCount = 2
  DefaultWidth = 2
  Widths = {1, 3}
  Refresh = 8
  LateNew = FALSE
  Reattach = TRUE
  NoPin = none
INVARIANT ReleasedWhenDetached
