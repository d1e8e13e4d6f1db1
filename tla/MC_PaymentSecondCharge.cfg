\* A payment that no getOrder call has seen yet does not keep an order from a new intent.
CONSTANTS
  s1 = s1  s2 = s2  p1 = p1  p2 = p2  i1 = i1  i2 = i2  none = none
  Sync = {s1, s2}
  Pay = {p1, p2}
  Item = {i1, i2}
  None = none
SPECIFICATION Spec
PROPERTY NoSecondCharge
CHECK_DEADLOCK FALSE
