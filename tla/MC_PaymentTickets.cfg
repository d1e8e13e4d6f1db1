\* The tickets of a paid order stay RESERVED.
CONSTANTS
  s1 = s1  s2 = s2  p1 = p1  p2 = p2  i1 = i1  i2 = i2  none = none
  Sync = {s1, s2}
  Pay = {p1, p2}
  Item = {i1, i2}
  None = none
SPECIFICATION Spec
INVARIANT PaidTicketsAreSold
CHECK_DEADLOCK FALSE
