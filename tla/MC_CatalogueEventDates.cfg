\* One event and its dates, one request at a time: an event may last an hour at least.
CONSTANTS
  o1 = o1  o2 = o2  m1 = m1  m2 = m2  k1 = k1  k2 = k2  e1 = e1  e2 = e2  p1 = p1  p2 = p2
  t1 = t1  t2 = t2  x1 = x1  c1 = c1  c2 = c2  none = none
  Owner = {o1}
  Email = {m1}
  Company = {k1}
  Event = {e1}
  Promo = {}
  Theme = {}
  Code = {}
  Hour <- Hours
  Dates <- AllDates
  MinDuration = 1
  Call = {c1}
  None = none
SPECIFICATION Spec
INVARIANT EventDatesApart
