CONSTANTS
  u1 = u1  u2 = u2  e1 = e1  k1 = k1  n1 = n1  s1 = s1  s2 = s2  l1 = l1  l2 = l2
  c1 = c1  c2 = c2  none = none
  User = {u1, u2}
  Owner = u1
  Company = k1
  Event = {e1}
  News = {n1}
  Subscription = {s1, s2}
  Field = {"status", "ticketsAvailableFrom"}
  Listener = {l1, l2}
  Call = {c1, c2}
  None = none
SPECIFICATION MCSpec
ACTION_CONSTRAINT Offered
INVARIANT PublishedEventsAnnounced
