\* Two getOrder calls and two createPaymentIntent calls on an order of two tickets.
CONSTANTS
  s1 = s1  s2 = s2  p1 = p1  p2 = p2  i1 = i1  i2 = i2  none = none
  Sync = {s1, s2}
  Pay = {p1, p2}
  Item = {i1, i2}
  None = none
SPECIFICATION Spec
SYMMETRY Symmetric
INVARIANTS TypeOK PaidForReal PaymentOnRecord MailedLinksWork PaidOrderHasTickets InvoicedOnce
PROPERTY SettledStaysSettled
CHECK_DEADLOCK FALSE
