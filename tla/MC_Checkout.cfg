\* Two orders of any cart against an organiser that sets any status and deletes.
CONSTANTS
  t1 = t1  t2 = t2  t3 = t3  r1 = r1  r2 = r2  r3 = r3  e1 = e1  e2 = e2  b1 = b1
  vip = vip  std = std  sale = sale  noCode = noCode  noOrder = noOrder  undef = undef
  Ticket = {t1, t2, t3}
  Title <- OneTitle
  Price <- OnePrice
  Request = {r1, r2}
  Cart <- Carts
  PromoCode = {}
  Discount <- NoPromo
  Edit = {e1}
  EditDto <- StatusEdits
  Batch = {b1}
  BatchDto <- DefaultBatch
  PoolSize = 2
  NoCode = noCode
  NoOrder = noOrder
  Undefined = undef
SPECIFICATION Spec
SYMMETRY Symmetric
INVARIANTS TypeOK NoDoubleBooking OrderDeliversCart
CHECK_DEADLOCK FALSE
