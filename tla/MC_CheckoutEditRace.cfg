\* The check of updateTicket is stale when its write happens.
CONSTANTS
  t1 = t1  t2 = t2  t3 = t3  r1 = r1  r2 = r2  r3 = r3  e1 = e1  e2 = e2  b1 = b1
  vip = vip  std = std  sale = sale  noCode = noCode  noOrder = noOrder  undef = undef
  Ticket = {t1, t2}
  Title <- OneTitle
  Price <- OnePrice
  Request = {r1, r2}
  Cart <- OneTicketCart
  PromoCode = {}
  Discount <- NoPromo
  Edit = {e1}
  EditDto <- StatusEdits
  Batch = {}
  BatchDto = {}
  PoolSize = 2
  NoCode = noCode
  NoOrder = noOrder
  Undefined = undef
SPECIFICATION Spec
PROPERTY ReservedTicketsNotUpdated
CHECK_DEADLOCK FALSE
