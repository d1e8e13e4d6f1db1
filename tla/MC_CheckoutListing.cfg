\* Prices, titles, promo codes and new tickets change under two orders; no edit puts a ticket back on sale.
CONSTANTS
  t1 = t1  t2 = t2  t3 = t3  r1 = r1  r2 = r2  r3 = r3  e1 = e1  e2 = e2  b1 = b1
  vip = vip  std = std  sale = sale  noCode = noCode  noOrder = noOrder  undef = undef
  Ticket = {t1, t2}
  Title <- TwoTitles
  Price <- TwoPrices
  Request = {r1, r2}
  Cart <- MixedCarts
  PromoCode = {sale}
  Discount <- OnePromo
  Edit = {e1}
  EditDto <- ListingEdits
  Batch = {b1}
  BatchDto <- OnSaleBatch
  PoolSize = 2
  NoCode = noCode
  NoOrder = noOrder
  Undefined = undef
SPECIFICATION Spec
SYMMETRY SymmetricSmall
INVARIANTS ChargeMatchesListing NoOrphanReservation
PROPERTY ImplementsTicketSale
CHECK_DEADLOCK FALSE
