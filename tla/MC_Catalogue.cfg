\* Two requests at a time on an event: of two companies and their owners, with an event that moves
\* between them, or of one, with a theme and two promo codes of one text (Bounded).  Dates do not
\* matter here.
CONSTANTS
  o1 = o1  o2 = o2  m1 = m1  m2 = m2  k1 = k1  k2 = k2  e1 = e1  e2 = e2  p1 = p1  p2 = p2
  t1 = t1  t2 = t2  x1 = x1  c1 = c1  c2 = c2  none = none
  Owner = {o1, o2}
  Email = {m1, m2}
  Company = {k1, k2}
  Event = {e1}
  Promo = {p1, p2}
  Theme = {t1}
  Code = {x1}
  Hour <- OneHour
  Dates <- OneDate
  MinDuration = 0
  Call = {c1, c2}
  None = none
SPECIFICATION Spec
CONSTRAINT Bounded
SYMMETRY Symmetric
INVARIANTS TypeOK OrderedStays ThemesAsListed PromoCodeOnce AnswersAsDocumented
