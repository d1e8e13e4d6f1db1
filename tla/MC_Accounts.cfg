\* One address, one account, three nonces, two requests at a time.
CONSTANTS
  u1 = u1  u2 = u2  n1 = n1  n2 = n2  n3 = n3  c1 = c1  c2 = c2
  e1 = e1 none = none
  User = {u1}
  Email = {e1}
  Nonce = {n1, n2, n3}
  Call = {c1, c2}
  None = none
SPECIFICATION Spec
SYMMETRY Symmetric
INVARIANTS TypeOK TokenTradedOnce OneWorkingToken OrphanSessions ResetEndsSessions AnswersAsDocumented
PROPERTIES ConfirmedAccountsKept ImplementsSessions
