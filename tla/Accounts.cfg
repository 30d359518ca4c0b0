\* Two accounts, one address more than one, one ticket, two requests at once.
SPECIFICATION Spec
CONSTANTS
  None = None
  Users = {u1, u2}
  Emails = {e1, e2}
  Tickets = {t1}
  Requests = {r1, r2}
SYMMETRY Symmetry
INVARIANTS TypeOK OneAccountPerEmail
PROPERTIES CodesComeFirst RevokedStaysRevoked ClosingTakesEffect
