\* One identity at each provider, two accounts, one attempt and one completion, two requests.
SPECIFICATION Spec
CONSTANTS
  None = None
  Users = {u1, u2}
  Emails = {e1, e2}
  Identities = {g, l}
  GoogleIds = {g}
  States = {s1}
  Tickets = {t1}
  Requests = {r1, r2}
SYMMETRY Symmetry
INVARIANTS TypeOK
PROPERTIES ImplementsLinks NeverByAddressAlone CodesMatchAddresses
CONSTRAINT AttemptsBeginLate
