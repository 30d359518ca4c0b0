\* Liveness: two requests contend for the lock of a job row.
SPECIFICATION FairSpec
CONSTANTS
  k1 = k1
  None = None
  Jobs = {j1, j2}
  Candidates = {c1, c2}
  Companies = {k1}
  CompanyOf <- OneCompany
  Requests = {r1, r2}
  Capacities = {1}
  MaxTime = 0
PROPERTY RequestsFinish
