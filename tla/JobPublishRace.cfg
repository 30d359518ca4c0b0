\* One job row and two requests: a close between the read and the write of publishJob.
SPECIFICATION Spec
CONSTANTS
  k1 = k1
  None = None
  Jobs = {j1}
  Candidates = {c1}
  Companies = {k1}
  CompanyOf <- OneCompany
  Requests = {r1, r2}
  Capacities = {1}
  MaxTime = 0
PROPERTY ClosedJobIsNotPublished
