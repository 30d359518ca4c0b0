\* One application, two companies and three stage rows, two requests at once.
SPECIFICATION Spec
CONSTANTS
  k1 = k1
  k2 = k2
  None = None
  Companies = {k1, k2}
  Applications = {a1}
  CompanyOf <- SentToFirst
  Stages = {s1, s2, s3}
  Names = {n1, n2}
  DefaultNames = {n1}
  FirstName = n1
  Requests = {r1, r2}
  MaxMoves = 1
SYMMETRY Symmetry
INVARIANTS TypeOK StageOfOwnCompany StageNamesDiffer
PROPERTY MovesAreOnRecord
