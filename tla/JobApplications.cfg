\* Two requests on two job rows, the second one created or duplicated during the run.
SPECIFICATION Spec
CONSTANTS
  k1 = k1
  None = None
  Jobs = {j1, j2}
  Candidates = {c1, c2}
  Companies = {k1}
  CompanyOf <- OneCompany
  Requests = {r1, r2}
  Capacities = {1, 2}
  MaxTime = 1
SYMMETRY Symmetry
INVARIANTS TypeOK CountMatchesApplications LockedRowIsCurrent
PROPERTY ImplementsAdmission
CONSTRAINT DeactivatedStandsForBoth
