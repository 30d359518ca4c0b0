\* One candidate, three resumes, one key for each, two requests at once.
SPECIFICATION Spec
CONSTANTS
  None = None
  Candidates = {c1}
  Files = {f1, f2, f3}
  Escaped = {}
  Keys = {k1}
  Requests = {r1, r2}
SYMMETRY Symmetry
INVARIANTS TypeOK OneDefault FilesMatchResumes OneRunPerKey StatusHasAReason
CONSTRAINT Followed
