\* One row of each kind, three files, and two requests at once; two dates.
SPECIFICATION Spec
CONSTANTS
  None = None
  Portfolios = {portfolio}
  Avatars = {avatar}
  Logos = {logo}
  Files = {f1, f2, f3}
  Escaped = {f3}
  Requests = {r1, r2}
  Items = {i1, i2}
  ByHand = ByHand
  Experiences = {experience}
  Certificates = {certificate}
  Educations = {education}
  Editors = {e1, e2}
  Dates = {1, 2}
  NoDate = NoDate
  Omitted = Omitted
  NoEntry = NoEntry
  Skills = {k1, k2}
  Categories = {c1, c2}
  Curators = {q1, q2}
  NoCategory = NoCategory
  Unknown = Unknown
  Partners = {p1, p2}
  Offers = {j1}
  Senders = {s1, s2}
  MaxProposals = 2
  NoOffer = NoOffer
  ThePictures = ThePictures
  TheSkills = TheSkills
  TheMessages = TheMessages
  TheCatalogues = TheCatalogues
  TheApplications = TheApplications
  k1 = k1
  k2 = k2
  Employers = {k1, k2}
  Received = {a1}
  EmployerOf <- SentToFirst
  Staff = {u1, u2}
  Interviews = {n1}
  Recorders = {w1, w2}
  Nobody = Nobody
SYMMETRY Symmetry
INVARIANTS TypeOK FilesInUseExist OnlyFilesInUseAreKept DeletedStaysDeleted DatesInOrder SkillsAsAsked ProposedOnce
PROPERTY RecordedByStaff
CONSTRAINT Followed
