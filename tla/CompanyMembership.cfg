\* Two users, two companies and one invitation, two requests at once.
SPECIFICATION Spec
CONSTANTS
  None = None
  Users = {u1, u2}
  Companies = {k1, k2}
  Invitations = {i1}
  Requests = {r1, r2}
  GrantedRoles = {"RECRUITER"}
SYMMETRY Symmetry
INVARIANTS TypeOK OneActiveCompany OwnerStays GrantsFollowMembership
CONSTRAINT OneGrantOrRemoval
