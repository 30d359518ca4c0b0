\* Two requests invite the same address to the same company.
SPECIFICATION Spec
CONSTANTS
  None = None
  Users = {u1, u2}
  Companies = {k1}
  Invitations = {i1, i2}
  Requests = {r1, r2}
  GrantedRoles = {"RECRUITER"}
SYMMETRY Symmetry
INVARIANT OnePendingInvitation
