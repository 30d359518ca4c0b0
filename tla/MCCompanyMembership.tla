------------------------ MODULE MCCompanyMembership ------------------------
(* The instances of CompanyMembership that TLC checks. *)
EXTENDS CompanyMembership, TLC

Symmetry ==
  Permutations(Users) \cup Permutations(Companies) \cup Permutations(Invitations)
    \cup Permutations(Requests)

Granted == {u \in Users : userRole[u] # "AS_REGISTERED"}
Removed == {u \in Users : \E k \in joined[u] : ~HasRow(u, k)}

\* A behaviour is followed until a second role has been granted, a second user has lost a
\* membership, or both has happened once.
OneGrantOrRemoval == Cardinality(Granted) + Cardinality(Removed) <= 1
=============================================================================
