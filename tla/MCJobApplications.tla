------------------------- MODULE MCJobApplications -------------------------
(* The instances of JobApplications that TLC checks. *)
EXTENDS JobApplications, TLC

CONSTANTS k1

\* Every job belongs to the one company of the instance.
OneCompany == [j \in Jobs |-> k1]

Symmetry ==
  Permutations(Candidates) \cup Permutations(Requests) \cup Permutations(Jobs)

\* create asks only whether a company is active: one of the other statuses is enough.
DeactivatedStandsForBoth == \A k \in Companies : companyStatus[k] # "deletion_scheduled"
=============================================================================
