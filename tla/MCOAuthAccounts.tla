-------------------------- MODULE MCOAuthAccounts --------------------------
(* The instance of OAuthAccounts that TLC checks. *)
EXTENDS OAuthAccounts, TLC

Symmetry == Permutations(Users) \cup Permutations(Emails) \cup Permutations(Requests)

\* An attempt that waits while every request is busy could as well begin later.
AttemptsBeginLate ==
  (\A r \in Requests : req[r].at # "idle") /\ (\E s \in States : state[s] # None) =>
    \E r \in Requests : At(r, "state_del")
=============================================================================
