----------------------------- MODULE MCAccounts -----------------------------
(* The instance of Accounts that TLC checks. *)
EXTENDS Accounts, TLC

Symmetry == Permutations(Users) \cup Permutations(Emails) \cup Permutations(Tickets)
            \cup Permutations(Requests)
=============================================================================
