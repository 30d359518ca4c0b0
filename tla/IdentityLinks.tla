--------------------------- MODULE IdentityLinks ---------------------------
(***************************************************************************)
(* What connecting Google and LinkedIn accounts promises, whatever the     *)
(* requests, tickets and locks behind it: an identity has one holder,      *)
(* keeps it until it is disconnected, and is not disconnected from a       *)
(* holder who would be left without a password and without another one.    *)
(***************************************************************************)
CONSTANTS Users, Identities, None

VARIABLES holder,   \* [Identities -> the user it is connected to, or None]
          secret    \* the users who have a password

vars == <<holder, secret>>

Init == holder = [i \in Identities |-> None] /\ secret \in SUBSET Users

Connect(i, u) ==
  /\ holder[i] = None
  /\ holder' = [holder EXCEPT ![i] = u]
  /\ UNCHANGED secret

Disconnect(i) ==
  /\ holder[i] # None
  /\ holder[i] \in secret \/ \E j \in Identities \ {i} : holder[j] = holder[i]
  /\ holder' = [holder EXCEPT ![i] = None]
  /\ UNCHANGED secret

Passwords == secret' \in SUBSET Users /\ UNCHANGED holder

Next ==
  \/ \E i \in Identities : Disconnect(i) \/ \E u \in Users : Connect(i, u)
  \/ Passwords

Spec == Init /\ [][Next]_vars
=============================================================================
