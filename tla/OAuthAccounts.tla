--------------------------- MODULE OAuthAccounts ---------------------------
(***************************************************************************)
(* OidcAuthService: signing in with Google or LinkedIn, connecting and     *)
(* disconnecting such identities, and completing an account by a code sent *)
(* to an address.  Attempts, pending completions and codes are Redis keys  *)
(* that expire; identities and accounts are rows.  Sessions are opened by  *)
(* Accounts!OpenSession and are not repeated here.                         *)
(***************************************************************************)
EXTENDS Naturals, FiniteSets

CONSTANTS Users,
          Emails,
          Identities,  \* accounts at a provider: (provider, subject)
          GoogleIds,   \* those at Google; the others are at LinkedIn
          States,      \* OAuth states of attempts (random: only reused when forgotten)
          Tickets,     \* tickets of pending completions (uuid: only reused when forgotten)
          Requests,
          None

ASSUME OAuthAssumption ==
  /\ GoogleIds \subseteq Identities
  /\ None \notin Users \cup Emails \cup Identities \cup States \cup Tickets \cup Requests
  /\ States \cap Tickets = {}

VARIABLES
  account,    \* [Users -> row of users, or None]
  linked,     \* [Identities -> the user of its row of oauth_accounts, or None]
  lock,       \* [Users -> the request that holds the row FOR UPDATE, or None]
  state,      \* [States -> what oauth_state: holds]
  ticket,     \* [Tickets -> what oauth_email: holds]
  otp,        \* [Tickets -> the address the code that otp: holds was mailed to, or None]
  disturbed,  \* history: tickets on which requests have overlapped or failed half-way
  req         \* the await each request is at, with its local variables

keys == <<state, ticket, otp>>
vars == <<account, linked, lock, keys, disturbed, req>>

\* users.provider is left out: any account may be one that was made with Google.  A closed
\* account keeps its row, address and identities, and what is asked of it fails; so it is not
\* told apart from an open one whose requests Fail.
Row == [email: Emails, password: BOOLEAN]

\* OAuthAttempt; user is set in mode link.  Portal, locale and return path are left out, and
\* so is the provider: which it is shows in the identity it answers with.
Attempt == [user: Users \cup {None}]

\* PendingOAuth; legacy is the account to be recovered.
Pending == [identity: Identities, email: Emails \cup {None}, legacy: Users \cup {None}]

ASSUME NoneIsNoRecord == None \notin Row \cup Attempt \cup Pending

Idle == [at |-> "idle"]

Awaits == {"state_del", "exchange", "email_find", "link_find", "link_insert", "ticket_del",
           "pending_set", "otp_set", "otp_get", "otp_del",
           "unlink_find", "unlink_count", "unlink_remove"}

\* asked and entered are not in the code: who began the attempt, to connect an identity, and
\* whether the code entered had been mailed to the address it now stands for.
Local == [at: Awaits, key: States \cup Tickets \cup {None}, identity: Identities \cup {None},
          user: Users \cup {None}, asked: Users \cup {None},
          email: Emails \cup {None}, entered: {"nothing", "its code", "another code"},
          password: BOOLEAN]

TypeOK ==
  /\ account \in [Users -> Row \cup {None}]
  /\ linked \in [Identities -> Users \cup {None}]
  /\ lock \in [Users -> Requests \cup {None}]
  /\ state \in [States -> Attempt \cup {None}]
  /\ ticket \in [Tickets -> Pending \cup {None}]
  /\ otp \in [Tickets -> Emails \cup {None}]
  /\ disturbed \in SUBSET Tickets
  /\ req \in [Requests -> Local \cup {Idle}]

\* users.email is UNIQUE, closed rows included.
UniqueEmail(u, e) ==
  \A v \in Users \ {u} : account[v] # None => account[v].email # e

\* Accounts from before, none of which has an identity on file.
Init ==
  /\ account \in [Users -> Row \cup {None}]
  /\ \A u \in Users : account[u] # None => UniqueEmail(u, account[u].email)
  /\ linked = [i \in Identities |-> None]
  /\ lock = [u \in Users |-> None]
  /\ state = [s \in States |-> None]
  /\ ticket = [t \in Tickets |-> None]
  /\ otp = [t \in Tickets |-> None]
  /\ disturbed = {}
  /\ req = [r \in Requests |-> Idle]

----------------------------------------------------------------------------
(* Helpers *)

\* What findById and findByEmail see.
Open(u) == account[u] # None
Holder(e) == {u \in Users : Open(u) /\ account[u].email = e}

On(k) == {r \in Requests : req[r].at # "idle" /\ req[r].key = k}
Changing(t) == {r \in On(t) : req[r].at \in {"pending_set", "otp_set"}}

At(r, label) == req[r].at = label
Completing(r) == req[r].key \in Tickets

Begin(r, local) == req[r].at = "idle" /\ req' = [req EXCEPT ![r] = local]
Goto(r, label) == req' = [req EXCEPT ![r].at = label]
Return(r) == req' = [req EXCEPT ![r] = Idle]

\* Local variables that have not been set, or are not read again.
Fresh == [at |-> "idle", key |-> None, identity |-> None, user |-> None, asked |-> None,
          email |-> None, entered |-> "nothing", password |-> FALSE]

\* A completion deletes its ticket before it opens a session.
Finish(r) ==
  req' = [req EXCEPT ![r] = IF Completing(r) THEN [Fresh EXCEPT !.at = "ticket_del", !.key = req[r].key]
                                             ELSE Idle]

OnTicket(label, t) ==
  [Fresh EXCEPT !.at = label, !.key = t, !.identity = ticket[t].identity,
                !.user = ticket[t].legacy, !.email = ticket[t].email]

\* A check throws, a store or the provider fails, or the process dies: a transaction is
\* rolled back and its lock released, everything else that has been written stays.
Fail(r) ==
  /\ ~At(r, "idle")
  /\ lock' = [u \in Users |-> IF lock[u] = r THEN None ELSE lock[u]]
  /\ disturbed' = disturbed \cup (IF At(r, "otp_set") THEN {req[r].key} ELSE {})
  /\ Return(r)
  /\ UNCHANGED <<account, linked, keys>>

----------------------------------------------------------------------------
(* Attempts *)

\* begin, with the user of a request to connect, or None for a sign-in.
BeginAttempt(s, u) ==
  /\ state[s] = None /\ On(s) = {}
  /\ u # None => account[u] # None
  /\ state' = [state EXCEPT ![s] = [user |-> u]]
  /\ UNCHANGED <<account, linked, lock, ticket, otp, disturbed, req>>

\* callback reads the attempt ...
Callback(r, s) ==
  /\ state[s] # None
  /\ Begin(r, [Fresh EXCEPT !.at = "state_del", !.key = s, !.user = state[s].user,
                            !.asked = state[s].user])
  /\ UNCHANGED <<account, linked, lock, keys, disturbed>>

\* ... deletes it ...
StateDel(r) ==
  /\ At(r, "state_del")
  /\ state' = [state EXCEPT ![req[r].key] = None]
  /\ Goto(r, "exchange")
  /\ UNCHANGED <<account, linked, lock, ticket, otp, disturbed>>

----------------------------------------------------------------------------
(* Signing in *)

\* The authorization code is exchanged for the identity i that has signed in at the provider,
\* and the address e the provider has verified for it, if it says so.  Nothing depends on the
\* provider accepting a code once only.  A connected identity opens a session of its user.
LinkedFind(r, i, e) ==
  /\ At(r, "exchange") /\ req[r].user = None
  /\ IF linked[i] # None THEN Return(r)
     ELSE req' = [req EXCEPT ![r].at = "email_find", ![r].identity = i, ![r].email = e]
  /\ UNCHANGED <<account, linked, lock, keys, disturbed>>

\* A sign-in that connects its identity to whoever has its address.
ConnectByAddress(r, t) ==
  /\ At(r, "email_find") /\ ~Completing(r)
  /\ \E u \in Holder(req[r].email) :
       req' = [req EXCEPT ![r].at = "link_insert", ![r].user = u]
  /\ UNCHANGED <<account, linked, lock, keys, disturbed>>

\* createEmailCompletion: for an identity without an address, and for a Google one whose
\* address belongs to an account made with Google; any other holder of it is a conflict (Fail).
CompleteLater(r, t) ==
  LET i == req[r].identity
      e == req[r].email
  IN
  /\ At(r, "email_find") /\ ~Completing(r)
  /\ ticket[t] = None /\ otp[t] = None /\ On(t) = {}
  /\ \E u \in Holder(e) \cup {None} :
       /\ IF u = None THEN e = None ELSE i \in GoogleIds
       /\ ticket' = [ticket EXCEPT ![t] = [identity |-> i, email |-> e, legacy |-> u]]
  /\ disturbed' = disturbed \ {t}
  /\ Return(r)
  /\ UNCHANGED <<account, linked, lock, state, otp>>

\* createOAuthUser: user, candidate profile and oauth account in one transaction, whose unique
\* columns have the last word after findByEmail has found nobody.
Create(r, u) ==
  LET i == req[r].identity
      e == req[r].email
  IN
  /\ At(r, "email_find") /\ e # None
  /\ account[u] = None /\ UniqueEmail(u, e) /\ linked[i] = None
  /\ account' = [account EXCEPT ![u] = [email |-> e, password |-> FALSE]]
  /\ linked' = [linked EXCEPT ![i] = u]
  /\ Finish(r)
  /\ UNCHANGED <<lock, keys, disturbed>>

----------------------------------------------------------------------------
(* Connecting *)

\* linkAccount, with the identity the code has been exchanged for, or that of a recovery whose
\* address has been checked to be still its user's: it finds the user, and whoever the
\* identity is connected to.
LinkFind(r, i) ==
  LET u == req[r].user IN
  /\ \/ At(r, "exchange") /\ u # None
     \/ At(r, "link_find") /\ req[r].identity = i /\ account[u].email = req[r].email
  /\ Open(u)
  /\ \/ linked[i] = None /\ req' = [req EXCEPT ![r].at = "link_insert", ![r].identity = i]
     \/ linked[i] = u /\ Finish(r)
  /\ UNCHANGED <<account, linked, lock, keys, disturbed>>

\* UNIQUE(provider, provider_account_id), and a foreign key that waits for the user's lock.
LinkInsert(r) ==
  LET i == req[r].identity IN
  /\ At(r, "link_insert") /\ linked[i] = None /\ lock[req[r].user] = None
  /\ linked' = [linked EXCEPT ![i] = req[r].user]
  /\ Finish(r)
  /\ UNCHANGED <<account, lock, keys, disturbed>>

----------------------------------------------------------------------------
(* Disconnecting *)

\* An unlink that reads the user without locking it.
UnlinkNoLock(r, u) ==
  /\ Open(u)
  /\ Begin(r, [Fresh EXCEPT !.at = "unlink_find", !.user = u,
                            !.password = account[u].password])
  /\ UNCHANGED <<account, linked, lock, keys, disturbed>>

\* unlinkAccount locks the user ...
Unlink(r, u) ==
  /\ Open(u) /\ lock[u] = None
  /\ lock' = [lock EXCEPT ![u] = r]
  /\ Begin(r, [Fresh EXCEPT !.at = "unlink_find", !.user = u,
                            !.password = account[u].password])
  /\ UNCHANGED <<account, linked, keys, disturbed>>

\* ... finds an identity of the user at the provider it is given, which is that of i ...
UnlinkFind(r, i) ==
  /\ At(r, "unlink_find") /\ linked[i] = req[r].user
  /\ req' = [req EXCEPT ![r].at = "unlink_count", ![r].identity = i]
  /\ UNCHANGED <<account, linked, lock, keys, disturbed>>

\* ... counts them all ...
UnlinkCount(r) ==
  /\ At(r, "unlink_count")
  /\ req[r].password \/ Cardinality({i \in Identities : linked[i] = req[r].user}) > 1
  /\ req' = [req EXCEPT ![r].at = "unlink_remove", ![r].password = FALSE]
  /\ UNCHANGED <<account, linked, lock, keys, disturbed>>

\* ... removes the one, and commits.
UnlinkRemove(r) ==
  /\ At(r, "unlink_remove")
  /\ linked' = [linked EXCEPT ![req[r].identity] = None]
  /\ lock' = [lock EXCEPT ![req[r].user] = None]
  /\ Return(r)
  /\ UNCHANGED <<account, keys, disturbed>>

----------------------------------------------------------------------------
(* Completing an account *)

\* requestEmailVerification reads the pending completion and whoever has the address: it
\* wants the recovered account's own, or one that is free ...
RequestEmail(r, t, e) ==
  LET u == ticket[t].legacy IN
  /\ ticket[t] # None
  /\ IF u # None THEN Open(u) /\ account[u].email = e ELSE Holder(e) = {}
  /\ Begin(r, [OnTicket("pending_set", t) EXCEPT !.email = e])
  /\ disturbed' = disturbed \cup (IF On(t) # {} THEN {t} ELSE {})
  /\ UNCHANGED <<account, linked, lock, keys>>

\* A completion that is written back without what it is for.
PendingSetEmailOnly(r) ==
  /\ At(r, "pending_set")
  /\ ticket' = [ticket EXCEPT ![req[r].key] = [email |-> req[r].email]]
  /\ req' = [req EXCEPT ![r] = [Fresh EXCEPT !.at = "otp_set", !.key = req[r].key, !.email = req[r].email]]
  /\ UNCHANGED <<account, linked, lock, state, otp, disturbed>>

\* ... writes the completion back with it, used meanwhile or not ...
PendingSet(r) ==
  /\ At(r, "pending_set")
  /\ ticket' = [ticket EXCEPT ![req[r].key] =
       [identity |-> req[r].identity, email |-> req[r].email, legacy |-> req[r].user]]
  /\ req' = [req EXCEPT ![r] = [Fresh EXCEPT !.at = "otp_set", !.key = req[r].key, !.email = req[r].email]]
  /\ UNCHANGED <<account, linked, lock, state, otp, disturbed>>

\* A code that is still valid is not generated again.
OtpSetOnce(r) ==
  /\ At(r, "otp_set")
  /\ otp' = [otp EXCEPT ![req[r].key] = IF @ = None THEN req[r].email ELSE @]
  /\ Return(r)
  /\ UNCHANGED <<account, linked, lock, state, ticket, disturbed>>

\* ... and then generates a code, and mails it there.
OtpSet(r) ==
  /\ At(r, "otp_set")
  /\ otp' = [otp EXCEPT ![req[r].key] = req[r].email]
  /\ Return(r)
  /\ UNCHANGED <<account, linked, lock, state, ticket, disturbed>>

\* verifyEmailAndCreateAccount reads the completion, then the code, and deletes the code.
VerifyEmail(r, t) ==
  /\ ticket[t] # None /\ ticket[t].email # None
  /\ Begin(r, OnTicket("otp_get", t))
  /\ disturbed' = disturbed \cup (IF Changing(t) # {} THEN {t} ELSE {})
  /\ UNCHANGED <<account, linked, lock, keys>>

OtpGet(r) ==
  /\ At(r, "otp_get") /\ otp[req[r].key] # None
  /\ req' = [req EXCEPT ![r].at = "otp_del", ![r].entered =
       IF otp[req[r].key] = req[r].email THEN "its code" ELSE "another code"]
  /\ UNCHANGED <<account, linked, lock, keys, disturbed>>

OtpDel(r) ==
  /\ At(r, "otp_del")
  /\ otp' = [otp EXCEPT ![req[r].key] = None]
  /\ Goto(r, IF req[r].user # None THEN "link_find" ELSE "email_find")
  /\ UNCHANGED <<account, linked, lock, state, ticket, disturbed>>

TicketDel(r) ==
  /\ At(r, "ticket_del")
  /\ ticket' = [ticket EXCEPT ![req[r].key] = None]
  /\ Return(r)
  /\ UNCHANGED <<account, linked, lock, state, otp, disturbed>>

----------------------------------------------------------------------------
(* Around it *)

\* What the handlers of Accounts write to users: registrations, and, once no transaction holds
\* the row, addresses and passwords, set or lost to a copy of the row read earlier.
WrittenElsewhere(u) ==
  /\ \/ \E e \in Emails :
          /\ account[u] = None /\ UniqueEmail(u, e)
          /\ account' = [account EXCEPT ![u] = [email |-> e, password |-> FALSE]]
     \/ \E e \in Emails :
          /\ account[u] # None /\ lock[u] = None /\ UniqueEmail(u, e)
          /\ account' = [account EXCEPT ![u].email = e]
     \/ /\ account[u] # None /\ lock[u] = None
        /\ account' = [account EXCEPT ![u].password = ~@]
  /\ UNCHANGED <<linked, lock, keys, disturbed, req>>

\* Keys expire one by one.
Expire ==
  /\ \/ \E s \in States : /\ state[s] # None /\ state' = [state EXCEPT ![s] = None]
                          /\ UNCHANGED <<ticket, otp>>
     \/ \E t \in Tickets : /\ ticket[t] # None /\ ticket' = [ticket EXCEPT ![t] = None]
                           /\ UNCHANGED <<state, otp>>
     \/ \E t \in Tickets : /\ otp[t] # None /\ otp' = [otp EXCEPT ![t] = None]
                           /\ UNCHANGED <<state, ticket>>
  /\ UNCHANGED <<account, linked, lock, disturbed, req>>

BeginRoutes == \E s \in States, u \in Users \cup {None} : BeginAttempt(s, u)
CallbackRoutes(r) == \E s \in States : Callback(r, s)

OAuthRoutes(r) ==
  \/ CallbackRoutes(r)
  \/ \E u \in Users : Unlink(r, u)
  \/ \E t \in Tickets : VerifyEmail(r, t) \/ \E e \in Emails : RequestEmail(r, t, e)

Continue(r) ==
  \/ StateDel(r)
  \/ (\E i \in Identities, e \in Emails \cup {None} : LinkedFind(r, i, e))
  \/ (\E t \in Tickets : CompleteLater(r, t)) \/ (\E u \in Users : Create(r, u))
  \/ (\E i \in Identities : LinkFind(r, i)) \/ LinkInsert(r)
  \/ (\E i \in Identities : UnlinkFind(r, i)) \/ UnlinkCount(r) \/ UnlinkRemove(r)
  \/ PendingSet(r) \/ OtpSet(r)
  \/ OtpGet(r) \/ OtpDel(r) \/ TicketDel(r)
  \/ Fail(r)

Next ==
  \/ BeginRoutes
  \/ \E r \in Requests : OAuthRoutes(r) \/ Continue(r)
  \/ \E u \in Users : WrittenElsewhere(u)
  \/ Expire

Spec == Init /\ [][Next]_vars

----------------------------------------------------------------------------
(* Properties *)

\* What connecting promises: two callbacks for one identity, two unlinks of one account and
\* everything between them leave an identity with one holder, and an account that is being
\* disconnected with another way in.
Links == INSTANCE IdentityLinks WITH
  holder <- linked,
  secret <- {u \in Users : account[u] # None /\ account[u].password}
ImplementsLinks == Links!Spec

\* An existing account gets an identity only in the attempt its user began for that, or in a
\* completion whose code was entered: an address the provider vouches for never connects.
NeverByAddressAlone ==
  [][\A i \in Identities :
       linked[i] = None /\ linked'[i] # None /\ account[linked'[i]] # None =>
         \E r \in Requests :
           /\ At(r, "link_insert") /\ req[r].identity = i
           /\ IF Completing(r) THEN req[r].entered # "nothing" ELSE req[r].asked = linked'[i]]_vars

\* A completion connects or creates an account for the address its code was mailed to, as
\* long as requests on its ticket did not overlap and none failed between storing an address
\* and generating its code: the address and the code are two keys, written one after the other.
CodesMatchAddresses ==
  [][\A i \in Identities, r \in Requests :
       /\ linked[i] # linked'[i] /\ linked'[i] # None
       /\ req[r].at \in {"email_find", "link_insert"} /\ req[r].identity = i /\ req'[r].at = "ticket_del"
       => req[r].entered = "its code" \/ req[r].key \in disturbed]_vars
=============================================================================
