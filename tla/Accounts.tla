------------------------------ MODULE Accounts ------------------------------
(***************************************************************************)
(* Accounts and their sessions: AuthService, UsersService, OtpService and  *)
(* JwtTokenService.  A handler is a chain of awaits on two stores that     *)
(* share no transaction: rows of users in PostgreSQL, and keys in Redis    *)
(* that expire.  The keys are tickets (a pending registration, a password  *)
(* change waiting for its code, a reset token), one-time codes and one     *)
(* refresh token per user.  A closed account keeps its row, and with it    *)
(* its e-mail: finds do not see it, UPDATE statements by id still do.      *)
(***************************************************************************)
EXTENDS Naturals, FiniteSets

CONSTANTS Users,     \* identifiers of rows of users, in use or not yet
          Emails,
          Tickets,   \* request ids and reset tokens (uuid: only reused when forgotten)
          Requests,  \* HTTP requests in progress, on any server process
          None       \* no row, ticket, code, user or address

ASSUME AccountsAssumption ==
  /\ None \notin Users \cup Emails \cup Tickets
  /\ Users \cap Emails = {}

VARIABLES
  account,    \* [Users -> the row, or None]
  ticket,     \* [Tickets -> what pending_reg:, set_password:, reset_password: or reset_token: holds]
  otp,        \* the tickets whose otp: key holds a code
  session,    \* the users with a refresh_token: key
  witnessed,  \* history: [Requests -> what has happened in it, or to its user meanwhile]
  req         \* the await each request is at, with its local variables

tables == <<account, ticket, otp, session>>
vars   == <<tables, witnessed, req>>

Events == {"code_entered", "revoked", "closed"}

\* A user row.  closed: deleted_at is set.  Names, roles, profiles, avatars, last_login and
\* the password are columns the properties do not tell apart: a handler that needs the
\* right password finds it, or fails.
Row == [email: Emails, status: {"pending", "active", "deleted"}, closed: BOOLEAN]

ASSUME NoneIsNoRow == None \notin Row

Ticket == [kind: {"register"}, user: {None}, email: Emails]
          \cup [kind: {"set_password", "reset_password", "reset_token"}, user: Users, email: {None}]

ASSUME NoneIsNoTicket == None \notin Ticket

Idle == [at |-> "idle"]

Awaits == {"ticket_set", "otp_set", "otp_get", "otp_del", "create", "ticket_del", "token_set",
           "activate", "touch", "refresh_find", "store", "password", "email", "token_del",
           "revoke", "close", "profile_save"}

Flows == {"register", "set_password", "reset_password", "sign_in", "refresh", "change"}

\* copy: a row a handler has read and holds on to.
Local == [at: Awaits, flow: Flows, user: Users \cup {None}, email: Emails \cup {None},
          ticket: Tickets \cup {None}, copy: Row \cup {None}]

TypeOK ==
  /\ account \in [Users -> Row \cup {None}]
  /\ ticket \in [Tickets -> Ticket \cup {None}]
  /\ otp \in SUBSET Tickets
  /\ session \in SUBSET Users
  /\ witnessed \in [Requests -> SUBSET Events]
  /\ req \in [Requests -> Local \cup {Idle}]

Init ==
  /\ account = [u \in Users |-> None]
  /\ ticket = [t \in Tickets |-> None]
  /\ otp = {}
  /\ session = {}
  /\ witnessed = [r \in Requests |-> {}]
  /\ req = [r \in Requests |-> Idle]

----------------------------------------------------------------------------
(* Rows and keys *)

\* Access tokens are not looked up: whoever has ever had an account may present one.
SignedIn(u) == account[u] # None

\* What findById and findByEmail see.
Open(u) == account[u] # None /\ ~account[u].closed
Taken(e) == \E u \in Users : Open(u) /\ account[u].email = e

\* Without UNIQUE(email).
NoUniqueEmail(u, e) == TRUE

\* users.email is UNIQUE, whether its row is closed or not.
UniqueEmail(u, e) ==
  \A v \in Users \ {u} : account[v] # None => account[v].email # e

Unused(t) ==
  /\ ticket[t] = None /\ t \notin otp
  /\ \A r \in Requests : req[r].at # "idle" => req[r].ticket # t

Holds(t, kind) == ticket[t] # None /\ ticket[t].kind = kind

\* The requests on user u that are in progress, and those of them that refresh.
On(u) == {r \in Requests : req[r].at # "idle" /\ req[r].user = u}
Refreshing(u) == {r \in On(u) : req[r].flow = "refresh"}

Witness(rs, event) ==
  witnessed' = [r \in Requests |-> IF r \in rs THEN witnessed[r] \cup {event} ELSE witnessed[r]]

----------------------------------------------------------------------------
(* Steps of a request *)

Begin(r, label, flow, u, e, t, copy) ==
  /\ req[r].at = "idle"
  /\ req' = [req EXCEPT ![r] = [at |-> label, flow |-> flow, user |-> u, email |-> e,
                                ticket |-> t, copy |-> copy]]
  /\ UNCHANGED <<tables, witnessed>>

At(r, label) == req[r].at = label
Goto(r, label) == req' = [req EXCEPT ![r].at = label] /\ UNCHANGED witnessed

\* Tokens are generated and stored; the other local variables are not read again.
GotoStore(r) ==
  /\ req' = [req EXCEPT ![r].at = "store", ![r].flow = "sign_in", ![r].ticket = None]
  /\ witnessed' = [witnessed EXCEPT ![r] = @ \ {"code_entered"}]

Return(r) == /\ req' = [req EXCEPT ![r] = Idle]
             /\ witnessed' = [witnessed EXCEPT ![r] = {}]

\* A statement fails, a store is unreachable, a mail cannot be queued, a check throws, or
\* the process dies: what has been written stays.
Fail(r) == ~At(r, "idle") /\ Return(r) /\ UNCHANGED tables

----------------------------------------------------------------------------
(* Tickets and codes *)

\* RedisService.set of a new ticket, then the code that goes with it.
TicketSet(r, t) ==
  /\ At(r, "ticket_set") /\ Unused(t)
  /\ ticket' = [ticket EXCEPT ![t] =
       [kind |-> req[r].flow, user |-> req[r].user, email |-> req[r].email]]
  /\ req' = [req EXCEPT ![r].at = "otp_set", ![r].ticket = t, ![r].user = None, ![r].email = None]
  /\ UNCHANGED <<account, otp, session, witnessed>>

\* OtpService.generate: the code replaces an earlier one, and is mailed.
OtpSet(r) ==
  /\ At(r, "otp_set")
  /\ otp' = otp \cup {req[r].ticket}
  /\ Return(r)
  /\ UNCHANGED <<account, ticket, session>>

\* A verification that lets a code pass that is no longer there.
OtpGetMissing(r) ==
  /\ At(r, "otp_get")
  /\ Witness({r} \cap {q \in Requests : req[r].ticket \in otp}, "code_entered")
  /\ req' = [req EXCEPT ![r].at = "otp_del"]
  /\ UNCHANGED tables

\* OtpService.verify reads the code and compares; without a match it throws (Fail) ...
OtpGet(r) ==
  /\ At(r, "otp_get") /\ req[r].ticket \in otp
  /\ Witness({r}, "code_entered")
  /\ req' = [req EXCEPT ![r].at = "otp_del"]
  /\ UNCHANGED tables

\* ... and deletes whatever code the key holds by then.
OtpDel(r) ==
  /\ At(r, "otp_del")
  /\ otp' = otp \ {req[r].ticket}
  /\ Goto(r, IF req[r].flow = "register" THEN "create" ELSE "ticket_del")
  /\ UNCHANGED <<account, ticket, session>>

TicketDel(r) ==
  /\ At(r, "ticket_del")
  /\ ticket' = [ticket EXCEPT ![req[r].ticket] = None]
  /\ IF req[r].flow = "register"
     THEN GotoStore(r)
     ELSE /\ req' = [req EXCEPT ![r].at = "token_set", ![r].flow = "change", ![r].ticket = None]
          /\ UNCHANGED witnessed
  /\ UNCHANGED <<account, otp, session>>

\* A confirmed code becomes a reset token.
TokenSet(r, t) ==
  /\ At(r, "token_set") /\ Unused(t)
  /\ ticket' = [ticket EXCEPT ![t] = [kind |-> "reset_token", user |-> req[r].user,
                                      email |-> None]]
  /\ Return(r)
  /\ UNCHANGED <<account, otp, session>>

\* Keys expire one by one.
Expire ==
  \/ \E t \in Tickets : /\ ticket[t] # None
                        /\ ticket' = [ticket EXCEPT ![t] = None]
                        /\ UNCHANGED <<account, otp, session, witnessed, req>>
  \/ \E t \in otp : /\ otp' = otp \ {t}
                    /\ UNCHANGED <<account, ticket, session, witnessed, req>>
  \/ \E u \in session : /\ session' = session \ {u}
                        /\ Witness(Refreshing(u), "revoked")
                        /\ UNCHANGED <<account, ticket, otp, req>>

----------------------------------------------------------------------------
(* Registration *)

Register(r, e) ==
  /\ ~Taken(e)
  /\ Begin(r, "ticket_set", "register", None, e, None, None)

\* A registration whose payload has lost its address.
VerifyOtpEmptyPayload(r, t) ==
  /\ Holds(t, "register")
  /\ Begin(r, "otp_get", "register", None, None, t, None)

VerifyOtp(r, t) ==
  /\ Holds(t, "register")
  /\ Begin(r, "otp_get", "register", None, ticket[t].email, t, None)

ResendOtp(r, t) ==
  /\ Holds(t, "register")
  /\ Begin(r, "otp_set", "register", None, None, t, None)

\* createPendingUser, the user and its candidate profile in one transaction.
Create(r, u) ==
  /\ At(r, "create")
  /\ account[u] = None /\ UniqueEmail(u, req[r].email)
  /\ account' = [account EXCEPT ![u] = [email |-> req[r].email, status |-> "pending",
                                        closed |-> FALSE]]
  /\ req' = [req EXCEPT ![r].at = "ticket_del", ![r].user = u, ![r].email = None]
  /\ UNCHANGED <<ticket, otp, session, witnessed>>

SetupPassword(r, u) ==
  /\ Open(u) /\ account[u].status # "active"
  /\ Begin(r, "activate", "change", u, None, None, None)

\* activateUser finds the row by its id, closed meanwhile or not.
Activate(r) ==
  /\ At(r, "activate")
  /\ account' = [account EXCEPT ![req[r].user].status = "active"]
  /\ Return(r)
  /\ UNCHANGED <<ticket, otp, session>>

----------------------------------------------------------------------------
(* Sessions *)

Login(r, u) ==
  /\ Open(u) /\ account[u].status # "pending"
  /\ Begin(r, "touch", "sign_in", u, None, None, None)

\* switchProfile, and createOAuthSession, which an OAuth sign-in ends with.
OpenSession(r, u) == Open(u) /\ Begin(r, "touch", "sign_in", u, None, None, None)

\* UsersService.update with last_login or active_profile: it reads the row back, and
\* throws (Fail) if it is closed.
Touch(r) ==
  /\ At(r, "touch") /\ Open(req[r].user)
  /\ Goto(r, "store")
  /\ UNCHANGED tables

\* A refresh that does not ask whether the token has been revoked.
RefreshUnchecked(r, u) ==
  /\ SignedIn(u)
  /\ Begin(r, "refresh_find", "refresh", u, None, None, None)

\* validateRefreshToken; bcrypt compares the first 72 bytes, which tokens of a user share.
Refresh(r, u) ==
  /\ u \in session
  /\ Begin(r, "refresh_find", "refresh", u, None, None, None)

\* A refresh that does not look the user up.
RefreshFindNobody(r) ==
  /\ At(r, "refresh_find")
  /\ Goto(r, "store")
  /\ UNCHANGED tables

RefreshFind(r) ==
  /\ At(r, "refresh_find") /\ Open(req[r].user)
  /\ Goto(r, "store")
  /\ UNCHANGED tables

\* storeRefreshToken, the end of generateAndStoreTokens.
Store(r) ==
  /\ At(r, "store")
  /\ session' = session \cup {req[r].user}
  /\ Return(r)
  /\ UNCHANGED <<account, ticket, otp>>

\* revokeRefreshToken, in logout and as a step of setNewPassword and closeAccount.
Logout(u) ==
  /\ SignedIn(u)
  /\ session' = session \ {u}
  /\ Witness(Refreshing(u), "revoked")
  /\ UNCHANGED <<account, ticket, otp, req>>

Revoke(r) ==
  /\ At(r, "revoke")
  /\ session' = session \ {req[r].user}
  /\ witnessed' = [q \in Requests |-> IF q = r THEN {}
                     ELSE witnessed[q] \cup (IF q \in Refreshing(req[r].user) THEN {"revoked"} ELSE {})]
  /\ req' = [req EXCEPT ![r] = Idle]
  /\ UNCHANGED <<account, ticket, otp>>

\* enableProfile reads the row in a transaction of its own, without a lock ...
EnableProfile(r, u) ==
  /\ Open(u)
  /\ Begin(r, "profile_save", "change", u, None, None, account[u])

\* ... and saves it: the columns that differ by now are written back.
ProfileSave(r) ==
  /\ At(r, "profile_save")
  /\ UniqueEmail(req[r].user, req[r].copy.email)
  /\ account' = [account EXCEPT ![req[r].user] = req[r].copy]
  /\ Return(r)
  /\ UNCHANGED <<ticket, otp, session>>

----------------------------------------------------------------------------
(* Passwords *)

\* setPasswordVerify asks for the current password, forgotPassword for the address.
AskForCode(r, u, kind) ==
  /\ Open(u)
  /\ Begin(r, "ticket_set", kind, u, None, None, None)

ForgotPasswordResend(r, t) ==
  /\ Holds(t, "reset_password") /\ Open(ticket[t].user)
  /\ Begin(r, "otp_set", "reset_password", None, None, t, None)

\* setPasswordConfirmOtp and forgotPasswordConfirmOtp.
ConfirmOtp(r, t, kind) ==
  /\ Holds(t, kind)
  /\ Begin(r, "otp_get", kind, ticket[t].user, None, t, None)

\* setNewPassword, for the signed-in user of the token, and resetPassword take the token
\* of either flow; the token stays until the password is written.
NewPassword(r, t, flow) ==
  /\ Holds(t, "reset_token")
  /\ Begin(r, "password", flow, ticket[t].user, None, t, None)

UpdatePassword(r, u) ==
  /\ Open(u)
  /\ Begin(r, "password", "change", u, None, None, None)

\* UsersService.update writes the row, and throws if it cannot read it back.
WritePassword(r) ==
  /\ At(r, "password")
  /\ IF req[r].flow = "change" \/ ~Open(req[r].user) THEN Return(r) ELSE Goto(r, "token_del")
  /\ UNCHANGED tables

TokenDel(r) ==
  /\ At(r, "token_del")
  /\ ticket' = [ticket EXCEPT ![req[r].ticket] = None]
  /\ IF req[r].flow = "set_password"
     THEN /\ req' = [req EXCEPT ![r].at = "revoke", ![r].ticket = None]
          /\ UNCHANGED witnessed
     ELSE GotoStore(r)
  /\ UNCHANGED <<account, otp, session>>

----------------------------------------------------------------------------
(* The account itself *)

UpdateEmail(r, u, e) ==
  /\ SignedIn(u)
  /\ \A v \in Users \ {u} : ~(Open(v) /\ account[v].email = e)
  /\ Begin(r, "email", "change", u, e, None, None)

WriteEmail(r) ==
  LET u == req[r].user IN
  /\ At(r, "email") /\ UniqueEmail(u, req[r].email)
  /\ account' = [account EXCEPT ![u].email = req[r].email]
  /\ Return(r)
  /\ UNCHANGED <<ticket, otp, session>>

\* closeAccount revokes the refresh token ...
CloseAccount(r, u) ==
  /\ req[r].at = "idle" /\ SignedIn(u)
  /\ session' = session \ {u}
  /\ Witness(Refreshing(u), "revoked")
  /\ req' = [req EXCEPT ![r] = [at |-> "close", flow |-> "change", user |-> u, email |-> None,
                                ticket |-> None, copy |-> None]]
  /\ UNCHANGED <<account, ticket, otp>>

\* ... and then closes the row, which update() cannot read back any more: it throws.
Close(r) ==
  LET u == req[r].user IN
  /\ At(r, "close")
  /\ account' = [account EXCEPT ![u].status = "deleted", ![u].closed = TRUE]
  /\ witnessed' = [q \in Requests |-> IF q = r THEN {}
                     ELSE witnessed[q] \cup (IF q \in On(u) THEN {"closed"} ELSE {})]
  /\ req' = [req EXCEPT ![r] = Idle]
  /\ UNCHANGED <<ticket, otp, session>>

----------------------------------------------------------------------------
(* The routes *)

RegistrationRoutes(r) ==
  \/ \E e \in Emails : Register(r, e)
  \/ \E t \in Tickets : VerifyOtp(r, t) \/ ResendOtp(r, t)
  \/ \E u \in Users : SetupPassword(r, u)

SessionRoutes(r) ==
  \E u \in Users : Login(r, u) \/ OpenSession(r, u) \/ Refresh(r, u) \/ EnableProfile(r, u)

SetPasswordRoutes(r) ==
  \/ \E u \in Users : AskForCode(r, u, "set_password")
  \/ \E t \in Tickets : ConfirmOtp(r, t, "set_password") \/ NewPassword(r, t, "set_password")

ResetPasswordRoutes(r) ==
  \/ \E u \in Users : AskForCode(r, u, "reset_password")
  \/ \E t \in Tickets : \/ ConfirmOtp(r, t, "reset_password") \/ ForgotPasswordResend(r, t)
                        \/ NewPassword(r, t, "reset_password")

UserRoutes(r) ==
  \E u \in Users : \/ UpdatePassword(r, u) \/ CloseAccount(r, u)
                   \/ \E e \in Emails : UpdateEmail(r, u, e)

Start(r) ==
  \/ RegistrationRoutes(r) \/ SessionRoutes(r) \/ SetPasswordRoutes(r)
  \/ ResetPasswordRoutes(r) \/ UserRoutes(r)

Continue(r) ==
  \/ (\E t \in Tickets : TicketSet(r, t) \/ TokenSet(r, t))
  \/ OtpSet(r) \/ OtpGet(r) \/ OtpDel(r) \/ TicketDel(r)
  \/ (\E u \in Users : Create(r, u)) \/ Activate(r)
  \/ Touch(r) \/ RefreshFind(r) \/ Store(r) \/ Revoke(r)
  \/ ProfileSave(r)
  \/ WritePassword(r) \/ TokenDel(r) \/ WriteEmail(r) \/ Close(r)
  \/ Fail(r)

Next ==
  \/ \E r \in Requests : Start(r) \/ Continue(r)
  \/ \E u \in Users : Logout(u)
  \/ Expire

Spec == Init /\ [][Next]_vars

----------------------------------------------------------------------------
(* Properties *)

\* No two rows of users have one address, however registrations with one code or with
\* two, changes of address and saves of old copies interleave: register and updateEmail
\* look first and write many awaits later.
OneAccountPerEmail ==
  \A u, v \in Users : u # v /\ account[u] # None /\ account[v] # None =>
    account[u].email # account[v].email

\* An account appears only for an address whose code its request has been given, and a
\* reset token only for the user whose code its request has been given: the code, its
\* ticket and what it is good for are separate keys, which other requests delete and
\* replace, and which expire on their own.
CodesComeFirst ==
  [][/\ \A u \in Users : account[u] = None /\ account'[u] # None =>
          \E r \in Requests : "code_entered" \in witnessed[r] /\ req[r].email = account'[u].email
     /\ \A t \in Tickets : ticket'[t] # ticket[t] /\ Holds(t, "reset_token")' =>
          \E r \in Requests : "code_entered" \in witnessed[r] /\ req[r].user = ticket'[t].user]_vars

\* After a logout, a password change, a closed account or an expired key, a refresh can
\* bring the session back only if it had validated its token before: refresh validates,
\* looks the user up and stores in separate steps.
RevokedStaysRevoked ==
  [][\A u \in session' \ session :
       \E r \in Requests : /\ At(r, "store") /\ req[r].user = u
                           /\ req[r].flow = "refresh" => "revoked" \in witnessed[r]]_vars

\* Once the requests that were working on an account when it was closed are over, it
\* stays closed and gets no new session, although tickets, tokens and refresh tokens of
\* it may still be around.
ClosingTakesEffect ==
  [][\A u \in Users :
       account[u] # None /\ account[u].closed /\ (\A r \in On(u) : "closed" \notin witnessed[r]) =>
         account'[u].closed /\ (u \in session' => u \in session)]_vars
=============================================================================
