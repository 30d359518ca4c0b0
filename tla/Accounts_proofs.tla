--------------------------- MODULE Accounts_proofs ---------------------------
(***************************************************************************)
(* For every number of users, addresses, tickets and requests: no two rows *)
(* have one address, nothing is created without its code, a revoked        *)
(* session comes back only through a refresh that was under way, and a     *)
(* closed account stays closed.  The proofs rest on what a request still   *)
(* knows at each await of the rows and keys it has looked at.              *)
(***************************************************************************)
EXTENDS Accounts, TLAPS

Coded    == {"set_password", "reset_password"}
AtTicket == {"otp_set", "otp_get", "otp_del", "create", "ticket_del", "token_del"}
AtUser   == {"ticket_del", "token_set", "activate", "touch", "refresh_find", "store", "password",
             "email", "token_del", "revoke", "close", "profile_save"}

\* At each await a request has the local variables that its next steps use, and the user
\* it works on has a row.
HasLocals(q) ==
  /\ q.at = "ticket_set" => \/ q.flow = "register" /\ q.user = None /\ q.email \in Emails
                            \/ q.flow \in Coded /\ q.user \in Users /\ q.email = None
  /\ q.at \in {"otp_get", "otp_del"} => \/ q.flow = "register" /\ q.email \in Emails
                                        \/ q.flow \in Coded /\ q.user \in Users
  /\ q.at \in AtTicket \/ (q.at = "password" /\ q.flow # "change") => q.ticket \in Tickets
  /\ q.at \in AtUser => q.user \in Users
  /\ q.at \in {"create", "email"} => q.email \in Emails
  /\ q.at = "create" => q.flow = "register"
  /\ q.at = "profile_save" => q.copy \in Row /\ ~q.copy.closed

\* The awaits behind a code, for an address or for a user.
BehindCode(q) == \/ q.at \in {"otp_del", "create", "token_set"}
                 \/ q.at = "ticket_del" /\ q.flow # "register"

\* The awaits at which the user's row was open when the request last looked.
SawOpen(q) == \/ q.at \in {"store", "profile_save"}
              \/ q.at = "ticket_del" /\ q.flow = "register"
              \/ q.at = "token_del" /\ q.flow # "set_password"

\* What has happened to the request or its user meanwhile is on record.
OnRecord(q, seen) ==
  /\ q.user \in Users => account[q.user] # None
  /\ BehindCode(q) => "code_entered" \in seen
  /\ q.flow = "refresh" /\ q.user \notin session => "revoked" \in seen
  /\ SawOpen(q) /\ account[q.user].closed => "closed" \in seen

LocalsStayTrue ==
  \A r \in Requests : req[r].at # "idle" => HasLocals(req[r]) /\ OnRecord(req[r], witnessed[r])

\* A ticket or a session is of a user that has a row.
KeysHaveRows ==
  /\ \A t \in Tickets : ticket[t] # None /\ ticket[t].user # None => account[ticket[t].user] # None
  /\ \A u \in session : account[u] # None

IInv ==
  /\ TypeOK
  /\ LocalsStayTrue
  /\ KeysHaveRows
  /\ OneAccountPerEmail

----------------------------------------------------------------------------
(* Requests *)

\* A request in the middle of a handler has the local variables of one.
LEMMA BusyIsLocal ==
  ASSUME TypeOK, NEW r \in Requests, req[r].at # "idle"
  PROVE  /\ req[r] \in Local
         /\ req[r] = [at |-> req[r].at, flow |-> req[r].flow, user |-> req[r].user,
                      email |-> req[r].email, ticket |-> req[r].ticket, copy |-> req[r].copy]
         /\ req[r].at \in Awaits /\ req[r].flow \in Flows
         /\ req[r].user \in Users \cup {None} /\ req[r].email \in Emails \cup {None}
         /\ req[r].ticket \in Tickets \cup {None} /\ req[r].copy \in Row \cup {None}
  <1>1. req[r] \in Local
    BY DEF TypeOK, Idle
  <1>2. QED
    BY <1>1 DEF Local

\* What a step of request r, or of nobody, leaves to the other requests: rows stay rows,
\* and who still holds a session or an open row that is taken away has it on record.
Keep(rs) ==
  /\ \A u \in Users : account[u] # None => account'[u] # None
  /\ \A q \in Requests \ rs :
       /\ req'[q] = req[q]
       /\ witnessed[q] \subseteq witnessed'[q]
       /\ req[q].at # "idle" /\ req[q].flow = "refresh" /\ req[q].user \in session
            => req[q].user \in session' \/ "revoked" \in witnessed'[q]
       /\ req[q].at # "idle" /\ req[q].user \in Users
            /\ account[req[q].user] # None /\ ~account[req[q].user].closed
            => ~account'[req[q].user].closed \/ "closed" \in witnessed'[q]

\* What one request does leaves true what the others know.
LEMMA RequestsStayTrue ==
  ASSUME IInv, NEW rs \in SUBSET Requests, Keep(rs),
         \A r \in rs : req'[r].at # "idle" =>
           HasLocals(req'[r]) /\ OnRecord(req[r], witnessed[r])'
  PROVE  LocalsStayTrue'
  <1> SUFFICES ASSUME NEW q \in Requests, q \notin rs, req'[q].at # "idle"
               PROVE  HasLocals(req'[q]) /\ OnRecord(req[q], witnessed[q])'
    BY DEF LocalsStayTrue, HasLocals
  <1>1. req'[q] = req[q] /\ req[q].at # "idle"
    BY DEF Keep
  <1>2. HasLocals(req[q]) /\ OnRecord(req[q], witnessed[q])
    BY <1>1 DEF IInv, LocalsStayTrue
  <1>3. SawOpen(req[q]) => req[q].user \in Users
    BY <1>2 DEF HasLocals, SawOpen, AtUser
  <1>4. OnRecord(req[q], witnessed[q])'
    <2>1. req[q].user \in Users => account'[req[q].user] # None
      BY <1>2 DEF OnRecord, Keep
    <2>2. BehindCode(req[q]) => "code_entered" \in witnessed'[q]
      BY <1>2 DEF OnRecord, Keep
    <2>3. req[q].flow = "refresh" /\ req[q].user \notin session' => "revoked" \in witnessed'[q]
      BY <1>1, <1>2 DEF OnRecord, Keep
    <2>4. SawOpen(req[q]) /\ account'[req[q].user].closed => "closed" \in witnessed'[q]
      BY <1>1, <1>2, <1>3 DEF OnRecord, Keep
    <2>5. QED
      BY <1>1, <2>1, <2>2, <2>3, <2>4 DEF OnRecord, BehindCode, SawOpen
  <1>5. QED
    BY <1>1, <1>2, <1>4

\* A row that the index accepts leaves every address with one row.
LEMMA IndexKeepsEmailsApart ==
  ASSUME IInv, NEW u \in Users, NEW row \in Row, UniqueEmail(u, row.email),
         account' = [account EXCEPT ![u] = row]
  PROVE  OneAccountPerEmail' /\ account' \in [Users -> Row \cup {None}]
  BY NoneIsNoRow DEF IInv, TypeOK, OneAccountPerEmail, UniqueEmail

\* So does a row that keeps its address.
LEMMA SameEmailStaysApart ==
  ASSUME IInv, NEW u \in Users, NEW row \in Row, account[u] # None,
         row.email = account[u].email, account' = [account EXCEPT ![u] = row]
  PROVE  OneAccountPerEmail' /\ account' \in [Users -> Row \cup {None}]
  <1>1. UniqueEmail(u, row.email)
    BY DEF IInv, OneAccountPerEmail, UniqueEmail
  <1>2. QED
    BY <1>1, IndexKeepsEmailsApart

\* A step of request r that takes no row and no session away leaves the others alone.
LEMMA QuietStepsKeep ==
  ASSUME IInv, NEW r \in Requests,
         account' = account, session \subseteq session',
         \A q \in Requests \ {r} : req'[q] = req[q] /\ witnessed'[q] = witnessed[q]
  PROVE  Keep({r})
  BY DEF Keep

----------------------------------------------------------------------------
(* The steps *)

\* Nobody has an account, no keys, no requests.
LEMMA InitIInv == Init => IInv
  BY NoneIsNoRow, NoneIsNoTicket
  DEF Init, IInv, TypeOK, LocalsStayTrue, KeysHaveRows, OneAccountPerEmail, Idle

\* The first step of a handler looks something up, and changes no table.
LEMMA BeginIInv ==
  ASSUME IInv, NEW r \in Requests, NEW label \in Awaits, NEW flow \in Flows,
         NEW u \in Users \cup {None}, NEW e \in Emails \cup {None},
         NEW t \in Tickets \cup {None}, NEW copy \in Row \cup {None},
         Begin(r, label, flow, u, e, t, copy),
         HasLocals([at |-> label, flow |-> flow, user |-> u, email |-> e, ticket |-> t, copy |-> copy]),
         OnRecord([at |-> label, flow |-> flow, user |-> u, email |-> e, ticket |-> t, copy |-> copy],
                  witnessed[r])
  PROVE  IInv'
  <1> DEFINE l == [at |-> label, flow |-> flow, user |-> u, email |-> e, ticket |-> t, copy |-> copy]
  <1>1. req' = [req EXCEPT ![r] = l] /\ UNCHANGED <<account, ticket, otp, session, witnessed>>
    BY DEF Begin, tables
  <1>2. l \in Local
    BY DEF Local
  <1>3. TypeOK'
    BY <1>1, <1>2 DEF IInv, TypeOK
  <1>4. req'[r] = l /\ \A q \in Requests \ {r} : req'[q] = req[q]
    BY <1>1 DEF IInv, TypeOK
  <1>5. Keep({r})
    BY <1>1, <1>4, QuietStepsKeep
  <1>6. HasLocals(req'[r]) /\ OnRecord(req[r], witnessed[r])'
    <2>1. HasLocals(l) /\ OnRecord(l, witnessed[r])
      OBVIOUS
    <2>2. QED
      BY <1>1, <1>4, <2>1 DEF OnRecord, BehindCode, SawOpen
  <1>7. LocalsStayTrue'
    BY <1>5, <1>6, RequestsStayTrue
  <1>8. KeysHaveRows' /\ OneAccountPerEmail'
    BY <1>1 DEF IInv, KeysHaveRows, OneAccountPerEmail
  <1>9. QED
    BY <1>3, <1>7, <1>8 DEF IInv

\* The kinds of tickets, and whose they are.
LEMMA TicketsAreTyped ==
  ASSUME IInv, NEW t \in Tickets, NEW kind, Holds(t, kind)
  PROVE  /\ kind = "register" => ticket[t].user = None /\ ticket[t].email \in Emails
         /\ kind # "register" => /\ ticket[t].user \in Users
                                 /\ account[ticket[t].user] # None
  BY AccountsAssumption DEF IInv, TypeOK, Ticket, Holds, KeysHaveRows

\* Registering, confirming and resending codes.
LEMMA RegistrationRoutesIInv ==
  ASSUME IInv, NEW r \in Requests, RegistrationRoutes(r)
  PROVE  IInv'
  <1> USE AccountsAssumption DEF HasLocals, OnRecord, BehindCode, SawOpen, AtTicket, AtUser,
          Coded, Awaits, Flows
  <1>1. ASSUME NEW e \in Emails, Register(r, e) PROVE IInv'
    BY <1>1, BeginIInv DEF Register
  <1>2. ASSUME NEW t \in Tickets, VerifyOtp(r, t) PROVE IInv'
    BY <1>2, BeginIInv, TicketsAreTyped DEF VerifyOtp
  <1>3. ASSUME NEW t \in Tickets, ResendOtp(r, t) PROVE IInv'
    BY <1>3, BeginIInv DEF ResendOtp
  <1>4. ASSUME NEW u \in Users, SetupPassword(r, u) PROVE IInv'
    BY <1>4, BeginIInv DEF SetupPassword, Open
  <1>5. QED
    BY <1>1, <1>2, <1>3, <1>4 DEF RegistrationRoutes

\* Signing in, refreshing, and reading the row for a profile.
LEMMA SessionRoutesIInv ==
  ASSUME IInv, NEW r \in Requests, SessionRoutes(r)
  PROVE  IInv'
  <1> USE AccountsAssumption DEF HasLocals, OnRecord, BehindCode, SawOpen, AtTicket, AtUser,
          Coded, Awaits, Flows
  <1>1. PICK u \in Users : Login(r, u) \/ OpenSession(r, u) \/ Refresh(r, u) \/ EnableProfile(r, u)
    BY DEF SessionRoutes
  <1>2. CASE Login(r, u) \/ OpenSession(r, u)
    BY <1>2, BeginIInv DEF Login, OpenSession, Open
  <1>3. CASE Refresh(r, u)
    BY ZenonT(40), <1>3, BeginIInv DEF Refresh, IInv, KeysHaveRows
  <1>4. CASE EnableProfile(r, u)
    <2>1. account[u] \in Row /\ ~account[u].closed
      BY <1>4 DEF EnableProfile, Open, IInv, TypeOK
    <2>2. QED
      BY <1>4, <2>1, BeginIInv DEF EnableProfile, Open
  <1>5. QED
    BY <1>1, <1>2, <1>3, <1>4

\* Asking for a code, confirming it, and using the token it becomes.
LEMMA PasswordRoutesIInv ==
  ASSUME IInv, NEW r \in Requests, SetPasswordRoutes(r) \/ ResetPasswordRoutes(r)
  PROVE  IInv'
  <1> USE AccountsAssumption DEF HasLocals, OnRecord, BehindCode, SawOpen, AtTicket, AtUser,
          Coded, Awaits, Flows
  <1>1. ASSUME NEW u \in Users, NEW kind \in Coded, AskForCode(r, u, kind) PROVE IInv'
    BY <1>1, BeginIInv DEF AskForCode, Open
  <1>2. ASSUME NEW t \in Tickets, NEW kind \in Coded, ConfirmOtp(r, t, kind) PROVE IInv'
    BY <1>2, BeginIInv, TicketsAreTyped DEF ConfirmOtp
  <1>3. ASSUME NEW t \in Tickets, NEW flow \in Coded, NewPassword(r, t, flow) PROVE IInv'
    BY <1>3, BeginIInv, TicketsAreTyped DEF NewPassword
  <1>4. ASSUME NEW t \in Tickets, ForgotPasswordResend(r, t) PROVE IInv'
    BY <1>4, BeginIInv DEF ForgotPasswordResend
  <1>5. QED
    BY <1>1, <1>2, <1>3, <1>4 DEF SetPasswordRoutes, ResetPasswordRoutes

\* Changing the password or the address; closing the account, whose first step revokes.
LEMMA UserRoutesIInv ==
  ASSUME IInv, NEW r \in Requests, UserRoutes(r)
  PROVE  IInv'
  <1> USE AccountsAssumption DEF HasLocals, OnRecord, BehindCode, SawOpen, AtTicket, AtUser,
          Coded, Awaits, Flows
  <1>1. ASSUME NEW u \in Users, UpdatePassword(r, u) PROVE IInv'
    BY <1>1, BeginIInv DEF UpdatePassword, Open
  <1>2. ASSUME NEW u \in Users, NEW e \in Emails, UpdateEmail(r, u, e) PROVE IInv'
    BY <1>2, BeginIInv DEF UpdateEmail, SignedIn
  <1>3. ASSUME NEW u \in Users, CloseAccount(r, u) PROVE IInv'
    <2>1. TypeOK'
      BY <1>3 DEF CloseAccount, Witness, IInv, TypeOK, Local, Events
    <2>2. \A q \in Requests \ {r} : req'[q] = req[q]
      BY <1>3 DEF CloseAccount, IInv, TypeOK
    <2>3. Keep({r})
      BY <1>3, <2>2 DEF CloseAccount, Witness, Refreshing, On, Keep, IInv, TypeOK
    <2>4. HasLocals(req'[r]) /\ OnRecord(req[r], witnessed[r])'
      BY <1>3 DEF CloseAccount, SignedIn, IInv, TypeOK
    <2>5. LocalsStayTrue'
      BY <2>3, <2>4, RequestsStayTrue
    <2>6. KeysHaveRows' /\ OneAccountPerEmail'
      BY <1>3 DEF CloseAccount, IInv, KeysHaveRows, OneAccountPerEmail
    <2>7. QED
      BY <2>1, <2>5, <2>6 DEF IInv
  <1>4. QED
    BY <1>1, <1>2, <1>3 DEF UserRoutes

\* What request r has done, with only its own local variables changed.
Moves(r) ==
  /\ req' \in [Requests -> Local \cup {Idle}] /\ witnessed' \in [Requests -> SUBSET Events]
  /\ \A q \in Requests \ {r} : req'[q] = req[q] /\ witnessed'[q] = witnessed[q]
  /\ req'[r].at # "idle" => HasLocals(req'[r]) /\ OnRecord(req[r], witnessed[r])'

\* The steps of a request that change no row and no session: what is left to show is that
\* the keys are of users with rows, and what the request knows next.
LEMMA KeyStepIInv ==
  ASSUME IInv, NEW r \in Requests, account' = account, session' = session, Moves(r),
         ticket' \in [Tickets -> Ticket \cup {None}], otp' \in SUBSET Tickets,
         \A t \in Tickets : ticket'[t] # None /\ ticket'[t].user # None =>
           account[ticket'[t].user] # None
  PROVE  IInv'
  <1>1. TypeOK'
    BY DEF IInv, TypeOK, Moves
  <1>2. Keep({r})
    BY QuietStepsKeep DEF Moves
  <1>3. LocalsStayTrue'
    BY <1>2, RequestsStayTrue DEF Moves
  <1>4. KeysHaveRows' /\ OneAccountPerEmail'
    BY DEF IInv, KeysHaveRows, OneAccountPerEmail
  <1>5. QED
    BY <1>1, <1>3, <1>4 DEF IInv

\* What a request knows before its step.
LEMMA BusyKnows ==
  ASSUME IInv, NEW r \in Requests, req[r].at # "idle"
  PROVE  /\ HasLocals(req[r]) /\ OnRecord(req[r], witnessed[r])
         /\ req[r] \in Local /\ witnessed[r] \in SUBSET Events
  BY BusyIsLocal DEF IInv, LocalsStayTrue, TypeOK

\* A request that returns knows nothing any more.
LEMMA ReturnMoves ==
  ASSUME IInv, NEW r \in Requests, Return(r)
  PROVE  Moves(r)
  BY DEF IInv, TypeOK, Return, Moves, Idle

\* A request that goes on to its next await, with what it knows of it.
LEMMA GotoMoves ==
  ASSUME IInv, NEW r \in Requests, req[r].at # "idle", NEW label \in Awaits, Goto(r, label),
         UNCHANGED <<account, session>>,
         HasLocals(req'[r]), BehindCode(req'[r]) => "code_entered" \in witnessed[r],
         SawOpen(req'[r]) /\ account[req[r].user].closed => "closed" \in witnessed[r]
  PROVE  Moves(r)
  <1>1. HasLocals(req[r]) /\ OnRecord(req[r], witnessed[r]) /\ req[r] \in Local
    BY BusyKnows
  <1>2. req' \in [Requests -> Local \cup {Idle}] /\ \A q \in Requests \ {r} : req'[q] = req[q]
    BY <1>1 DEF Goto, IInv, TypeOK, Local
  <1>3. req'[r].user = req[r].user /\ req'[r].flow = req[r].flow
    BY <1>1 DEF Goto, IInv, TypeOK, Local
  <1>4. OnRecord(req[r], witnessed[r])'
    BY <1>1, <1>3 DEF OnRecord, Goto, BehindCode, SawOpen
  <1>5. QED
    BY <1>2, <1>4 DEF Moves, Goto, IInv, TypeOK

\* Storing a ticket, then its code.
LEMMA IssueIInv ==
  ASSUME IInv, NEW r \in Requests,
         OtpSet(r) \/ \E t \in Tickets : TicketSet(r, t) \/ TokenSet(r, t)
  PROVE  IInv'
  <1> USE AccountsAssumption DEF AtTicket, AtUser, Coded
  <1>1. CASE OtpSet(r)
    <2>1. req[r].ticket \in Tickets
      BY <1>1, BusyKnows DEF OtpSet, At, HasLocals
    <2>2. otp' \in SUBSET Tickets
      BY <1>1, <2>1 DEF OtpSet, IInv, TypeOK
    <2>3. QED
      BY <1>1, <2>2, ReturnMoves, KeyStepIInv DEF OtpSet, IInv, TypeOK, KeysHaveRows
  <1>2. ASSUME NEW t \in Tickets, TicketSet(r, t) PROVE IInv'
    <2>1. /\ req[r].at = "ticket_set" /\ HasLocals(req[r]) /\ OnRecord(req[r], witnessed[r])
          /\ req[r] \in Local
      BY <1>2, BusyKnows DEF TicketSet, At
    <2>2. req' \in [Requests -> Local \cup {Idle}] /\ \A q \in Requests \ {r} : req'[q] = req[q]
      BY <1>2, <2>1 DEF TicketSet, IInv, TypeOK, Local, Awaits
    <2>3. /\ req'[r].at = "otp_set" /\ req'[r].user = None /\ req'[r].ticket = t
          /\ req'[r].flow = req[r].flow
      BY <1>2, <2>1 DEF TicketSet, IInv, TypeOK, Local
    <2>4. HasLocals(req'[r]) /\ OnRecord(req[r], witnessed[r])'
      BY <2>1, <2>3 DEF HasLocals, OnRecord, BehindCode, SawOpen
    <2>5. Moves(r)
      BY <1>2, <2>2, <2>4 DEF TicketSet, Moves, IInv, TypeOK
    <2>6. ticket' \in [Tickets -> Ticket \cup {None}]
      BY <1>2, <2>1 DEF TicketSet, IInv, TypeOK, Ticket, HasLocals
    <2>7. \A s \in Tickets : ticket'[s] # None /\ ticket'[s].user # None =>
            account[ticket'[s].user] # None
      BY <1>2, <2>1 DEF TicketSet, IInv, TypeOK, KeysHaveRows, HasLocals, OnRecord
    <2>8. QED
      BY <1>2, <2>5, <2>6, <2>7, KeyStepIInv DEF TicketSet, IInv, TypeOK
  <1>3. ASSUME NEW t \in Tickets, TokenSet(r, t) PROVE IInv'
    <2>1. req[r].user \in Users /\ account[req[r].user] # None
      BY <1>3, BusyKnows DEF TokenSet, At, HasLocals, OnRecord
    <2>2. ticket' \in [Tickets -> Ticket \cup {None}]
      BY <1>3, <2>1 DEF TokenSet, IInv, TypeOK, Ticket
    <2>3. \A s \in Tickets : ticket'[s] # None /\ ticket'[s].user # None =>
            account[ticket'[s].user] # None
      BY <1>3, <2>1 DEF TokenSet, IInv, TypeOK, KeysHaveRows
    <2>4. QED
      BY <1>3, <2>2, <2>3, ReturnMoves, KeyStepIInv DEF TokenSet, IInv, TypeOK
  <1>4. QED
    BY <1>1, <1>2, <1>3

\* Comparing the code, and deleting it.
LEMMA VerifyIInv ==
  ASSUME IInv, NEW r \in Requests, OtpGet(r) \/ OtpDel(r)
  PROVE  IInv'
  <1> USE AccountsAssumption DEF AtTicket, AtUser, Coded
  <1>1. /\ req[r].at \in {"otp_get", "otp_del"} /\ req[r] \in Local
        /\ HasLocals(req[r]) /\ OnRecord(req[r], witnessed[r]) /\ witnessed[r] \in SUBSET Events
    BY BusyKnows DEF OtpGet, OtpDel, At
  <1>2. CASE OtpGet(r)
    <2>1. req' \in [Requests -> Local \cup {Idle}] /\ \A q \in Requests \ {r} : req'[q] = req[q]
      BY <1>1, <1>2 DEF OtpGet, IInv, TypeOK, Local, Awaits
    <2>2. /\ req'[r].at = "otp_del" /\ req'[r].user = req[r].user /\ req'[r].flow = req[r].flow
          /\ req'[r].email = req[r].email /\ req'[r].ticket = req[r].ticket
      BY <1>1, <1>2 DEF OtpGet, IInv, TypeOK, Local
    <2>3. /\ witnessed' \in [Requests -> SUBSET Events]
          /\ witnessed'[r] = witnessed[r] \cup {"code_entered"}
          /\ \A q \in Requests \ {r} : witnessed'[q] = witnessed[q]
      BY <1>1, <1>2 DEF OtpGet, Witness, IInv, TypeOK, Events
    <2>4. HasLocals(req'[r]) /\ OnRecord(req[r], witnessed[r])'
      BY <1>1, <1>2, <2>2, <2>3 DEF HasLocals, OnRecord, BehindCode, SawOpen, OtpGet, At, tables
    <2>5. QED
      BY <1>2, <2>1, <2>3, <2>4, KeyStepIInv DEF Moves, OtpGet, tables, IInv, TypeOK, KeysHaveRows
  <1>3. CASE OtpDel(r)
    <2> DEFINE next == IF req[r].flow = "register" THEN "create" ELSE "ticket_del"
    <2>1. /\ req'[r].at = next /\ req'[r].user = req[r].user /\ req'[r].flow = req[r].flow
          /\ req'[r].email = req[r].email /\ req'[r].ticket = req[r].ticket
      BY <1>1, <1>3 DEF OtpDel, Goto, IInv, TypeOK, Local
    <2>2. next \in Awaits /\ req[r].at = "otp_del"
      BY <1>3 DEF Awaits, OtpDel, At
    <2>3. /\ HasLocals(req'[r])
          /\ BehindCode(req'[r]) => "code_entered" \in witnessed[r]
          /\ ~SawOpen(req'[r])
      BY <1>1, <2>1, <2>2 DEF HasLocals, OnRecord, BehindCode, SawOpen
    <2>4. Goto(r, next) /\ UNCHANGED <<account, session>>
      BY <1>3 DEF OtpDel
    <2> HIDE DEF next
    <2>5. Moves(r)
      BY <2>2, <2>3, <2>4, GotoMoves
    <2>6. QED
      BY <1>3, <2>5, KeyStepIInv DEF OtpDel, IInv, TypeOK, KeysHaveRows
  <1>4. QED
    BY <1>2, <1>3

\* Generating tokens: the request has looked at the row, and forgets its ticket.
LEMMA GotoStoreMoves ==
  ASSUME IInv, NEW r \in Requests, req[r].at # "idle", GotoStore(r), UNCHANGED <<account, session>>,
         req[r].user \in Users, SawOpen(req[r])
  PROVE  Moves(r)
  <1>1. OnRecord(req[r], witnessed[r]) /\ req[r] \in Local
    BY BusyKnows
  <1>2. /\ req' \in [Requests -> Local \cup {Idle}] /\ \A q \in Requests \ {r} : req'[q] = req[q]
        /\ req'[r].at = "store" /\ req'[r].user = req[r].user /\ req'[r].flow = "sign_in"
    BY <1>1 DEF GotoStore, IInv, TypeOK, Local, Awaits, Flows
  <1>3. /\ witnessed' \in [Requests -> SUBSET Events]
        /\ witnessed'[r] = witnessed[r] \ {"code_entered"}
        /\ \A q \in Requests \ {r} : witnessed'[q] = witnessed[q]
    BY DEF GotoStore, IInv, TypeOK
  <1>4. HasLocals(req'[r])
    BY <1>2 DEF HasLocals, AtTicket, AtUser
  <1>5. OnRecord(req[r], witnessed[r])'
    BY <1>1, <1>2, <1>3 DEF OnRecord, BehindCode, SawOpen
  <1>6. QED
    BY <1>2, <1>3, <1>4, <1>5 DEF Moves

\* Forgetting the ticket once its work is done.
LEMMA ForgetIInv ==
  ASSUME IInv, NEW r \in Requests, TicketDel(r) \/ TokenDel(r)
  PROVE  IInv'
  <1>1. /\ req[r].at \in {"ticket_del", "token_del"} /\ req[r] \in Local
        /\ HasLocals(req[r]) /\ OnRecord(req[r], witnessed[r])
        /\ UNCHANGED <<account, otp, session>>
    BY BusyKnows DEF TicketDel, TokenDel, At
  <1>2. req[r].user \in Users /\ req[r].ticket \in Tickets
    BY <1>1 DEF HasLocals, AtUser, AtTicket
  <1>3. /\ ticket' \in [Tickets -> Ticket \cup {None}]
        /\ \A t \in Tickets : ticket'[t] # None /\ ticket'[t].user # None =>
             account[ticket'[t].user] # None
    BY <1>2 DEF TicketDel, TokenDel, IInv, TypeOK, KeysHaveRows
  <1>4. ASSUME GotoStore(r), SawOpen(req[r]) PROVE Moves(r)
    BY <1>1, <1>2, <1>4, GotoStoreMoves
  <1>5. ASSUME req[r].at = "ticket_del", req[r].flow # "register", TicketDel(r)
        PROVE  Moves(r)
    <2>1. /\ req' \in [Requests -> Local \cup {Idle}] /\ \A q \in Requests \ {r} : req'[q] = req[q]
          /\ req'[r].at = "token_set" /\ req'[r].user = req[r].user /\ req'[r].flow = "change"
          /\ witnessed' = witnessed
      BY <1>1, <1>5 DEF TicketDel, IInv, TypeOK, Local, Awaits, Flows
    <2>2. HasLocals(req'[r])
      BY <1>2, <2>1 DEF HasLocals, AtTicket, AtUser
    <2>3. OnRecord(req[r], witnessed[r])'
      BY <1>1, <1>5, <2>1 DEF OnRecord, BehindCode, SawOpen
    <2>4. Moves(r)
      BY <2>1, <2>2, <2>3 DEF Moves, IInv, TypeOK
    <2>5. QED
      BY <2>4
  <1>6. ASSUME req[r].at = "token_del", req[r].flow = "set_password", TokenDel(r)
        PROVE  Moves(r)
    <2>1. /\ req' \in [Requests -> Local \cup {Idle}] /\ \A q \in Requests \ {r} : req'[q] = req[q]
          /\ req'[r].at = "revoke" /\ req'[r].user = req[r].user /\ req'[r].flow = req[r].flow
          /\ witnessed' = witnessed
      BY <1>1, <1>6 DEF TokenDel, IInv, TypeOK, Local, Awaits
    <2>2. HasLocals(req'[r])
      BY <1>2, <2>1 DEF HasLocals, AtTicket, AtUser
    <2>3. OnRecord(req[r], witnessed[r])'
      BY <1>1, <1>6, <2>1 DEF OnRecord, BehindCode, SawOpen
    <2>4. Moves(r)
      BY <2>1, <2>2, <2>3 DEF Moves, IInv, TypeOK
    <2>5. QED
      BY <2>4
  <1>7. Moves(r)
    BY <1>4, <1>5, <1>6 DEF TicketDel, TokenDel, At, SawOpen
  <1>8. QED
    BY <1>1, <1>3, <1>7, KeyStepIInv DEF IInv, TypeOK

\* Looking the user up on the way to new tokens, or writing a password.
LEMMA LookUpIInv ==
  ASSUME IInv, NEW r \in Requests, Touch(r) \/ RefreshFind(r) \/ WritePassword(r) \/ Fail(r)
  PROVE  IInv'
  <1>1. /\ req[r].at # "idle" /\ req[r] \in Local /\ UNCHANGED tables
        /\ HasLocals(req[r]) /\ OnRecord(req[r], witnessed[r])
    BY BusyKnows DEF Touch, RefreshFind, WritePassword, Fail, At
  <1>2. ASSUME Touch(r) \/ RefreshFind(r) PROVE Moves(r)
    <2>1. /\ req'[r].at = "store" /\ req'[r].user = req[r].user /\ req'[r].flow = req[r].flow
          /\ Goto(r, "store") /\ Open(req[r].user) /\ req[r].user \in Users
      BY <1>1, <1>2 DEF Touch, RefreshFind, Goto, IInv, TypeOK, Local, At, HasLocals, AtUser
    <2>2. HasLocals(req'[r]) /\ ~BehindCode(req'[r]) /\ ~account[req[r].user].closed
      BY <2>1 DEF HasLocals, AtTicket, AtUser, BehindCode, Open
    <2>3. "store" \in Awaits
      BY DEF Awaits
    <2>4. QED
      BY <1>1, <2>1, <2>2, <2>3, GotoMoves DEF tables
  <1>3. ASSUME WritePassword(r), Goto(r, "token_del"), req[r].flow # "change", Open(req[r].user)
        PROVE  Moves(r)
    <2>1. /\ req'[r].at = "token_del" /\ req'[r].user = req[r].user /\ req'[r].flow = req[r].flow
          /\ req'[r].ticket = req[r].ticket /\ req[r].at = "password"
      BY <1>1, <1>3 DEF WritePassword, At, Goto, IInv, TypeOK, Local
    <2>2. HasLocals(req'[r]) /\ ~BehindCode(req'[r]) /\ ~account[req[r].user].closed
      BY <1>1, <1>3, <2>1 DEF HasLocals, AtTicket, AtUser, BehindCode, Open
    <2>3. "token_del" \in Awaits
      BY DEF Awaits
    <2>4. QED
      BY <1>1, <1>3, <2>2, <2>3, GotoMoves DEF tables
  <1>4. Moves(r)
    BY <1>2, <1>3, ReturnMoves DEF WritePassword, Fail
  <1>5. QED
    BY <1>1, <1>4, KeyStepIInv DEF tables, IInv, TypeOK, KeysHaveRows

\* The steps that write a row of users: what is left to show is that the index keeps the
\* addresses apart, that the others know of a closed row, and what the request knows next.
LEMMA RowStepIInv ==
  ASSUME IInv, NEW r \in Requests, UNCHANGED <<ticket, otp, session>>,
         account' \in [Users -> Row \cup {None}], OneAccountPerEmail',
         \A u \in Users : account[u] # None => account'[u] # None,
         \A u \in Users : account[u] # None /\ account'[u].closed => account[u].closed,
         Moves(r)
  PROVE  IInv'
  <1>1. TypeOK'
    BY DEF IInv, TypeOK, Moves
  <1>2. Keep({r})
    BY DEF Keep, Moves
  <1>3. LocalsStayTrue'
    BY <1>2, RequestsStayTrue DEF Moves
  <1>4. KeysHaveRows'
    BY DEF IInv, TypeOK, KeysHaveRows, Ticket
  <1>5. QED
    BY <1>1, <1>3, <1>4 DEF IInv

\* The first row of a user, with an address that the index accepts.
LEMMA CreateIInv ==
  ASSUME IInv, NEW r \in Requests, NEW u \in Users, Create(r, u)
  PROVE  IInv'
  <1> DEFINE row == [email |-> req[r].email, status |-> "pending", closed |-> FALSE]
  <1>1. /\ req[r].at = "create" /\ req[r] \in Local /\ req[r].email \in Emails
        /\ req[r].ticket \in Tickets /\ "code_entered" \in witnessed[r]
    BY BusyKnows DEF Create, At, HasLocals, OnRecord, BehindCode, AtTicket
  <1>2. row \in Row /\ row.email = req[r].email /\ ~row.closed
    BY <1>1 DEF Row
  <1>3. account[u] = None /\ account' = [account EXCEPT ![u] = row] /\ UniqueEmail(u, row.email)
    BY DEF Create
  <1> HIDE DEF row
  <1>4. OneAccountPerEmail' /\ account' \in [Users -> Row \cup {None}]
    BY <1>2, <1>3, IndexKeepsEmailsApart
  <1>5. account'[u] = row /\ \A v \in Users \ {u} : account'[v] = account[v]
    BY <1>3 DEF IInv, TypeOK
  <1>6. /\ req' \in [Requests -> Local \cup {Idle}] /\ \A q \in Requests \ {r} : req'[q] = req[q]
        /\ req'[r].at = "ticket_del" /\ req'[r].user = u /\ req'[r].flow = req[r].flow
        /\ req'[r].ticket = req[r].ticket /\ witnessed' = witnessed
    BY ZenonT(40), <1>1 DEF Create, IInv, TypeOK, Local, Awaits
  <1>7. HasLocals(req'[r])
    BY <1>1, <1>6 DEF HasLocals, AtTicket, AtUser
  <1>8. row # None
    BY <1>2, NoneIsNoRow
  <1>9. req[r].flow # "refresh"
    BY <1>1, BusyKnows DEF HasLocals
  <1>10. OnRecord(req[r], witnessed[r])'
    BY <1>1, <1>2, <1>5, <1>6, <1>8, <1>9 DEF OnRecord, BehindCode, SawOpen
  <1>11. Moves(r)
    BY <1>6, <1>7, <1>10 DEF Moves, IInv, TypeOK
  <1>12. QED
    BY <1>3, <1>4, <1>5, <1>8, <1>11, RowStepIInv DEF Create

\* Writing a row that is there: activating, changing the address, saving a copy.
LEMMA WriteRowIInv ==
  ASSUME IInv, NEW r \in Requests, Activate(r) \/ WriteEmail(r) \/ ProfileSave(r)
  PROVE  IInv'
  <1> DEFINE u == req[r].user
  <1>1. /\ req[r].at \in {"activate", "email", "profile_save"}
        /\ HasLocals(req[r]) /\ OnRecord(req[r], witnessed[r])
        /\ Return(r) /\ UNCHANGED <<ticket, otp, session>>
    BY BusyKnows DEF Activate, WriteEmail, ProfileSave, At
  <1>2. u \in Users /\ account[u] # None /\ account[u] \in Row
    BY <1>1 DEF HasLocals, AtUser, OnRecord, IInv, TypeOK
  <1>3. ASSUME NEW row \in Row, account' = [account EXCEPT ![u] = row],
               UniqueEmail(u, row.email), row.closed => account[u].closed
        PROVE  IInv'
    <2>1. OneAccountPerEmail' /\ account' \in [Users -> Row \cup {None}]
      BY <1>2, <1>3, IndexKeepsEmailsApart
    <2>2. row # None /\ account'[u] = row /\ \A v \in Users \ {u} : account'[v] = account[v]
      BY <1>2, <1>3, NoneIsNoRow DEF IInv, TypeOK
    <2>3. Moves(r)
      BY <1>1, ReturnMoves
    <2> HIDE DEF u
    <2>4. QED
      BY <1>1, <1>2, <1>3, <2>1, <2>2, <2>3, RowStepIInv
  <1>4. CASE Activate(r)
    <2> DEFINE row == [account[u] EXCEPT !.status = "active"]
    <2>1. row \in Row /\ row.email = account[u].email /\ row.closed = account[u].closed
      BY <1>2 DEF Row
    <2>2. account' = [account EXCEPT ![u] = row]
      BY <1>4 DEF Activate
    <2>3. UniqueEmail(u, row.email)
      BY <1>2, <2>1 DEF UniqueEmail, IInv, OneAccountPerEmail
    <2> HIDE DEF row, u
    <2>4. QED
      BY <1>3, <2>1, <2>2, <2>3
  <1>5. CASE WriteEmail(r)
    <2> DEFINE row == [account[u] EXCEPT !.email = req[r].email]
    <2>1. req[r].email \in Emails
      BY <1>1, <1>5 DEF WriteEmail, At, HasLocals
    <2>2. row \in Row /\ row.email = req[r].email /\ row.closed = account[u].closed
      BY <1>2, <2>1 DEF Row
    <2>3. account' = [account EXCEPT ![u] = row] /\ UniqueEmail(u, req[r].email)
      BY <1>5 DEF WriteEmail
    <2> HIDE DEF row, u
    <2>4. QED
      BY <1>3, <2>2, <2>3
  <1>6. CASE ProfileSave(r)
    <2>1. req[r].copy \in Row /\ ~req[r].copy.closed
      BY <1>1, <1>6 DEF ProfileSave, At, HasLocals
    <2>2. account' = [account EXCEPT ![u] = req[r].copy] /\ UniqueEmail(u, req[r].copy.email)
      BY <1>6 DEF ProfileSave
    <2>3. QED
      BY <1>3, <2>1, <2>2
  <1>7. QED
    BY <1>4, <1>5, <1>6

\* Closing a row: it stays on record of whoever works on it.
LEMMA CloseIInv ==
  ASSUME IInv, NEW r \in Requests, Close(r)
  PROVE  IInv'
  <1> DEFINE u == req[r].user
             row == [account[u] EXCEPT !.status = "deleted", !.closed = TRUE]
  <1>1. u \in Users /\ account[u] # None /\ account[u] \in Row
    BY BusyKnows DEF Close, At, HasLocals, AtUser, OnRecord, IInv, TypeOK
  <1>2. account' = [account EXCEPT ![u] = row] /\ row \in Row /\ row.email = account[u].email
    BY <1>1 DEF Close, Row
  <1>3. /\ \A q \in Requests \ {r} : req'[q] = req[q] /\ witnessed[q] \subseteq witnessed'[q]
        /\ \A q \in On(u) \ {r} : "closed" \in witnessed'[q]
        /\ req'[r] = Idle /\ session' = session
        /\ req' \in [Requests -> Local \cup {Idle}] /\ witnessed' \in [Requests -> SUBSET Events]
        /\ ticket' = ticket /\ otp' = otp
    BY DEF Close, IInv, TypeOK, On, Events
  <1> HIDE DEF row
  <1>4. OneAccountPerEmail' /\ account' \in [Users -> Row \cup {None}]
    BY <1>1, <1>2, SameEmailStaysApart
  <1>5. row # None /\ account'[u] = row /\ \A v \in Users \ {u} : account'[v] = account[v]
    BY <1>1, <1>2, NoneIsNoRow DEF IInv, TypeOK
  <1> HIDE DEF u
  <1>6. TypeOK'
    BY <1>3, <1>4 DEF IInv, TypeOK
  <1>7. KeysHaveRows'
    BY <1>1, <1>3, <1>5 DEF IInv, TypeOK, KeysHaveRows, Ticket
  <1>8. Keep({r})
    BY <1>3, <1>5 DEF Keep, On
  <1>9. LocalsStayTrue'
    BY <1>3, <1>8, RequestsStayTrue DEF Idle
  <1>10. QED
    BY <1>4, <1>6, <1>7, <1>9 DEF IInv

\* Storing a refresh token.
LEMMA StoreIInv ==
  ASSUME IInv, NEW r \in Requests, Store(r)
  PROVE  IInv'
  <1>1. req[r].user \in Users /\ account[req[r].user] # None
    BY BusyKnows DEF Store, At, HasLocals, AtUser, OnRecord
  <1>2. /\ Moves(r) /\ session' = session \cup {req[r].user} /\ UNCHANGED <<account, ticket, otp>>
        /\ req'[r].at = "idle"
    BY ReturnMoves DEF Store, Return, IInv, TypeOK, Idle
  <1>3. TypeOK'
    BY <1>1, <1>2 DEF IInv, TypeOK, Moves
  <1>4. Keep({r})
    BY <1>2, QuietStepsKeep DEF Moves
  <1>5. LocalsStayTrue'
    BY <1>2, <1>4, RequestsStayTrue
  <1>6. KeysHaveRows' /\ OneAccountPerEmail'
    BY <1>1, <1>2 DEF IInv, KeysHaveRows, OneAccountPerEmail
  <1>7. QED
    BY <1>3, <1>5, <1>6 DEF IInv

\* A refresh token that is revoked or expires: every refresh under way has it on record.
LEMMA LoseSessionIInv ==
  ASSUME IInv, NEW u \in Users, NEW rs \in SUBSET Requests,
         session' = session \ {u}, UNCHANGED <<account, ticket, otp>>,
         req' \in [Requests -> Local \cup {Idle}], witnessed' \in [Requests -> SUBSET Events],
         \A q \in Requests \ rs : req'[q] = req[q] /\ witnessed[q] \subseteq witnessed'[q],
         \A q \in Refreshing(u) \ rs : "revoked" \in witnessed'[q],
         \A q \in rs : req'[q].at = "idle"
  PROVE  IInv'
  <1>1. TypeOK'
    BY DEF IInv, TypeOK
  <1>2. Keep(rs)
    BY DEF Keep, Refreshing, On
  <1>3. LocalsStayTrue'
    BY <1>2, RequestsStayTrue
  <1>4. KeysHaveRows' /\ OneAccountPerEmail'
    BY DEF IInv, KeysHaveRows, OneAccountPerEmail
  <1>5. QED
    BY <1>1, <1>3, <1>4 DEF IInv

\* Revoking in a handler or by a logout, and keys that expire.
LEMMA RevokeIInv ==
  ASSUME IInv, (\E r \in Requests : Revoke(r)) \/ (\E u \in Users : Logout(u)) \/ Expire
  PROVE  IInv'
  <1>1. ASSUME NEW r \in Requests, Revoke(r) PROVE IInv'
    <2>1. req[r].user \in Users
      BY <1>1, BusyKnows DEF Revoke, At, HasLocals, AtUser
    <2>2. /\ req' \in [Requests -> Local \cup {Idle}] /\ witnessed' \in [Requests -> SUBSET Events]
          /\ \A q \in Requests \ {r} : req'[q] = req[q] /\ witnessed[q] \subseteq witnessed'[q]
          /\ \A q \in Refreshing(req[r].user) \ {r} : "revoked" \in witnessed'[q]
      BY <1>1 DEF Revoke, IInv, TypeOK, Events, Idle, Refreshing, On
    <2>3. {r} \in SUBSET Requests /\ \A q \in {r} : req'[q].at = "idle"
      BY <1>1 DEF Revoke, IInv, TypeOK, Idle
    <2>4. session' = session \ {req[r].user} /\ UNCHANGED <<account, ticket, otp>>
      BY <1>1 DEF Revoke
    <2>5. QED
      BY <2>1, <2>2, <2>3, <2>4, LoseSessionIInv
  <1>2. ASSUME NEW u \in Users, session' = session \ {u}, Witness(Refreshing(u), "revoked"),
               UNCHANGED <<account, ticket, otp, req>>
        PROVE  IInv'
    <2>1. /\ witnessed' \in [Requests -> SUBSET Events]
          /\ \A q \in Requests \ {} : req'[q] = req[q] /\ witnessed[q] \subseteq witnessed'[q]
          /\ \A q \in Refreshing(u) \ {} : "revoked" \in witnessed'[q]
      BY <1>2 DEF Witness, IInv, TypeOK, Events, Refreshing, On
    <2>2. req' \in [Requests -> Local \cup {Idle}]
      BY <1>2 DEF IInv, TypeOK
    <2>3. {} \in SUBSET Requests /\ \A q \in {} : req'[q].at = "idle"
      OBVIOUS
    <2>4. session' = session \ {u} /\ UNCHANGED <<account, ticket, otp>>
      BY <1>2
    <2>5. QED
      BY <2>1, <2>2, <2>3, <2>4, LoseSessionIInv
  <1>3. ASSUME UNCHANGED <<account, session, witnessed, req>>,
               ticket' \in [Tickets -> Ticket \cup {None}], otp' \in SUBSET Tickets,
               \A t \in Tickets : ticket'[t] # None => ticket'[t] = ticket[t]
        PROVE  IInv'
    BY <1>3 DEF IInv, TypeOK, LocalsStayTrue, OnRecord, BehindCode, SawOpen, KeysHaveRows,
       OneAccountPerEmail
  <1>4. ASSUME Expire PROVE IInv'
    <2>1. ASSUME NEW u \in session, session' = session \ {u}, Witness(Refreshing(u), "revoked"),
                 UNCHANGED <<account, ticket, otp, req>>
          PROVE  IInv'
      BY <1>2, <2>1 DEF IInv, TypeOK
    <2>2. ASSUME NEW t \in Tickets, ticket' = [ticket EXCEPT ![t] = None],
                 UNCHANGED <<account, otp, session, witnessed, req>>
          PROVE  IInv'
      <3>1. ticket' \in [Tickets -> Ticket \cup {None}] /\ otp' \in SUBSET Tickets
        BY <2>2 DEF IInv, TypeOK
      <3>2. \A s \in Tickets : ticket'[s] # None => ticket'[s] = ticket[s]
        BY <2>2 DEF IInv, TypeOK
      <3>3. QED
        BY <1>3, <2>2, <3>1, <3>2
    <2>3. CASE \E t \in otp : /\ otp' = otp \ {t}
                              /\ UNCHANGED <<account, ticket, session, witnessed, req>>
      BY <1>3, <2>3 DEF IInv, TypeOK
    <2>4. QED
      BY <1>4, <2>1, <2>2, <2>3 DEF Expire
  <1>5. QED
    BY <1>1, <1>2, <1>4 DEF Logout

\* Every step preserves the invariant.
LEMMA NextIInv ==
  ASSUME IInv, [Next]_vars
  PROVE  IInv'
  <1>1. ASSUME NEW r \in Requests, Start(r) PROVE IInv'
    BY <1>1, RegistrationRoutesIInv, SessionRoutesIInv, PasswordRoutesIInv, UserRoutesIInv DEF Start
  <1>2. ASSUME NEW r \in Requests, Continue(r) PROVE IInv'
    BY <1>2, IssueIInv, VerifyIInv, ForgetIInv, LookUpIInv, CreateIInv, WriteRowIInv, CloseIInv,
       StoreIInv, RevokeIInv DEF Continue
  <1>3. CASE UNCHANGED vars
    BY <1>3 DEF vars, tables, IInv, TypeOK, LocalsStayTrue, HasLocals, OnRecord, BehindCode,
       SawOpen, KeysHaveRows, OneAccountPerEmail
  <1>4. QED
    BY <1>1, <1>2, <1>3, RevokeIInv DEF Next

\* The invariant holds throughout.
LEMMA SpecIInv == Spec => []IInv
  <1>1. IInv /\ [Next]_vars => IInv'
    BY NextIInv
  <1>2. QED
    BY <1>1, InitIInv, PTL DEF Spec

----------------------------------------------------------------------------
(* The theorems *)

\* Which step may give a user a session, write a row, or store a ticket.
LEMMA StepsAreAccountedFor ==
  ASSUME Next
  PROVE  /\ session' \subseteq session \/ \E r \in Requests : Store(r)
         /\ \/ account' = account
            \/ \E r \in Requests : \/ Activate(r) \/ WriteEmail(r) \/ ProfileSave(r) \/ Close(r)
                                  \/ \E u \in Users : Create(r, u)
         /\ \/ ticket' = ticket
            \/ \E t \in Tickets : ticket' = [ticket EXCEPT ![t] = None]
            \/ \E r \in Requests : \/ TicketDel(r) \/ TokenDel(r)
                                  \/ \E t \in Tickets : TicketSet(r, t) \/ TokenSet(r, t)
  <1>1. ASSUME NEW r \in Requests, RegistrationRoutes(r) \/ SessionRoutes(r)
        PROVE  UNCHANGED tables
    BY <1>1 DEF RegistrationRoutes, SessionRoutes, Register, VerifyOtp, ResendOtp, SetupPassword,
       Login, OpenSession, Refresh, EnableProfile, Begin
  <1>2. ASSUME NEW r \in Requests, SetPasswordRoutes(r) \/ ResetPasswordRoutes(r)
        PROVE  UNCHANGED tables
    BY <1>2 DEF SetPasswordRoutes, ResetPasswordRoutes, AskForCode, ConfirmOtp,
       ForgotPasswordResend, NewPassword, Begin
  <1>3. ASSUME NEW r \in Requests, UserRoutes(r)
        PROVE  session' \subseteq session /\ UNCHANGED <<account, ticket>>
    BY <1>3 DEF UserRoutes, UpdatePassword, UpdateEmail, CloseAccount, Begin, tables
  <1>4. ASSUME NEW r \in Requests, Continue(r)
        PROVE  session' \subseteq session \/ Store(r)
    BY <1>4 DEF Continue, TicketSet, TokenSet, OtpSet, OtpGet, OtpDel, TicketDel, Create, Activate,
       Touch, RefreshFind, Revoke, ProfileSave, WritePassword, TokenDel, WriteEmail, Close, Fail,
       tables
  <1>5. ASSUME NEW r \in Requests, Continue(r)
        PROVE  \/ account' = account \/ Activate(r) \/ WriteEmail(r) \/ ProfileSave(r) \/ Close(r)
               \/ \E u \in Users : Create(r, u)
    BY <1>5 DEF Continue, TicketSet, TokenSet, OtpSet, OtpGet, OtpDel, TicketDel, Touch, RefreshFind,
       Store, Revoke, WritePassword, TokenDel, Fail, tables
  <1>6. ASSUME NEW r \in Requests, Continue(r)
        PROVE  \/ ticket' = ticket \/ TicketDel(r) \/ TokenDel(r)
               \/ \E t \in Tickets : TicketSet(r, t) \/ TokenSet(r, t)
    BY <1>6 DEF Continue, OtpSet, OtpGet, OtpDel, Create, Activate, Touch, RefreshFind, Store,
       Revoke, ProfileSave, WritePassword, WriteEmail, Close, Fail, tables
  <1>7. ASSUME NEW r \in Requests, Start(r)
        PROVE  session' \subseteq session /\ UNCHANGED <<account, ticket>>
    BY <1>1, <1>2, <1>3, <1>7 DEF Start, tables
  <1>8. CASE (\E u \in Users : Logout(u)) \/ Expire
    BY <1>8 DEF Logout, Expire
  <1>9. QED
    BY <1>4, <1>5, <1>6, <1>7, <1>8 DEF Next

\* Tables, keys and local variables have the types the code gives them.
THEOREM AccountsTypeCorrect == Spec => []TypeOK
  <1>1. IInv => TypeOK
    BY DEF IInv
  <1>2. QED
    BY <1>1, SpecIInv, PTL

\* No two accounts, open or closed, ever have one address.
THEOREM EmailsStayApart == Spec => []OneAccountPerEmail
  <1>1. IInv => OneAccountPerEmail
    BY DEF IInv
  <1>2. QED
    BY <1>1, SpecIInv, PTL

\* A refresh brings back a session that was revoked only if it had validated its token
\* before.
THEOREM RefreshesAreOnRecord == Spec => RevokedStaysRevoked
  <1> DEFINE A == \A u \in session' \ session :
               \E r \in Requests : /\ At(r, "store") /\ req[r].user = u
                                   /\ req[r].flow = "refresh" => "revoked" \in witnessed[r]
  <1>1. IInv /\ [Next]_vars => [A]_vars
    <2> SUFFICES ASSUME IInv, Next, NEW u \in session' \ session
                 PROVE  \E r \in Requests :
                          /\ At(r, "store") /\ req[r].user = u
                          /\ req[r].flow = "refresh" => "revoked" \in witnessed[r]
      OBVIOUS
    <2>1. PICK r \in Requests : Store(r)
      BY StepsAreAccountedFor
    <2>2. At(r, "store") /\ req[r].user = u
      BY <2>1 DEF Store
    <2>3. req[r].flow = "refresh" => "revoked" \in witnessed[r]
      BY <2>2, BusyKnows DEF At, OnRecord
    <2>4. QED
      BY <2>2, <2>3
  <1>2. QED
    BY <1>1, SpecIInv, PTL DEF Spec, RevokedStaysRevoked

\* An account appears only behind a code for its address, a reset token only behind one
\* for its user.
THEOREM NothingWithoutACode == Spec => CodesComeFirst
  <1> DEFINE A == /\ \A u \in Users : account[u] = None /\ account'[u] # None =>
                    \E r \in Requests : "code_entered" \in witnessed[r] /\ req[r].email = account'[u].email
               /\ \A t \in Tickets : ticket'[t] # ticket[t] /\ Holds(t, "reset_token")' =>
                    \E r \in Requests : "code_entered" \in witnessed[r] /\ req[r].user = ticket'[t].user
  <1>1. IInv /\ [Next]_vars => [A]_vars
    <2> SUFFICES ASSUME IInv, Next PROVE A
      OBVIOUS
    <2>1. ASSUME NEW u \in Users, account[u] = None, account'[u] # None
          PROVE  \E r \in Requests : "code_entered" \in witnessed[r] /\ req[r].email = account'[u].email
      <3>1. PICK r \in Requests : \/ Activate(r) \/ WriteEmail(r) \/ ProfileSave(r) \/ Close(r)
                                  \/ \E v \in Users : Create(r, v)
        BY <2>1, StepsAreAccountedFor
      <3>2. ~(Activate(r) \/ WriteEmail(r) \/ ProfileSave(r) \/ Close(r))
        <4>1. ASSUME req[r].at \in {"activate", "email", "profile_save", "close"}
              PROVE  account[req[r].user] # None
          BY <4>1, BusyKnows DEF HasLocals, AtUser, OnRecord
        <4>2. QED
          BY <2>1, <4>1 DEF Activate, WriteEmail, ProfileSave, Close, At, IInv, TypeOK
      <3>3. PICK v \in Users : Create(r, v)
        BY <3>1, <3>2
      <3>4. v = u /\ account'[u].email = req[r].email
        BY <2>1, <3>3 DEF Create, IInv, TypeOK
      <3>5. "code_entered" \in witnessed[r]
        BY <3>3, BusyKnows DEF Create, At, OnRecord, BehindCode
      <3>6. QED
        BY <3>4, <3>5
    <2>2. ASSUME NEW t \in Tickets, ticket'[t] # ticket[t], Holds(t, "reset_token")'
          PROVE  \E r \in Requests : "code_entered" \in witnessed[r] /\ req[r].user = ticket'[t].user
      <3>1. ticket'[t] # None /\ ticket'[t].kind = "reset_token"
        BY <2>2 DEF Holds
      <3>2. ASSUME NEW s \in Tickets, ticket' = [ticket EXCEPT ![s] = None] PROVE FALSE
        BY <2>2, <3>1, <3>2 DEF IInv, TypeOK
      <3>3. ASSUME NEW r \in Requests, TicketDel(r) \/ TokenDel(r) PROVE FALSE
        BY <2>2, <3>1, <3>3 DEF TicketDel, TokenDel, IInv, TypeOK
      <3>4. ASSUME NEW r \in Requests, NEW s \in Tickets, TicketSet(r, s) PROVE FALSE
        <4>1. req[r].flow \in Coded \cup {"register"}
          BY <3>4, BusyKnows DEF TicketSet, At, HasLocals
        <4>2. s = t => ticket'[t].kind = req[r].flow
          BY <3>4 DEF TicketSet, IInv, TypeOK
        <4>3. s = t
          BY <2>2, <3>4 DEF TicketSet, IInv, TypeOK
        <4>4. QED
          BY <3>1, <4>1, <4>2, <4>3 DEF Coded
      <3>5. PICK r \in Requests : \E s \in Tickets : TokenSet(r, s)
        BY <2>2, <3>2, <3>3, <3>4, StepsAreAccountedFor
      <3>6. ticket'[t].user = req[r].user
        BY <2>2, <3>5 DEF TokenSet, IInv, TypeOK
      <3>7. "code_entered" \in witnessed[r]
        BY <3>5, BusyKnows DEF TokenSet, At, OnRecord, BehindCode
      <3>8. QED
        BY <3>6, <3>7
    <2>3. QED
      BY <2>1, <2>2
  <1>2. QED
    BY <1>1, SpecIInv, PTL DEF Spec, CodesComeFirst

\* A closed account stays closed, and without a new session, once the requests that were
\* under way are over.
THEOREM ClosedStaysClosed == Spec => ClosingTakesEffect
  <1> DEFINE A == \A u \in Users :
       account[u] # None /\ account[u].closed /\ (\A r \in On(u) : "closed" \notin witnessed[r]) =>
         account'[u].closed /\ (u \in session' => u \in session)
  <1>1. IInv /\ [Next]_vars => [A]_vars
    <2> SUFFICES ASSUME IInv, Next, NEW u \in Users, account[u] # None, account[u].closed,
                        \A r \in On(u) : "closed" \notin witnessed[r]
                 PROVE  account'[u].closed /\ (u \in session' => u \in session)
      OBVIOUS
    <2>1. ASSUME NEW r \in Requests, At(r, "store") \/ At(r, "profile_save")
          PROVE  req[r].user # u
      BY <2>1, BusyKnows DEF At, On, OnRecord, SawOpen
    <2>2. u \in session' => u \in session
      BY <2>1, StepsAreAccountedFor DEF Store
    <2>3. ASSUME NEW r \in Requests, Activate(r) \/ WriteEmail(r) \/ Close(r)
          PROVE  account'[u].closed
      BY <2>3 DEF Activate, WriteEmail, Close, IInv, TypeOK, Row
    <2>4. ASSUME NEW r \in Requests, ProfileSave(r)
          PROVE  account'[u].closed
      BY <2>1, <2>4 DEF ProfileSave, IInv, TypeOK
    <2>5. ASSUME NEW r \in Requests, NEW v \in Users, Create(r, v)
          PROVE  account'[u].closed
      BY <2>5 DEF Create, IInv, TypeOK
    <2>6. QED
      BY <2>2, <2>3, <2>4, <2>5, StepsAreAccountedFor
  <1>2. QED
    BY <1>1, SpecIInv, PTL DEF Spec, ClosingTakesEffect
=============================================================================
