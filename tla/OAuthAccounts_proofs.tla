------------------------ MODULE OAuthAccounts_proofs ------------------------
(***************************************************************************)
(* For every number of users, identities, attempts, tickets and requests:  *)
(* the handlers implement IdentityLinks, so that no unlink takes the last  *)
(* way in; an existing account gets an identity only where its user asked  *)
(* for it or a code was entered; and an undisturbed completion connects    *)
(* the address its code was mailed to.                                     *)
(***************************************************************************)
EXTENDS OAuthAccounts, FiniteSetTheorems, TLAPS

Unlinking == {"unlink_find", "unlink_count", "unlink_remove"}
AtTicket  == {"pending_set", "otp_set", "otp_get", "otp_del", "link_find", "ticket_del"}
Verified  == {"otp_del", "link_find", "email_find", "link_insert"}

\* At each await a request has the local variables that its next steps use, and what asked
\* for the connection it is about to make.
HasLocals(q) ==
  /\ q.at \in {"state_del", "exchange"} => q.key \in States /\ q.user = q.asked
  /\ q.at \in AtTicket => q.key \in Tickets
  /\ q.at \in {"email_find", "link_insert"} => q.key \in States \cup Tickets
  /\ q.at \in Verified \cup {"pending_set", "otp_get", "unlink_count", "unlink_remove"} =>
       q.identity \in Identities
  /\ q.at \in {"link_find", "link_insert"} \cup Unlinking => q.user \in Users
  /\ q.at \in {"pending_set", "otp_set", "otp_get"} => q.email \in Emails
  /\ q.at \in Verified /\ q.key \in Tickets => q.entered # "nothing"
  /\ q.at = "link_insert" /\ q.key \in States => q.asked = q.user

\* What the lock of its user guarantees request r while it disconnects an identity.
UnlinkKnows(r) ==
  LET q == req[r] IN
  q.at \in Unlinking =>
    /\ lock[q.user] = r /\ account[q.user] # None
    /\ q.at \in {"unlink_find", "unlink_count"} => q.password = account[q.user].password
    /\ q.at \in {"unlink_count", "unlink_remove"} => linked[q.identity] = q.user
    /\ q.at = "unlink_remove" => \/ account[q.user].password
                                 \/ \E j \in Identities \ {q.identity} : linked[j] = q.user

LocalsStayTrue ==
  \A r \in Requests : req[r].at # "idle" => HasLocals(req[r]) /\ UnlinkKnows(r)

AddressWritten(t) == {r \in On(t) : req[r].at = "otp_set"}

\* The address of a completion and the one its code was mailed to are the same but between the
\* writes of the two, when nobody else is at work on the ticket.
TicketFits(t) ==
  /\ \A r \in Changing(t) : On(t) = {r}
  /\ \A r \in AddressWritten(t) : ticket[t] # None => ticket[t].email = req[r].email
  /\ AddressWritten(t) = {} /\ otp[t] # None =>
       /\ ticket[t] # None => otp[t] = ticket[t].email
       /\ \A r \in On(t) : req[r].at = "otp_get" => otp[t] = req[r].email
  /\ \A r \in On(t) : req[r].at \in Verified => req[r].entered = "its code"

CodesFit == \A t \in Tickets \ disturbed : TicketFits(t)

IInv ==
  /\ TypeOK
  /\ LocalsStayTrue
  /\ CodesFit

----------------------------------------------------------------------------
(* Requests *)

\* A request in the middle of a handler has the local variables of one.
LEMMA BusyKnows ==
  ASSUME IInv, NEW r \in Requests, req[r].at # "idle"
  PROVE  /\ req[r] \in Local /\ HasLocals(req[r]) /\ UnlinkKnows(r)
         /\ req[r].at \in Awaits /\ req[r].key \in States \cup Tickets \cup {None}
         /\ req[r].identity \in Identities \cup {None} /\ req[r].user \in Users \cup {None}
         /\ req[r].asked \in Users \cup {None} /\ req[r].email \in Emails \cup {None}
  <1>1. req[r] \in Local
    BY DEF IInv, TypeOK, Idle
  <1>2. QED
    BY <1>1 DEF IInv, LocalsStayTrue, Local

\* What a step of the requests rs leaves to the others: their locals, and what a user's row
\* and identities say while one of them holds the lock.
Keep(rs) ==
  /\ \A q \in Requests \ rs : req'[q] = req[q]
  /\ \A u \in Users : lock[u] \notin rs \cup {None} =>
       /\ lock'[u] = lock[u]
       /\ account[u] # None => account'[u] # None /\ account'[u].password = account[u].password
       /\ \A i \in Identities : linked[i] = u => linked'[i] = u

\* What some requests do leaves true what the others know.
LEMMA RequestsStayTrue ==
  ASSUME IInv, NEW rs \in SUBSET Requests, Keep(rs),
         \A r \in rs : req'[r].at # "idle" => HasLocals(req'[r]) /\ UnlinkKnows(r)'
  PROVE  LocalsStayTrue'
  <1> SUFFICES ASSUME NEW q \in Requests, q \notin rs, req'[q].at # "idle"
               PROVE  HasLocals(req'[q]) /\ UnlinkKnows(q)'
    BY DEF LocalsStayTrue, HasLocals
  <1>1. req'[q] = req[q] /\ HasLocals(req[q]) /\ UnlinkKnows(q)
    BY BusyKnows DEF Keep
  <1>2. ASSUME req[q].at \in Unlinking PROVE UnlinkKnows(q)'
    <2>1. req[q].user \in Users /\ lock[req[q].user] = q /\ q # None
      BY <1>1, <1>2, OAuthAssumption DEF HasLocals, UnlinkKnows
    <2>2. req[q].at \in {"unlink_count", "unlink_remove"} => req[q].identity \in Identities
      BY <1>1 DEF HasLocals
    <2>3. QED
      BY <1>1, <1>2, <2>1, <2>2 DEF UnlinkKnows, Keep
  <1>3. QED
    BY <1>1, <1>2 DEF UnlinkKnows

\* What request r may do without touching what fits a ticket: it leaves, it goes on with a
\* code it has entered, or it has nothing to do with tickets.
Harmless(r) ==
  \/ req'[r].at = "idle" /\ (req[r].at = "otp_set" => req[r].key \in disturbed')
  \/ /\ req[r].at \notin {"idle", "otp_set"} /\ req'[r].key = req[r].key
     /\ req'[r].at \notin {"idle", "pending_set", "otp_set", "otp_get"}
     /\ req'[r].at \in Verified =>
          req[r].at \in Verified /\ req'[r].entered = req[r].entered
  \/ /\ req[r].at = "idle" \/ req[r].key \notin Tickets
     /\ req'[r].key \notin Tickets

\* Such steps, keys that expire and tickets that are used up leave the codes in place.
LEMMA CodesStayFit ==
  ASSUME IInv, NEW rs \in SUBSET Requests, \A q \in Requests \ rs : req'[q] = req[q],
         disturbed \subseteq disturbed',
         \A t \in Tickets : ticket'[t] \in {ticket[t], None} /\ otp'[t] \in {otp[t], None},
         \A r \in rs : Harmless(r)
  PROVE  CodesFit'
  <1> SUFFICES ASSUME NEW t \in Tickets, t \notin disturbed' PROVE TicketFits(t)'
    BY DEF CodesFit
  <1>1. t \notin disturbed
    OBVIOUS
  <1>2. \A r \in Requests : r \in On(t)' => r \in On(t)
    BY DEF On, Harmless
  <1>3. \A r \in Requests : r \in Changing(t)' => r \in Changing(t) /\ req'[r] = req[r]
    BY <1>2 DEF Changing, On, Harmless, Verified
  <1>4. \A r \in Requests : r \in AddressWritten(t)' <=> r \in AddressWritten(t)
    BY DEF AddressWritten, On, Harmless
  <1>5. \A r \in On(t)' : req'[r].at = "otp_get" => req'[r] = req[r]
    BY DEF On, Harmless, Verified
  <1>6. \A r \in On(t)' : req'[r].at \in Verified =>
           req[r].at \in Verified /\ req'[r].entered = req[r].entered
    BY DEF On, Harmless, Verified
  <1>7. TicketFits(t)
    BY <1>1 DEF IInv, CodesFit
  <1>8. On(t)' \subseteq Requests /\ Changing(t)' \subseteq On(t)' /\ AddressWritten(t)' \subseteq Changing(t)'
    BY DEF On, Changing, AddressWritten
  <1>9. \A r \in Changing(t)' : On(t)' = {r}
    BY <1>2, <1>3, <1>7, <1>8 DEF TicketFits
  <1>10. \A r \in AddressWritten(t)' : ticket'[t] # None => ticket'[t].email = req'[r].email
    BY <1>3, <1>4, <1>7, <1>8 DEF TicketFits
  <1>11. AddressWritten(t)' = {} => AddressWritten(t) = {}
    BY <1>4 DEF AddressWritten, On
  <1>12. ASSUME AddressWritten(t)' = {}, otp'[t] # None
         PROVE  /\ ticket'[t] # None => otp'[t] = ticket'[t].email
                /\ \A r \in On(t)' : req'[r].at = "otp_get" => otp'[t] = req'[r].email
    <2>1. otp'[t] = otp[t] /\ otp[t] # None /\ ticket'[t] \in {ticket[t], None}
      BY <1>12
    <2>2. \A r \in On(t)' : req'[r].at = "otp_get" => otp'[t] = req'[r].email
      BY <1>2, <1>5, <1>7, <1>8, <1>11, <1>12, <2>1 DEF TicketFits
    <2>3. QED
      BY <1>7, <1>11, <1>12, <2>1, <2>2 DEF TicketFits
  <1>13. \A r \in On(t)' : req'[r].at \in Verified => req'[r].entered = "its code"
    BY <1>2, <1>6, <1>7, <1>8 DEF TicketFits
  <1>14. QED
    BY <1>9, <1>10, <1>12, <1>13 DEF TicketFits

----------------------------------------------------------------------------
(* The steps *)

\* Accounts from before, no keys, no requests.
LEMMA InitIInv == Init => IInv
  <1> SUFFICES ASSUME Init PROVE IInv
    OBVIOUS
  <1>1. TypeOK
    BY DEF Init, TypeOK, Idle
  <1>2. LocalsStayTrue /\ CodesFit
    BY DEF Init, LocalsStayTrue, CodesFit, TicketFits, Idle, On, Changing, AddressWritten
  <1>3. QED
    BY <1>1, <1>2 DEF IInv

\* A harmless step of request r that leaves rows and locks alone.
LEMMA HarmlessIInv ==
  ASSUME IInv, NEW r \in Requests, UNCHANGED <<account, linked, lock>>,
         req' \in [Requests -> Local \cup {Idle}], \A q \in Requests \ {r} : req'[q] = req[q],
         state' \in [States -> Attempt \cup {None}],
         ticket' \in [Tickets -> Pending \cup {None}], otp' \in [Tickets -> Emails \cup {None}],
         disturbed' \in SUBSET Tickets, disturbed \subseteq disturbed',
         \A t \in Tickets : ticket'[t] \in {ticket[t], None} /\ otp'[t] \in {otp[t], None},
         Harmless(r),
         req'[r].at # "idle" => HasLocals(req'[r]) /\ UnlinkKnows(r)'
  PROVE  IInv'
  <1>1. TypeOK'
    BY DEF IInv, TypeOK
  <1>2. Keep({r})
    BY DEF Keep
  <1>3. LocalsStayTrue'
    BY <1>2, RequestsStayTrue
  <1>4. CodesFit'
    <2>1. {r} \in SUBSET Requests /\ \A q \in {r} : Harmless(q)
      OBVIOUS
    <2>2. QED
      BY <2>1, CodesStayFit
  <1>5. QED
    BY <1>1, <1>3, <1>4 DEF IInv

\* Attempts: the callback reads and deletes the state.
LEMMA AttemptIInv ==
  ASSUME IInv, NEW r \in Requests, CallbackRoutes(r) \/ StateDel(r)
  PROVE  IInv'
  <1> USE OAuthAssumption
  <1>1. ASSUME NEW s \in States, Callback(r, s) PROVE IInv'
    <2>1. state[s] \in Attempt /\ state[s].user \in Users \cup {None}
      BY <1>1 DEF Callback, IInv, TypeOK, Attempt
    <2>2. /\ req' \in [Requests -> Local \cup {Idle}] /\ \A q \in Requests \ {r} : req'[q] = req[q]
          /\ req[r].at = "idle" /\ req'[r].at = "state_del" /\ req'[r].key = s
          /\ req'[r].user = req'[r].asked
      BY <1>1, <2>1 DEF Callback, Begin, IInv, TypeOK, Local, Awaits, Fresh
    <2>3. HasLocals(req'[r]) /\ UnlinkKnows(r)' /\ Harmless(r)
      BY <2>2 DEF HasLocals, UnlinkKnows, Harmless, AtTicket, Verified, Unlinking
    <2>4. QED
      BY <1>1, <2>2, <2>3, HarmlessIInv DEF Callback, keys, IInv, TypeOK
  <1>2. CASE StateDel(r)
    <2>1. req[r].at = "state_del" /\ req[r] \in Local /\ HasLocals(req[r])
      BY <1>2, BusyKnows DEF StateDel, At
    <2>2. /\ req' \in [Requests -> Local \cup {Idle}] /\ \A q \in Requests \ {r} : req'[q] = req[q]
          /\ req'[r].at = "exchange" /\ req'[r].key = req[r].key
          /\ req'[r].user = req[r].user /\ req'[r].asked = req[r].asked
      BY ZenonT(40), <1>2, <2>1 DEF StateDel, Goto, IInv, TypeOK, Local, Awaits
    <2>3. HasLocals(req'[r]) /\ UnlinkKnows(r)' /\ Harmless(r)
      BY <2>1, <2>2 DEF HasLocals, UnlinkKnows, Harmless, AtTicket, Verified, Unlinking
    <2>4. state' \in [States -> Attempt \cup {None}]
      BY <1>2 DEF StateDel, IInv, TypeOK
    <2>5. QED
      BY <1>2, <2>2, <2>3, <2>4, HarmlessIInv DEF StateDel, IInv, TypeOK
  <1>3. QED
    BY <1>1, <1>2 DEF CallbackRoutes

\* A step of rs that writes rows or locks, and is harmless to the codes.
LEMMA RowIInv ==
  ASSUME IInv, NEW rs \in SUBSET Requests, TypeOK', Keep(rs), disturbed \subseteq disturbed',
         \A t \in Tickets : ticket'[t] \in {ticket[t], None} /\ otp'[t] \in {otp[t], None},
         \A r \in rs : /\ Harmless(r)
                       /\ req'[r].at # "idle" => HasLocals(req'[r]) /\ UnlinkKnows(r)'
  PROVE  IInv'
  <1>1. LocalsStayTrue'
    BY RequestsStayTrue
  <1>2. CodesFit'
    BY CodesStayFit DEF Keep
  <1>3. QED
    BY <1>1, <1>2 DEF IInv

\* A request that is over, or fails.
LEMMA ReturnIsHarmless ==
  ASSUME IInv, NEW r \in Requests, Return(r), req[r].at = "otp_set" => req[r].key \in disturbed'
  PROVE  /\ req' \in [Requests -> Local \cup {Idle}] /\ \A q \in Requests \ {r} : req'[q] = req[q]
         /\ Harmless(r) /\ req'[r].at = "idle"
  BY DEF Return, IInv, TypeOK, Idle, Harmless

\* A request that opens a session, after it has deleted its ticket if it has one.
LEMMA FinishIsHarmless ==
  ASSUME IInv, NEW r \in Requests, Finish(r), req[r].at \notin {"idle", "otp_set"}
  PROVE  /\ req' \in [Requests -> Local \cup {Idle}] /\ \A q \in Requests \ {r} : req'[q] = req[q]
         /\ Harmless(r) /\ req'[r].at \in {"idle", "ticket_del"}
         /\ req'[r].at # "idle" => HasLocals(req'[r]) /\ UnlinkKnows(r)'
  <1>1. req[r] \in Local /\ req[r].key \in States \cup Tickets \cup {None}
    BY BusyKnows
  <1>2. CASE Completing(r)
    <2>1. /\ req' \in [Requests -> Local \cup {Idle}] /\ \A q \in Requests \ {r} : req'[q] = req[q]
          /\ req'[r].at = "ticket_del" /\ req'[r].key = req[r].key
      BY <1>1, <1>2 DEF Finish, Fresh, IInv, TypeOK, Local, Awaits
    <2>2. req[r].key \in Tickets
      BY <1>2 DEF Completing
    <2>3. QED
      BY <2>1, <2>2 DEF Harmless, HasLocals, UnlinkKnows, Verified, AtTicket, Unlinking
  <1>3. CASE ~Completing(r)
    BY <1>3 DEF Finish, IInv, TypeOK, Idle, Harmless
  <1>4. QED
    BY <1>2, <1>3

\* Signing in: whose the identity is.
LEMMA LinkedFindIInv ==
  ASSUME IInv, NEW r \in Requests, NEW i \in Identities, NEW e \in Emails \cup {None},
         LinkedFind(r, i, e)
  PROVE  IInv'
  <1> USE OAuthAssumption
  <1>1. req[r].at = "exchange" /\ req[r] \in Local /\ HasLocals(req[r])
    BY BusyKnows DEF LinkedFind, At
  <1>2. CASE linked[i] # None
    BY <1>1, <1>2, ReturnIsHarmless, HarmlessIInv DEF LinkedFind, keys, IInv, TypeOK
  <1>3. CASE linked[i] = None
    <2>1. req' = [req EXCEPT ![r].at = "email_find", ![r].identity = i, ![r].email = e]
      BY <1>3 DEF LinkedFind
    <2>2. /\ req' \in [Requests -> Local \cup {Idle}] /\ \A q \in Requests \ {r} : req'[q] = req[q]
          /\ req'[r].at = "email_find" /\ req'[r].key = req[r].key /\ req'[r].identity = i
      BY ZenonT(40), <1>1, <2>1 DEF IInv, TypeOK, Local, Awaits
    <2>3. HasLocals(req'[r]) /\ UnlinkKnows(r)' /\ Harmless(r)
      BY <1>1, <2>2 DEF HasLocals, UnlinkKnows, Harmless, AtTicket, Verified, Unlinking
    <2>4. QED
      BY <2>2, <2>3, HarmlessIInv DEF LinkedFind, keys, IInv, TypeOK
  <1>4. QED
    BY <1>2, <1>3

\* Connecting: whose the identity is, and the row.
LEMMA LinkIInv ==
  ASSUME IInv, NEW r \in Requests, LinkInsert(r) \/ \E i \in Identities : LinkFind(r, i)
  PROVE  IInv'
  <1> USE OAuthAssumption
  <1>1. ASSUME NEW i \in Identities, LinkFind(r, i) PROVE IInv'
    <2>1. /\ req[r].at \in {"exchange", "link_find"} /\ req[r] \in Local /\ HasLocals(req[r])
          /\ req[r].user \in Users
      BY <1>1, BusyKnows DEF LinkFind, At, HasLocals
    <2>2. CASE Finish(r)
      BY <1>1, <2>1, <2>2, FinishIsHarmless, HarmlessIInv DEF LinkFind, keys, IInv, TypeOK
    <2>3. CASE req' = [req EXCEPT ![r].at = "link_insert", ![r].identity = i]
      <3>1. /\ req' \in [Requests -> Local \cup {Idle}]
            /\ \A q \in Requests \ {r} : req'[q] = req[q]
            /\ req'[r].at = "link_insert" /\ req'[r].key = req[r].key /\ req'[r].identity = i
            /\ req'[r].user = req[r].user /\ req'[r].asked = req[r].asked
            /\ req'[r].entered = req[r].entered
        BY ZenonT(40), <2>1, <2>3 DEF IInv, TypeOK, Local, Awaits
      <3>2. HasLocals(req'[r]) /\ UnlinkKnows(r)' /\ Harmless(r)
        BY <2>1, <3>1 DEF HasLocals, UnlinkKnows, Harmless, AtTicket, Verified, Unlinking
      <3>3. QED
        BY <1>1, <3>1, <3>2, HarmlessIInv DEF LinkFind, keys, IInv, TypeOK
    <2>4. QED
      BY <1>1, <2>2, <2>3 DEF LinkFind
  <1>2. CASE LinkInsert(r)
    <2>1. /\ req[r].at = "link_insert" /\ req[r].identity \in Identities /\ req[r].user \in Users
          /\ Finish(r) /\ UNCHANGED <<account, lock, keys, disturbed>>
      BY <1>2, BusyKnows DEF LinkInsert, At, HasLocals, Verified
    <2>2. TypeOK'
      BY <1>2, <2>1, FinishIsHarmless DEF LinkInsert, keys, IInv, TypeOK
    <2>3. Keep({r})
      BY <1>2, <2>1, FinishIsHarmless DEF LinkInsert, Keep, IInv, TypeOK
    <2>4. QED
      BY <2>1, <2>2, <2>3, FinishIsHarmless, RowIInv DEF keys
  <1>3. QED
    BY <1>1, <1>2

\* A new account, with its identity.
LEMMA CreateIInv ==
  ASSUME IInv, NEW r \in Requests, NEW u \in Users, Create(r, u)
  PROVE  IInv'
  <1> USE OAuthAssumption
  <1>1. /\ req[r].at = "email_find" /\ req[r].identity \in Identities /\ req[r].email \in Emails
        /\ Finish(r) /\ UNCHANGED <<lock, keys, disturbed>>
    BY BusyKnows DEF Create, At, HasLocals, Verified
  <1>2. TypeOK'
    BY <1>1, FinishIsHarmless DEF Create, Row, keys, IInv, TypeOK
  <1>3. Keep({r})
    BY ZenonT(40), <1>1, FinishIsHarmless DEF Create, Keep, IInv, TypeOK
  <1>4. QED
    BY <1>1, <1>2, <1>3, FinishIsHarmless, RowIInv DEF keys

\* More than one identity of a user leaves another one beside any of them.
LEMMA AnotherIdentity ==
  ASSUME NEW S, NEW i \in S, Cardinality(S) > 1
  PROVE  \E j \in S : j # i
  <1> SUFFICES ASSUME \A j \in S : j = i PROVE FALSE
    OBVIOUS
  <1>1. S = {i}
    OBVIOUS
  <1>2. Cardinality(S) = 1
    BY <1>1, FS_Singleton
  <1>3. QED
    BY <1>2

\* Disconnecting, under the lock of the user's row.
LEMMA UnlinkIInv ==
  ASSUME IInv, NEW r \in Requests,
         \/ \E u \in Users : Unlink(r, u)
         \/ \E i \in Identities : UnlinkFind(r, i)
         \/ UnlinkCount(r) \/ UnlinkRemove(r)
  PROVE  IInv'
  <1> USE OAuthAssumption
  <1>1. ASSUME NEW u \in Users, Unlink(r, u) PROVE IInv'
    <2>1. account[u] \in Row /\ account[u].password \in BOOLEAN /\ account[u] # None
      BY <1>1 DEF Unlink, Open, IInv, TypeOK, Row
    <2>2. /\ req' \in [Requests -> Local \cup {Idle}] /\ \A q \in Requests \ {r} : req'[q] = req[q]
          /\ req[r].at = "idle" /\ req'[r].at = "unlink_find" /\ req'[r].key = None
          /\ req'[r].user = u /\ req'[r].password = account[u].password
      BY ZenonT(40), <1>1, <2>1 DEF Unlink, Begin, IInv, TypeOK, Local, Awaits, Fresh
    <2>3. /\ lock' = [lock EXCEPT ![u] = r] /\ lock[u] = None /\ lock'[u] = r
          /\ UNCHANGED <<account, linked, keys, disturbed>>
      BY <1>1 DEF Unlink, IInv, TypeOK
    <2>4. TypeOK'
      BY <2>2, <2>3 DEF keys, IInv, TypeOK
    <2>5. Keep({r})
      BY <2>2, <2>3 DEF Keep, IInv, TypeOK
    <2>6. HasLocals(req'[r]) /\ UnlinkKnows(r)' /\ Harmless(r)
      BY <2>1, <2>2, <2>3 DEF HasLocals, UnlinkKnows, Harmless, AtTicket, Verified, Unlinking
    <2>7. QED
      BY <2>3, <2>4, <2>5, <2>6, RowIInv DEF keys
  <1>2. ASSUME NEW i \in Identities, UnlinkFind(r, i) PROVE IInv'
    <2>1. /\ req[r].at = "unlink_find" /\ req[r] \in Local /\ HasLocals(req[r]) /\ UnlinkKnows(r)
          /\ linked[i] = req[r].user /\ UNCHANGED <<account, linked, lock, keys, disturbed>>
      BY <1>2, BusyKnows DEF UnlinkFind, At
    <2>2. req' = [req EXCEPT ![r].at = "unlink_count", ![r].identity = i]
      BY <1>2 DEF UnlinkFind
    <2>3. /\ req' \in [Requests -> Local \cup {Idle}] /\ \A q \in Requests \ {r} : req'[q] = req[q]
          /\ req'[r].at = "unlink_count" /\ req'[r].key = req[r].key /\ req'[r].identity = i
          /\ req'[r].user = req[r].user /\ req'[r].password = req[r].password
      BY ZenonT(40), <2>1, <2>2 DEF IInv, TypeOK, Local, Awaits
    <2>4. HasLocals(req'[r]) /\ UnlinkKnows(r)' /\ Harmless(r)
      BY <2>1, <2>3 DEF HasLocals, UnlinkKnows, Harmless, AtTicket, Verified, Unlinking
    <2>5. QED
      BY <2>1, <2>3, <2>4, HarmlessIInv DEF keys, IInv, TypeOK
  <1>3. CASE UnlinkCount(r)
    <2>1. /\ req[r].at = "unlink_count" /\ req[r] \in Local /\ HasLocals(req[r]) /\ UnlinkKnows(r)
          /\ req[r].identity \in Identities /\ UNCHANGED <<account, linked, lock, keys, disturbed>>
      BY <1>3, BusyKnows DEF UnlinkCount, At, HasLocals
    <2>2. req' = [req EXCEPT ![r].at = "unlink_remove", ![r].password = FALSE]
      BY <1>3 DEF UnlinkCount
    <2>3. /\ req' \in [Requests -> Local \cup {Idle}] /\ \A q \in Requests \ {r} : req'[q] = req[q]
          /\ req'[r].at = "unlink_remove" /\ req'[r].key = req[r].key
          /\ req'[r].identity = req[r].identity /\ req'[r].user = req[r].user
      BY ZenonT(40), <2>1, <2>2 DEF IInv, TypeOK, Local, Awaits
    <2>4. \/ account[req[r].user].password
          \/ \E j \in Identities \ {req[r].identity} : linked[j] = req[r].user
      <3>1. CASE req[r].password
        BY <2>1, <3>1 DEF UnlinkKnows, Unlinking
      <3>2. CASE Cardinality({j \in Identities : linked[j] = req[r].user}) > 1
        <4>1. req[r].identity \in {j \in Identities : linked[j] = req[r].user}
          BY <2>1 DEF UnlinkKnows, Unlinking
        <4>2. PICK j \in {j \in Identities : linked[j] = req[r].user} : j # req[r].identity
          BY <3>2, <4>1, AnotherIdentity
        <4>3. QED
          BY <4>2
      <3>3. QED
        BY <1>3, <3>1, <3>2 DEF UnlinkCount
    <2>5. HasLocals(req'[r]) /\ UnlinkKnows(r)' /\ Harmless(r)
      BY <2>1, <2>3, <2>4 DEF HasLocals, UnlinkKnows, Harmless, AtTicket, Verified, Unlinking
    <2>6. QED
      BY <2>1, <2>3, <2>5, HarmlessIInv DEF keys, IInv, TypeOK
  <1>4. CASE UnlinkRemove(r)
    <2>1. /\ req[r].at = "unlink_remove" /\ UnlinkKnows(r) /\ Return(r)
          /\ req[r].identity \in Identities /\ req[r].user \in Users
          /\ UNCHANGED <<account, keys, disturbed>>
      BY <1>4, BusyKnows DEF UnlinkRemove, At, HasLocals, Unlinking
    <2>2. /\ linked[req[r].identity] = req[r].user /\ lock[req[r].user] = r
          /\ linked' = [linked EXCEPT ![req[r].identity] = None]
          /\ lock' = [lock EXCEPT ![req[r].user] = None]
      BY <1>4, <2>1 DEF UnlinkRemove, UnlinkKnows, Unlinking
    <2>3. TypeOK'
      BY <2>1, <2>2, ReturnIsHarmless DEF keys, IInv, TypeOK
    <2>4. Keep({r})
      BY <2>1, <2>2, ReturnIsHarmless DEF Keep, IInv, TypeOK
    <2>5. QED
      BY <2>1, <2>3, <2>4, ReturnIsHarmless, RowIInv DEF keys
  <1>5. QED
    BY <1>1, <1>2, <1>3, <1>4

\* Forgetting a code or a ticket that has been used.
LEMMA ForgetIInv ==
  ASSUME IInv, NEW r \in Requests, OtpDel(r) \/ TicketDel(r)
  PROVE  IInv'
  <1>1. CASE OtpDel(r)
    <2> DEFINE next == IF req[r].user # None THEN "link_find" ELSE "email_find"
    <2>1. /\ req[r].at = "otp_del" /\ req[r] \in Local /\ HasLocals(req[r]) /\ req[r].key \in Tickets
          /\ req[r].user \in Users \cup {None} /\ UNCHANGED <<account, linked, lock, state, ticket, disturbed>>
      BY <1>1, BusyKnows DEF OtpDel, At, HasLocals, AtTicket
    <2>2. req' = [req EXCEPT ![r].at = next] /\ next \in Awaits /\ next \in {"link_find", "email_find"}
      BY <1>1 DEF OtpDel, Goto, Awaits
    <2>3. req[r].user = None => next = "email_find"
      OBVIOUS
    <2> HIDE DEF next
    <2>4. /\ req' \in [Requests -> Local \cup {Idle}] /\ \A q \in Requests \ {r} : req'[q] = req[q]
          /\ req'[r].at = next /\ req'[r].key = req[r].key /\ req'[r].identity = req[r].identity
          /\ req'[r].user = req[r].user /\ req'[r].entered = req[r].entered
      BY <2>1, <2>2 DEF IInv, TypeOK, Local
    <2>5. HasLocals(req'[r]) /\ UnlinkKnows(r)' /\ Harmless(r)
      BY <2>1, <2>2, <2>3, <2>4 DEF HasLocals, UnlinkKnows, Harmless, AtTicket, Verified, Unlinking
    <2>6. otp' \in [Tickets -> Emails \cup {None}] /\ \A t \in Tickets : otp'[t] \in {otp[t], None}
      BY <1>1, <2>1 DEF OtpDel, IInv, TypeOK
    <2>7. QED
      BY <2>1, <2>4, <2>5, <2>6, HarmlessIInv DEF IInv, TypeOK
  <1>2. CASE TicketDel(r)
    <2>1. /\ req[r].at = "ticket_del" /\ req[r].key \in Tickets /\ Return(r)
          /\ UNCHANGED <<account, linked, lock, state, otp, disturbed>>
      BY <1>2, BusyKnows DEF TicketDel, At, HasLocals, AtTicket
    <2>2. ticket' \in [Tickets -> Pending \cup {None}] /\ \A t \in Tickets : ticket'[t] \in {ticket[t], None}
      BY <1>2, <2>1 DEF TicketDel, IInv, TypeOK
    <2>3. QED
      BY <2>1, <2>2, ReturnIsHarmless, HarmlessIInv DEF IInv, TypeOK
  <1>3. QED
    BY <1>1, <1>2

\* A request that fails gives its lock back, and is on record if its code is missing.
LEMMA FailIInv ==
  ASSUME IInv, NEW r \in Requests, Fail(r)
  PROVE  IInv'
  <1> USE OAuthAssumption
  <1>1. req[r].at = "otp_set" => req[r].key \in Tickets /\ req[r].key \in disturbed'
    BY BusyKnows DEF Fail, At, HasLocals, AtTicket
  <1>2. /\ Return(r) /\ UNCHANGED <<account, linked, state, ticket, otp>>
        /\ disturbed \subseteq disturbed' /\ disturbed' \in SUBSET Tickets
        /\ lock' = [u \in Users |-> IF lock[u] = r THEN None ELSE lock[u]]
    BY <1>1 DEF Fail, At, keys, IInv, TypeOK
  <1>3. TypeOK'
    BY <1>1, <1>2, ReturnIsHarmless DEF IInv, TypeOK
  <1>4. Keep({r})
    BY <1>1, <1>2, ReturnIsHarmless DEF Keep, IInv, TypeOK
  <1>5. QED
    BY <1>1, <1>2, <1>3, <1>4, ReturnIsHarmless, RowIInv

\* What nobody's request does: attempts that begin, users that change elsewhere, keys that
\* expire.
LEMMA ElsewhereIInv ==
  ASSUME IInv, BeginRoutes \/ Expire \/ \E u \in Users : WrittenElsewhere(u)
  PROVE  IInv'
  <1> USE OAuthAssumption, NoneIsNoRecord
  <1>1. ASSUME TypeOK', Keep({}), disturbed' = disturbed,
               \A t \in Tickets : ticket'[t] \in {ticket[t], None} /\ otp'[t] \in {otp[t], None}
        PROVE  IInv'
    <2>1. {} \in SUBSET Requests
      OBVIOUS
    <2>2. QED
      BY <1>1, <2>1, RowIInv
  <1>2. CASE BeginRoutes
    <2>1. PICK s \in States, u \in Users \cup {None} : BeginAttempt(s, u)
      BY <1>2 DEF BeginRoutes
    <2>2. TypeOK' /\ Keep({})
      BY <2>1 DEF BeginAttempt, Attempt, Keep, IInv, TypeOK
    <2>3. QED
      BY <1>1, <2>1, <2>2 DEF BeginAttempt
  <1>3. CASE Expire
    <2>1. UNCHANGED <<account, linked, lock, disturbed, req>>
      BY <1>3 DEF Expire
    <2>2. /\ state' \in [States -> Attempt \cup {None}] /\ ticket' \in [Tickets -> Pending \cup {None}]
          /\ otp' \in [Tickets -> Emails \cup {None}]
          /\ \A t \in Tickets : ticket'[t] \in {ticket[t], None} /\ otp'[t] \in {otp[t], None}
      BY <1>3 DEF Expire, IInv, TypeOK
    <2>3. TypeOK' /\ Keep({})
      BY <2>1, <2>2 DEF Keep, IInv, TypeOK
    <2>4. QED
      BY <1>1, <2>1, <2>2, <2>3
  <1>4. ASSUME NEW u \in Users, WrittenElsewhere(u) PROVE IInv'
    <2>1. UNCHANGED <<linked, lock, keys, disturbed, req>>
      BY <1>4 DEF WrittenElsewhere
    <2>2. account' \in [Users -> Row \cup {None}]
      <3>1. ASSUME NEW row \in Row, account' = [account EXCEPT ![u] = row]
            PROVE  account' \in [Users -> Row \cup {None}]
        BY <3>1 DEF IInv, TypeOK
      <3>2. ASSUME NEW e \in Emails, account' = [account EXCEPT ![u] = [email |-> e, password |-> FALSE]]
            PROVE  account' \in [Users -> Row \cup {None}]
        BY <3>1, <3>2 DEF Row
      <3>3. ASSUME account[u] # None PROVE account[u] \in Row
        BY <3>3 DEF IInv, TypeOK
      <3>4. ASSUME NEW e \in Emails, account[u] # None, account' = [account EXCEPT ![u].email = e]
            PROVE  account' \in [Users -> Row \cup {None}]
        <4>1. [account[u] EXCEPT !.email = e] \in Row
          BY <3>3, <3>4 DEF Row
        <4>2. QED
          BY <3>1, <3>4, <4>1
      <3>5. ASSUME account[u] # None, account' = [account EXCEPT ![u].password = ~@]
            PROVE  account' \in [Users -> Row \cup {None}]
        <4>1. [account[u] EXCEPT !.password = ~@] \in Row
          BY <3>3, <3>5 DEF Row
        <4>2. QED
          BY <3>1, <3>5, <4>1
      <3>6. QED
        BY <1>4, <3>2, <3>4, <3>5 DEF WrittenElsewhere
    <2>3. \A v \in Users : lock[v] # None /\ account[v] # None =>
            account'[v] # None /\ account'[v].password = account[v].password
      BY <1>4 DEF WrittenElsewhere, IInv, TypeOK
    <2>4. TypeOK' /\ Keep({})
      BY <2>1, <2>2, <2>3 DEF keys, Keep, IInv, TypeOK
    <2>5. QED
      BY <1>1, <2>1, <2>4 DEF keys
  <1>5. QED
    BY <1>2, <1>3, <1>4
----------------------------------------------------------------------------
(* The steps that write a ticket or its code *)

\* A step of r on ticket t leaves the other tickets and their requests alone.
LEMMA TicketIInv ==
  ASSUME IInv, NEW r \in Requests, NEW t \in Tickets, TypeOK',
         UNCHANGED <<account, linked, lock>>, \A q \in Requests \ {r} : req'[q] = req[q],
         \A s \in Tickets \ {t} : ticket'[s] = ticket[s] /\ otp'[s] = otp[s],
         disturbed \subseteq disturbed' \cup {t},
         req[r].at = "idle" \/ req[r].key \notin Tickets \ {t},
         req'[r].at = "idle" \/ req'[r].key = t,
         req'[r].at # "idle" => HasLocals(req'[r]) /\ UnlinkKnows(r)',
         t \notin disturbed' => TicketFits(t)'
  PROVE  IInv'
  <1>1. Keep({r}) /\ {r} \in SUBSET Requests
    BY DEF Keep
  <1>2. LocalsStayTrue'
    BY <1>1, RequestsStayTrue
  <1>3. ASSUME NEW s \in Tickets \ {t}, s \notin disturbed' PROVE TicketFits(s)'
    <2>1. TicketFits(s)
      BY <1>3 DEF IInv, CodesFit
    <2>2. r \notin On(s) /\ r \notin On(s)'
      BY <1>3 DEF On
    <2>3. \A q \in Requests : (q \in On(s)' <=> q \in On(s)) /\ (q \in On(s) => req'[q] = req[q])
      BY <2>2 DEF On
    <2>4. On(s)' = On(s) /\ Changing(s)' = Changing(s) /\ AddressWritten(s)' = AddressWritten(s)
      BY <2>3 DEF On, Changing, AddressWritten
    <2>5. On(s) \subseteq Requests /\ AddressWritten(s) \subseteq On(s)
      BY DEF On, AddressWritten
    <2>6. /\ ticket'[s] = ticket[s] /\ otp'[s] = otp[s]
          /\ \A q \in On(s) : req'[q] = req[q]
      BY <2>3, <2>5
    <2>7. /\ \A q \in Changing(s)' : On(s)' = {q}
          /\ \A q \in AddressWritten(s)' : ticket'[s] # None => ticket'[s].email = req'[q].email
      <3>1. \A q \in Changing(s) : On(s) = {q}
        BY <2>1 DEF TicketFits
      <3>2. \A q \in AddressWritten(s) : ticket[s] # None => ticket[s].email = req[q].email
        BY <2>1 DEF TicketFits
      <3>3. \A q \in AddressWritten(s) : req'[q] = req[q]
        BY <2>5, <2>6
      <3>4. \A q \in Changing(s)' : On(s)' = {q}
        BY <2>4, <3>1
      <3>5. \A q \in AddressWritten(s)' : ticket'[s] # None => ticket'[s].email = req'[q].email
        BY <2>4, <2>6, <3>2, <3>3
      <3>6. QED
        BY <3>4, <3>5
    <2>8. AddressWritten(s)' = {} /\ otp'[s] # None =>
            /\ ticket'[s] # None => otp'[s] = ticket'[s].email
            /\ \A q \in On(s)' : req'[q].at = "otp_get" => otp'[s] = req'[q].email
      <3>1. AddressWritten(s) = {} /\ otp[s] # None =>
              /\ ticket[s] # None => otp[s] = ticket[s].email
              /\ \A q \in On(s) : req[q].at = "otp_get" => otp[s] = req[q].email
        BY <2>1 DEF TicketFits
      <3>2. QED
        BY <2>4, <2>6, <3>1
    <2>9. \A q \in On(s)' : req'[q].at \in Verified => req'[q].entered = "its code"
      <3>1. \A q \in On(s) : req[q].at \in Verified => req[q].entered = "its code"
        BY <2>1 DEF TicketFits
      <3>2. QED
        BY <2>4, <2>6, <3>1
    <2>10. QED
      BY <2>7, <2>8, <2>9 DEF TicketFits
  <1>4. CodesFit'
    BY <1>3 DEF CodesFit
  <1>5. QED
    BY <1>2, <1>4 DEF IInv

\* Asking for a code on a ticket nobody is at, or one that is disturbed from now on.
LEMMA RequestEmailIInv ==
  ASSUME IInv, NEW r \in Requests, NEW t \in Tickets, NEW e \in Emails, RequestEmail(r, t, e)
  PROVE  IInv'
  <1> USE OAuthAssumption
  <1>1. ticket[t] \in Pending /\ ticket[t].identity \in Identities
        /\ ticket[t].legacy \in Users \cup {None}
    BY DEF RequestEmail, IInv, TypeOK, Pending
  <1>2. req[r].at = "idle" /\ req' = [req EXCEPT ![r] =
          [Fresh EXCEPT !.at = "pending_set", !.key = t, !.identity = ticket[t].identity,
                        !.user = ticket[t].legacy, !.email = e]]
    BY DEF RequestEmail, Begin, OnTicket, Fresh
  <1>3. /\ req' \in [Requests -> Local \cup {Idle}] /\ \A q \in Requests \ {r} : req'[q] = req[q]
        /\ req'[r].at = "pending_set" /\ req'[r].key = t /\ req'[r].email = e
        /\ req'[r].identity \in Identities
    BY <1>1, <1>2 DEF IInv, TypeOK, Local, Awaits, Fresh
  <1>4. HasLocals(req'[r]) /\ UnlinkKnows(r)'
    BY <1>3 DEF HasLocals, UnlinkKnows, AtTicket, Verified, Unlinking
  <1>5. /\ UNCHANGED <<account, linked, lock, keys>>
        /\ disturbed' = disturbed \cup (IF On(t) # {} THEN {t} ELSE {})
    BY DEF RequestEmail
  <1>6. TypeOK'
    BY <1>3, <1>5 DEF keys, IInv, TypeOK
  <1>7. ASSUME t \notin disturbed' PROVE TicketFits(t)'
    <2>1. On(t) = {} /\ TicketFits(t)
      BY <1>5, <1>7 DEF IInv, CodesFit
    <2>2. \A q \in Requests : q \in On(t)' => q = r
      BY <1>3, <2>1 DEF On
    <2>3. On(t)' \subseteq Requests /\ Changing(t)' \subseteq On(t)' /\ AddressWritten(t)' \subseteq On(t)'
      BY DEF On, Changing, AddressWritten
    <2>4. AddressWritten(t)' = {} /\ AddressWritten(t) = {}
      BY <1>3, <2>1, <2>2, <2>3 DEF AddressWritten
    <2>5. \A q \in Changing(t)' : On(t)' = {q}
      BY <2>2, <2>3
    <2>6. QED
      BY <1>3, <1>5, <2>1, <2>2, <2>3, <2>4, <2>5 DEF TicketFits, keys, Verified
  <1>8. QED
    BY <1>2, <1>3, <1>4, <1>5, <1>6, <1>7, TicketIInv DEF keys

\* Entering a code while no request is changing the address.
LEMMA VerifyEmailIInv ==
  ASSUME IInv, NEW r \in Requests, NEW t \in Tickets, VerifyEmail(r, t)
  PROVE  IInv'
  <1> USE OAuthAssumption
  <1>1. ticket[t] \in Pending /\ ticket[t].identity \in Identities /\ ticket[t].email \in Emails
        /\ ticket[t].legacy \in Users \cup {None}
    BY DEF VerifyEmail, IInv, TypeOK, Pending
  <1>2. req[r].at = "idle" /\ req' = [req EXCEPT ![r] =
          [Fresh EXCEPT !.at = "otp_get", !.key = t, !.identity = ticket[t].identity,
                        !.user = ticket[t].legacy, !.email = ticket[t].email]]
    BY DEF VerifyEmail, Begin, OnTicket
  <1>3. /\ req' \in [Requests -> Local \cup {Idle}] /\ \A q \in Requests \ {r} : req'[q] = req[q]
        /\ req'[r].at = "otp_get" /\ req'[r].key = t /\ req'[r].email = ticket[t].email
        /\ req'[r].identity \in Identities
    BY <1>1, <1>2 DEF IInv, TypeOK, Local, Awaits, Fresh
  <1>4. HasLocals(req'[r]) /\ UnlinkKnows(r)'
    BY <1>1, <1>3 DEF HasLocals, UnlinkKnows, AtTicket, Verified, Unlinking
  <1>5. /\ UNCHANGED <<account, linked, lock, keys>>
        /\ disturbed' = disturbed \cup (IF Changing(t) # {} THEN {t} ELSE {})
    BY DEF VerifyEmail
  <1>6. TypeOK'
    BY <1>3, <1>5 DEF keys, IInv, TypeOK
  <1>7. ASSUME t \notin disturbed' PROVE TicketFits(t)'
    <2>1. Changing(t) = {} /\ TicketFits(t)
      BY <1>5, <1>7 DEF IInv, CodesFit
    <2>2. \A q \in On(t)' : q = r \/ (q \in On(t) /\ req'[q] = req[q])
      BY <1>3 DEF On
    <2>3. Changing(t)' = {} /\ AddressWritten(t)' = {} /\ AddressWritten(t) = {}
      BY <1>3, <2>1, <2>2 DEF Changing, AddressWritten, On
    <2>4. ticket'[t] = ticket[t] /\ otp'[t] = otp[t]
      BY <1>5 DEF keys
    <2>5. ASSUME otp'[t] # None
          PROVE  /\ otp'[t] = ticket'[t].email
                 /\ \A q \in On(t)' : req'[q].at = "otp_get" => otp'[t] = req'[q].email
      <3>1. otp[t] = ticket[t].email /\ \A q \in On(t) : req[q].at = "otp_get" => otp[t] = req[q].email
        BY <1>1, <2>1, <2>3, <2>4, <2>5, OAuthAssumption DEF TicketFits, VerifyEmail
      <3>2. QED
        BY <1>3, <2>2, <2>4, <3>1
    <2>6. \A q \in On(t)' : req'[q].at \in Verified => req'[q].entered = "its code"
      <3>1. \A q \in On(t) : req[q].at \in Verified => req[q].entered = "its code"
        BY <2>1 DEF TicketFits
      <3>2. QED
        BY <1>3, <2>2, <3>1 DEF Verified
    <2>7. QED
      BY <2>3, <2>5, <2>6 DEF TicketFits
  <1>8. QED
    BY <1>2, <1>3, <1>4, <1>5, <1>6, <1>7, TicketIInv DEF keys

\* The address is written by the one request on the ticket.
LEMMA PendingSetIInv ==
  ASSUME IInv, NEW r \in Requests, PendingSet(r)
  PROVE  IInv'
  <1> USE OAuthAssumption
  <1>0. PICK t \in Tickets : t = req[r].key
    BY BusyKnows DEF PendingSet, OtpSet, At, HasLocals, AtTicket
  <1>1. /\ req[r].at = "pending_set" /\ t \in Tickets /\ req[r].identity \in Identities
        /\ req[r].email \in Emails /\ req[r].user \in Users \cup {None}
    BY <1>0, BusyKnows DEF PendingSet, At, HasLocals, AtTicket
  <1>2. /\ ticket' = [ticket EXCEPT ![t] =
             [identity |-> req[r].identity, email |-> req[r].email, legacy |-> req[r].user]]
        /\ req' = [req EXCEPT ![r] = [Fresh EXCEPT !.at = "otp_set", !.key = t, !.email = req[r].email]]
        /\ UNCHANGED <<account, linked, lock, state, otp, disturbed>>
    BY <1>0 DEF PendingSet
  <1>3. /\ req' \in [Requests -> Local \cup {Idle}] /\ \A q \in Requests \ {r} : req'[q] = req[q]
        /\ req'[r].at = "otp_set" /\ req'[r].key = t /\ req'[r].email = req[r].email
    BY ZenonT(40), <1>1, <1>2 DEF IInv, TypeOK, Local, Awaits, Fresh
  <1>4. HasLocals(req'[r]) /\ UnlinkKnows(r)'
    BY <1>1, <1>3 DEF HasLocals, UnlinkKnows, AtTicket, Verified, Unlinking
  <1>5. /\ ticket' \in [Tickets -> Pending \cup {None}] /\ ticket'[t].email = req[r].email
        /\ \A s \in Tickets \ {t} : ticket'[s] = ticket[s]
    BY <1>1, <1>2 DEF IInv, TypeOK, Pending
  <1>6. TypeOK'
    BY <1>2, <1>3, <1>5 DEF IInv, TypeOK
  <1>7. ASSUME t \notin disturbed' PROVE TicketFits(t)'
    <2>1. r \in Changing(t) /\ TicketFits(t)
      BY <1>0, <1>1, <1>2, <1>7 DEF IInv, CodesFit, Changing, On
    <2>2. On(t) = {r}
      BY <2>1 DEF TicketFits
    <2>3. \A q \in Requests : q \in On(t)' <=> q = r
      BY <1>1, <1>3, <2>2 DEF On
    <2>4. On(t)' = {r} /\ Changing(t)' \subseteq {r} /\ AddressWritten(t)' = {r}
      BY <1>3, <2>3 DEF On, Changing, AddressWritten
    <2>5. QED
      BY <1>3, <1>5, <2>4 DEF TicketFits, Verified
  <1>8. QED
    BY <1>0, <1>1, <1>2, <1>3, <1>4, <1>5, <1>6, <1>7, TicketIInv

\* The code takes the place of the one before.
LEMMA OtpSetIInv ==
  ASSUME IInv, NEW r \in Requests, OtpSet(r)
  PROVE  IInv'
  <1> USE OAuthAssumption
  <1>0. PICK t \in Tickets : t = req[r].key
    BY BusyKnows DEF PendingSet, OtpSet, At, HasLocals, AtTicket
  <1>1. req[r].at = "otp_set" /\ t \in Tickets /\ req[r].email \in Emails
    BY <1>0, BusyKnows DEF OtpSet, At, HasLocals, AtTicket
  <1>2. /\ otp' = [otp EXCEPT ![t] = req[r].email] /\ Return(r)
        /\ UNCHANGED <<account, linked, lock, state, ticket, disturbed>>
    BY <1>0 DEF OtpSet
  <1>3. /\ req' \in [Requests -> Local \cup {Idle}] /\ \A q \in Requests \ {r} : req'[q] = req[q]
        /\ req'[r].at = "idle"
    BY <1>2 DEF Return, IInv, TypeOK, Idle
  <1>4. /\ otp' \in [Tickets -> Emails \cup {None}] /\ otp'[t] = req[r].email
        /\ \A s \in Tickets \ {t} : otp'[s] = otp[s]
    BY <1>1, <1>2 DEF IInv, TypeOK
  <1>5. TypeOK'
    BY <1>2, <1>3, <1>4 DEF IInv, TypeOK
  <1>6. ASSUME t \notin disturbed' PROVE TicketFits(t)'
    <2>1. r \in Changing(t) /\ r \in AddressWritten(t) /\ TicketFits(t)
      BY <1>0, <1>1, <1>2, <1>6 DEF IInv, CodesFit, Changing, AddressWritten, On
    <2>2. On(t) = {r} /\ (ticket[t] # None => ticket[t].email = req[r].email)
      BY <2>1 DEF TicketFits
    <2>3. On(t)' = {}
      BY <1>3, <2>2 DEF On
    <2>4. QED
      BY <1>2, <1>4, <2>2, <2>3 DEF TicketFits, Changing, AddressWritten
  <1>7. QED
    BY <1>0, <1>1, <1>2, <1>3, <1>4, <1>5, <1>6, TicketIInv

\* The code that is read is that of the address, when nobody is changing it.
LEMMA OtpGetIInv ==
  ASSUME IInv, NEW r \in Requests, OtpGet(r)
  PROVE  IInv'
  <1> USE OAuthAssumption
  <1>0. PICK t \in Tickets : t = req[r].key
    BY BusyKnows DEF OtpGet, At, HasLocals, AtTicket
  <1> DEFINE word == IF otp[t] = req[r].email THEN "its code" ELSE "another code"
  <1>1. /\ req[r].at = "otp_get" /\ t \in Tickets /\ req[r] \in Local /\ HasLocals(req[r])
        /\ otp[t] # None
    BY <1>0, BusyKnows DEF OtpGet, At, HasLocals, AtTicket
  <1>2. /\ req' = [req EXCEPT ![r].at = "otp_del", ![r].entered = word]
        /\ UNCHANGED <<account, linked, lock, keys, disturbed>>
    BY <1>0 DEF OtpGet
  <1>3. word \in {"its code", "another code"} /\ (otp[t] = req[r].email => word = "its code")
    OBVIOUS
  <1>4. req[r].key = t
    BY <1>0
  <1> HIDE DEF word
  <1>5. /\ req' \in [Requests -> Local \cup {Idle}] /\ \A q \in Requests \ {r} : req'[q] = req[q]
        /\ req'[r].at = "otp_del" /\ req'[r].key = t /\ req'[r].identity = req[r].identity
        /\ req'[r].entered = word
    BY ZenonT(40), <1>1, <1>2, <1>3, <1>4 DEF IInv, TypeOK, Local, Awaits
  <1>6. HasLocals(req'[r]) /\ UnlinkKnows(r)'
    BY <1>1, <1>3, <1>5 DEF HasLocals, UnlinkKnows, AtTicket, Verified, Unlinking
  <1>7. TypeOK'
    BY <1>2, <1>5 DEF keys, IInv, TypeOK
  <1>8. ASSUME t \notin disturbed' PROVE TicketFits(t)'
    <2>1. r \in On(t) /\ TicketFits(t)
      BY <1>1, <1>2, <1>4, <1>8 DEF IInv, CodesFit, On
    <2>2. Changing(t) = {}
      BY <1>1, <2>1 DEF TicketFits, Changing
    <2>3. otp[t] = req[r].email
      BY <1>1, <2>1, <2>2 DEF TicketFits, AddressWritten, Changing
    <2>4. \A q \in On(t)' : q \in On(t) /\ (q # r => req'[q] = req[q])
      BY <2>1, <1>5 DEF On
    <2>5. Changing(t)' = {} /\ AddressWritten(t)' = {} /\ AddressWritten(t) = {}
      BY <1>5, <2>2, <2>4 DEF Changing, AddressWritten
    <2>6. ticket'[t] = ticket[t] /\ otp'[t] = otp[t]
      BY <1>2 DEF keys
    <2>7. ASSUME otp'[t] # None
          PROVE  /\ ticket'[t] # None => otp'[t] = ticket'[t].email
                 /\ \A q \in On(t)' : req'[q].at = "otp_get" => otp'[t] = req'[q].email
      <3>1. /\ ticket[t] # None => otp[t] = ticket[t].email
            /\ \A q \in On(t) : req[q].at = "otp_get" => otp[t] = req[q].email
        BY <1>1, <2>1, <2>5 DEF TicketFits
      <3>2. QED
        BY <1>5, <2>4, <2>6, <3>1
    <2>8. \A q \in On(t)' : req'[q].at \in Verified => req'[q].entered = "its code"
      <3>1. \A q \in On(t) : req[q].at \in Verified => req[q].entered = "its code"
        BY <2>1 DEF TicketFits
      <3>2. QED
        BY <1>3, <1>5, <2>3, <2>4, <3>1
    <2>9. QED
      BY <2>5, <2>7, <2>8 DEF TicketFits
  <1>9. QED
    BY <1>1, <1>2, <1>4, <1>5, <1>6, <1>7, <1>8, TicketIInv DEF keys

\* A new ticket, with no code yet.
LEMMA CompleteLaterIInv ==
  ASSUME IInv, NEW r \in Requests, NEW t \in Tickets, CompleteLater(r, t)
  PROVE  IInv'
  <1> USE OAuthAssumption
  <1>1. /\ req[r].at = "email_find" /\ req[r].key \notin Tickets /\ req[r].identity \in Identities
        /\ req[r].email \in Emails \cup {None}
    BY BusyKnows DEF CompleteLater, At, Completing, HasLocals, Verified
  <1>2. PICK u \in Holder(req[r].email) \cup {None} :
          ticket' = [ticket EXCEPT ![t] =
            [identity |-> req[r].identity, email |-> req[r].email, legacy |-> u]]
    BY DEF CompleteLater
  <1>3. /\ otp[t] = None /\ On(t) = {} /\ disturbed' = disturbed \ {t} /\ Return(r)
        /\ UNCHANGED <<account, linked, lock, state, otp>>
    BY DEF CompleteLater
  <1>4. u \in Users \cup {None}
    BY DEF Holder
  <1>5. ticket' \in [Tickets -> Pending \cup {None}] /\ \A s \in Tickets \ {t} : ticket'[s] = ticket[s]
    BY <1>1, <1>2, <1>4 DEF IInv, TypeOK, Pending
  <1>6. /\ req' \in [Requests -> Local \cup {Idle}] /\ \A q \in Requests \ {r} : req'[q] = req[q]
        /\ req'[r].at = "idle"
    BY <1>3 DEF Return, IInv, TypeOK, Idle
  <1>7. TypeOK'
    BY <1>3, <1>5, <1>6 DEF IInv, TypeOK
  <1>8. TicketFits(t)'
    <2>1. On(t)' = {}
      BY <1>3, <1>6 DEF On
    <2>2. QED
      BY <1>3, <2>1 DEF TicketFits, Changing, AddressWritten
  <1>9. QED
    BY <1>1, <1>3, <1>5, <1>6, <1>7, <1>8, TicketIInv

----------------------------------------------------------------------------
(* The invariant *)

\* Every step keeps it.
LEMMA NextIInv ==
  ASSUME IInv, [Next]_vars
  PROVE  IInv'
  <1>1. CASE UNCHANGED vars
    <2>1. TypeOK' /\ Keep({}) /\ {} \in SUBSET Requests /\ disturbed' = disturbed
          /\ ticket' = ticket /\ otp' = otp
      BY <1>1 DEF vars, keys, Keep, IInv, TypeOK
    <2>2. QED
      BY <2>1, RowIInv
  <1>2. CASE BeginRoutes \/ Expire \/ \E u \in Users : WrittenElsewhere(u)
    BY <1>2, ElsewhereIInv
  <1>3. ASSUME NEW r \in Requests, OAuthRoutes(r) PROVE IInv'
    BY <1>3, AttemptIInv, UnlinkIInv, VerifyEmailIInv, RequestEmailIInv DEF OAuthRoutes
  <1>4. ASSUME NEW r \in Requests, Continue(r) PROVE IInv'
    BY <1>4, AttemptIInv, LinkedFindIInv, CompleteLaterIInv, CreateIInv, LinkIInv, UnlinkIInv,
       PendingSetIInv, OtpSetIInv, OtpGetIInv, ForgetIInv, FailIInv DEF Continue
  <1>5. QED
    BY <1>1, <1>2, <1>3, <1>4 DEF Next

\* IInv holds in every reachable state.
LEMMA SpecIInv == Spec => []IInv
  BY InitIInv, NextIInv, PTL DEF Spec

\* Rows, keys and locals keep their types.
THEOREM OAuthTypeCorrect == Spec => []TypeOK
  <1>1. IInv => TypeOK
    BY DEF IInv
  <1>2. QED
    BY <1>1, SpecIInv, PTL

----------------------------------------------------------------------------
(* Who gets an identity *)

\* Three steps write identities.
LEMMA LinkedChanges ==
  ASSUME [Next]_vars, linked' # linked
  PROVE  \E r \in Requests :
           LinkInsert(r) \/ UnlinkRemove(r) \/ \E u \in Users : Create(r, u)
  <1>1. Next
    BY DEF vars
  <1>2. CASE BeginRoutes \/ Expire \/ \E u \in Users : WrittenElsewhere(u)
    BY <1>2 DEF BeginRoutes, BeginAttempt, Expire, WrittenElsewhere
  <1>3. ASSUME NEW r \in Requests, OAuthRoutes(r) PROVE FALSE
    BY <1>3 DEF OAuthRoutes, CallbackRoutes, Callback, Unlink, VerifyEmail, RequestEmail
  <1>4. ASSUME NEW r \in Requests, Continue(r)
        PROVE  LinkInsert(r) \/ UnlinkRemove(r) \/ \E u \in Users : Create(r, u)
    BY <1>4 DEF Continue, StateDel, LinkedFind, CompleteLater, LinkFind, UnlinkFind, UnlinkCount,
                PendingSet, OtpSet, OtpGet, OtpDel, TicketDel, Fail
  <1>5. QED
    BY <1>1, <1>2, <1>3, <1>4 DEF Next

\* An account that exists is connected by a request of its user or by a code, never by the
\* address a provider vouches for (linkAccount and the completion of a recovery).
THEOREM AddressesDoNotConnect == Spec => NeverByAddressAlone
  <1> DEFINE A == \A i \in Identities :
       linked[i] = None /\ linked'[i] # None /\ account[linked'[i]] # None =>
         \E r \in Requests :
           /\ At(r, "link_insert") /\ req[r].identity = i
           /\ IF Completing(r) THEN req[r].entered # "nothing" ELSE req[r].asked = linked'[i]
  <1>1. ASSUME IInv, [Next]_vars, NEW i \in Identities, linked[i] = None, linked'[i] # None,
               account[linked'[i]] # None
        PROVE  \E r \in Requests :
                 /\ At(r, "link_insert") /\ req[r].identity = i
                 /\ IF Completing(r) THEN req[r].entered # "nothing"
                                     ELSE req[r].asked = linked'[i]
    <2>1. PICK r \in Requests :
             LinkInsert(r) \/ UnlinkRemove(r) \/ \E u \in Users : Create(r, u)
      BY <1>1, LinkedChanges
    <2>2. ~UnlinkRemove(r)
      BY <1>1 DEF UnlinkRemove, IInv, TypeOK
    <2>3. ASSUME NEW u \in Users, Create(r, u) PROVE FALSE
      BY <1>1, <2>3 DEF Create, IInv, TypeOK
    <2>4. LinkInsert(r)
      BY <2>1, <2>2, <2>3
    <2>5. At(r, "link_insert") /\ req[r].identity = i /\ linked'[i] = req[r].user
      BY <1>1, <2>4 DEF LinkInsert, IInv, TypeOK
    <2>6. HasLocals(req[r])
      BY <1>1, <2>5, BusyKnows DEF At
    <2>7. QED
      BY <2>5, <2>6 DEF HasLocals, Verified, At, Completing
  <1>2. IInv /\ [Next]_vars => [A]_vars
    BY <1>1
  <1>3. QED
    BY <1>2, SpecIInv, PTL DEF Spec, NeverByAddressAlone

\* A completion whose ticket has not been disturbed connects the address its code was mailed
\* to (requestEmailVerification and verifyEmailAndCreateAccount).
THEOREM CodesAreForTheirAddress == Spec => CodesMatchAddresses
  <1> DEFINE A == \A i \in Identities, r \in Requests :
       /\ linked[i] # linked'[i] /\ linked'[i] # None
       /\ req[r].at \in {"email_find", "link_insert"} /\ req[r].identity = i /\ req'[r].at = "ticket_del"
       => req[r].entered = "its code" \/ req[r].key \in disturbed
  <1>1. ASSUME IInv, [Next]_vars, NEW i \in Identities, NEW r \in Requests,
               linked[i] # linked'[i], req[r].at \in {"email_find", "link_insert"},
               req'[r].at = "ticket_del", req[r].key \notin disturbed
        PROVE  req[r].entered = "its code"
    <2>1. PICK q \in Requests :
             LinkInsert(q) \/ UnlinkRemove(q) \/ \E u \in Users : Create(q, u)
      BY <1>1, LinkedChanges
    <2>2. ASSUME r # q PROVE FALSE
      BY <1>1, <2>1, <2>2 DEF LinkInsert, UnlinkRemove, Create, Finish, Return, IInv, TypeOK
    <2>3. Completing(r)
      BY <1>1, <2>1, <2>2 DEF LinkInsert, UnlinkRemove, Create, Finish, Return, IInv, TypeOK, Idle
    <2>4. TicketFits(req[r].key) /\ r \in On(req[r].key)
      BY <1>1, <2>3 DEF Completing, IInv, CodesFit, On
    <2>5. QED
      BY <1>1, <2>4 DEF TicketFits, Verified
  <1>2. IInv /\ [Next]_vars => [A]_vars
    BY <1>1
  <1>3. QED
    BY <1>2, SpecIInv, PTL DEF Spec, CodesMatchAddresses

----------------------------------------------------------------------------
(* The promise of IdentityLinks *)

\* A step of the handlers is one of connecting, disconnecting or passwords, or none of them.
LEMMA NextRefines ==
  ASSUME IInv, [Next]_vars
  PROVE  [Links!Next]_(Links!vars)
  <1> USE OAuthAssumption
  <1> DEFINE secret == {u \in Users : account[u] # None /\ account[u].password}
  <1>1. CASE linked' = linked
    <2>1. secret' \in SUBSET Users
      OBVIOUS
    <2>2. QED
      BY <1>1, <2>1 DEF Links!Next, Links!Passwords
  <1>2. ASSUME NEW r \in Requests, LinkInsert(r) PROVE Links!Next
    <2>1. /\ req[r].identity \in Identities /\ req[r].user \in Users
          /\ linked[req[r].identity] = None /\ account' = account
          /\ linked' = [linked EXCEPT ![req[r].identity] = req[r].user]
      BY <1>2, BusyKnows DEF LinkInsert, At, HasLocals, Verified
    <2>2. Links!Connect(req[r].identity, req[r].user)
      BY <2>1 DEF Links!Connect
    <2>3. QED
      BY <2>1, <2>2 DEF Links!Next
  <1>3. ASSUME NEW r \in Requests, NEW u \in Users, Create(r, u) PROVE Links!Next
    <2>1. /\ req[r].identity \in Identities /\ linked[req[r].identity] = None
          /\ linked' = [linked EXCEPT ![req[r].identity] = u]
          /\ account[u] = None /\ account' = [account EXCEPT ![u] = [email |-> req[r].email, password |-> FALSE]]
      BY <1>3, BusyKnows DEF Create, At, HasLocals, Verified
    <2>2. account'[u].password = FALSE /\ \A v \in Users \ {u} : account'[v] = account[v]
      BY <2>1 DEF IInv, TypeOK
    <2>3. \A v \in Users : v \in secret' <=> v \in secret
      BY <2>1, <2>2
    <2>4. secret' = secret
      BY <2>3
    <2>5. Links!Connect(req[r].identity, u)
      BY <2>1, <2>4 DEF Links!Connect
    <2>6. QED
      BY <2>1, <2>5 DEF Links!Next
  <1>4. ASSUME NEW r \in Requests, UnlinkRemove(r) PROVE Links!Next
    <2>1. /\ req[r].at = "unlink_remove" /\ req[r].identity \in Identities /\ req[r].user \in Users
          /\ UnlinkKnows(r) /\ account' = account
          /\ linked' = [linked EXCEPT ![req[r].identity] = None]
      BY <1>4, BusyKnows DEF UnlinkRemove, At, HasLocals, Unlinking
    <2>2. /\ linked[req[r].identity] = req[r].user /\ account[req[r].user] # None
          /\ \/ account[req[r].user].password
             \/ \E j \in Identities \ {req[r].identity} : linked[j] = req[r].user
      BY <2>1 DEF UnlinkKnows, Unlinking
    <2>3. Links!Disconnect(req[r].identity)
      BY <2>1, <2>2 DEF Links!Disconnect
    <2>4. QED
      BY <2>1, <2>3 DEF Links!Next
  <1>5. QED
    BY <1>1, <1>2, <1>3, <1>4, LinkedChanges

\* The handlers implement IdentityLinks: an identity has one holder at a time and keeps it
\* until a disconnection that leaves the holder a password or another identity.
THEOREM LinksImplemented == Spec => ImplementsLinks
  <1>1. Init => Links!Init
    BY DEF Init, Links!Init
  <1>2. QED
    BY <1>1, SpecIInv, NextRefines, PTL DEF Spec, ImplementsLinks, Links!Spec
=============================================================================
