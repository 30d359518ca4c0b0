---------------------- MODULE CompanyMembership_proofs ----------------------
(***************************************************************************)
(* For every number of users, companies, invitations and requests: a user  *)
(* has at most one active company, a company keeps its owner, and a grant  *)
(* follows a membership.  The proofs rest on what the rows and the local   *)
(* variables of the requests know of each other.                           *)
(***************************************************************************)
EXTENDS CompanyMembership, FiniteSetTheorems, TLAPS

\* Only founded companies have members, and a member has joined; the active rows are rows.
RowsAreMemberships ==
  \A u \in Users, k \in Companies :
    /\ HasRow(u, k) <=> role[u][k] # "NONE"
    /\ HasRow(u, k) => founder[k] # None /\ k \in joined[u]
    /\ k \in active[u] => HasRow(u, k)

\* What the partial unique index enforces.
ActiveIsUnique == \A u \in Users : \A k, l \in active[u] : k = l

\* Two open transactions of one user have locked different rows.
LocksAreExclusive ==
  \A r, q \in Requests :
    r # q /\ req[r].at = "activate" /\ req[q].at = "activate" /\ req[r].user = req[q].user
      => req[r].rows \cap req[q].rows = {}

\* What an open transaction has deactivated is active in the tables until it commits.
LockedRowsAreActive ==
  \A r \in Requests : req[r].at = "activate" => req[r].rows \subseteq active[req[r].user]

InvitationsAreOfCompanies ==
  \A i \in Invitations : invitation[i] # None => founder[invitation[i].company] # None

AtInvitation == {"accept_lookup", "accept_exist", "accept_insert", "accept_status",
                 "expire_save", "revoke_save"}
AtGrant == AtInvitation \cup {"add_insert", "update_save", "retitle_save", "invite_save"}

\* What the local variables q of a request still guarantee of the tables at each await.
Knows(q, f, jn, inv) ==
  /\ q.at \in AtGrant =>
       q.company \in Companies /\ f[q.company] # None /\ q.role \in GrantedRoles
  /\ q.at \in {"update_save", "retitle_save"} => q.id # 0 /\ f[q.company] # q.user
  /\ q.at = "user_role" => q.role \in GrantedRoles /\ jn[q.user] # {}
  /\ q.at \in AtInvitation =>
       /\ q.invitation \in Invitations /\ inv[q.invitation] # None
       /\ inv[q.invitation].company = q.company /\ inv[q.invitation].user = q.user
  /\ q.at = "accept_status" => q.company \in jn[q.user]

LocalsStayTrue == \A r \in Requests : Knows(req[r], founder, joined, invitation)

IInv ==
  /\ TypeOK
  /\ RowsAreMemberships
  /\ ActiveIsUnique
  /\ LocksAreExclusive
  /\ LockedRowsAreActive
  /\ InvitationsAreOfCompanies
  /\ LocalsStayTrue
  /\ OwnerStays
  /\ GrantsFollowMembership

----------------------------------------------------------------------------
(* Requests *)

\* Row ids are natural numbers, and there is one for the first request to use.
LEMMA RowIdsAreNaturals ==
  /\ RowIds \subseteq Nat /\ 0 \in RowIds
  /\ Requests # {} => 1 \in RowIds
  <1>1. Cardinality(Requests) \in Nat
    BY MembershipAssumption, FS_CardinalityType
  <1>2. Requests # {} => Cardinality(Requests) # 0
    BY MembershipAssumption, FS_EmptySet
  <1>3. QED
    BY <1>1, <1>2 DEF RowIds

\* A request in the middle of a handler has the local variables of one.
LEMMA BusyIsLocal ==
  ASSUME TypeOK, NEW r \in Requests, req[r].at # "idle"
  PROVE  /\ req[r] \in Local
         /\ req[r].user \in Users
         /\ req[r].company \in Companies \cup {None}
         /\ req[r].role \in MemberRoles
         /\ req[r].invitation \in Invitations \cup {None}
         /\ req[r].isActive \in BOOLEAN
         /\ req[r].id \in RowIds
         /\ req[r].rows \in SUBSET Companies
  <1>1. req[r] \in Local
    BY DEF TypeOK, Idle
  <1>2. QED
    BY <1>1 DEF Local

\* The tables a step leaves behind still know what they knew: companies keep their
\* founder, users stay on record as having joined, invitations keep their addressee.
Keep ==
  /\ \A k \in Companies : founder[k] # None => founder'[k] = founder[k]
  /\ \A u \in Users : joined[u] \subseteq joined'[u]
  /\ \A i \in Invitations : invitation[i] # None =>
       /\ invitation'[i] # None
       /\ invitation'[i].company = invitation[i].company
       /\ invitation'[i].user = invitation[i].user

\* What one request does to its local variables leaves the others' knowledge true.
LEMMA RequestsStayTrue ==
  ASSUME IInv, Keep, NEW r \in Requests, NEW e \in Local \cup {Idle},
         req' = [req EXCEPT ![r] = e],
         Knows(e, founder', joined', invitation')
  PROVE  req' \in [Requests -> Local \cup {Idle}] /\ LocalsStayTrue'
  <1>1. req' \in [Requests -> Local \cup {Idle}]
    BY DEF IInv, TypeOK
  <1>2. ASSUME NEW q \in Requests, q # r
        PROVE  Knows(req[q], founder', joined', invitation')
    <2>1. Knows(req[q], founder, joined, invitation)
      BY DEF IInv, LocalsStayTrue
    <2>2. CASE req[q].at = "idle"
      BY <2>2 DEF Knows, AtGrant, AtInvitation
    <2>3. CASE req[q].at # "idle"
      BY <2>1, <2>3, BusyIsLocal DEF IInv, Keep, Knows, AtGrant, AtInvitation
    <2>4. QED
      BY <2>2, <2>3
  <1>3. req'[r] = e /\ \A q \in Requests \ {r} : req'[q] = req[q]
    BY DEF IInv, TypeOK
  <1>4. QED
    BY <1>1, <1>2, <1>3 DEF LocalsStayTrue

\* A step of a request outside the critical section that touches no table.
LEMMA ReadIInv ==
  ASSUME IInv, NEW r \in Requests, NEW e \in Local \cup {Idle},
         e.at # "activate", UNCHANGED tables,
         req' = [req EXCEPT ![r] = e],
         Knows(e, founder, joined, invitation)
  PROVE  IInv'
  <1> USE DEF IInv, tables
  <1>1. Keep
    BY DEF Keep
  <1>2. req' \in [Requests -> Local \cup {Idle}] /\ LocalsStayTrue'
    BY <1>1, RequestsStayTrue
  <1>3. req'[r] = e /\ \A q \in Requests \ {r} : req'[q] = req[q]
    BY DEF TypeOK
  <1>4. TypeOK'
    BY <1>2 DEF TypeOK
  <1>5. LocksAreExclusive' /\ LockedRowsAreActive'
    BY <1>3 DEF LocksAreExclusive, LockedRowsAreActive
  <1>6. RowsAreMemberships' /\ ActiveIsUnique' /\ InvitationsAreOfCompanies'
    BY DEF RowsAreMemberships, ActiveIsUnique, InvitationsAreOfCompanies, HasRow
  <1>7. OwnerStays' /\ GrantsFollowMembership'
    BY DEF OwnerStays, GrantsFollowMembership
  <1>8. QED
    BY <1>2, <1>4, <1>5, <1>6, <1>7

\* The first step of a handler remembers what it has read.
LEMMA BeginIInv ==
  ASSUME IInv, NEW r \in Requests, NEW label \in Awaits \ {"activate"}, NEW u \in Users,
         NEW k \in Companies \cup {None}, NEW ro \in MemberRoles,
         NEW i \in Invitations \cup {None}, NEW isActive \in BOOLEAN, NEW id \in RowIds,
         Begin(r, label, u, k, ro, i, isActive, id),
         Knows([at |-> label, user |-> u, company |-> k, role |-> ro, invitation |-> i,
                isActive |-> isActive, id |-> id, rows |-> {}], founder, joined, invitation)
  PROVE  IInv'
  <1> DEFINE e == [at |-> label, user |-> u, company |-> k, role |-> ro, invitation |-> i,
                   isActive |-> isActive, id |-> id, rows |-> {}]
  <1>1. e \in Local /\ e.at # "activate"
    BY DEF Local
  <1>2. req' = [req EXCEPT ![r] = e] /\ UNCHANGED tables
    BY DEF Begin
  <1> HIDE DEF e
  <1>3. Knows(e, founder, joined, invitation)
    BY DEF e
  <1>4. QED
    BY <1>1, <1>2, <1>3, ReadIInv

\* Every handler starts from a row, a company or an invitation that is there.
LEMMA StartIInv ==
  ASSUME IInv, NEW r \in Requests, Start(r)
  PROVE  IInv'
  <1> USE MembershipAssumption, RowIdsAreNaturals DEF MemberRoles, Awaits, InTransaction
  <1>1. ASSUME NEW u \in Users, StartCreate(r, u) PROVE IInv'
    BY <1>1, BeginIInv DEF StartCreate, Knows, AtGrant, AtInvitation
  <1>2. ASSUME NEW u \in Users, NEW k \in Companies, StartSwitch(r, u, k) PROVE IInv'
    BY <1>2, BeginIInv DEF StartSwitch, Knows, AtGrant, AtInvitation
  <1>3. ASSUME NEW u \in Users, NEW k \in Companies, NEW ro \in GrantedRoles,
               AddLookup(r, u, k, ro)
        PROVE  IInv'
    BY <1>3, BeginIInv DEF AddLookup, Knows, AtGrant, AtInvitation
  <1>4. ASSUME NEW u \in Users, NEW k \in Companies, NEW ro \in GrantedRoles,
               InviteLookup(r, u, k, ro)
        PROVE  IInv'
    BY <1>4, BeginIInv DEF InviteLookup, Knows, AtGrant, AtInvitation
  <1>5. ASSUME NEW u \in Users, NEW k \in Companies, NEW ro \in GrantedRoles \cup {None},
               UpdateRead(r, u, k, ro)
        PROVE  IInv'
    <2>1. /\ role[u][k] \in GrantedRoles
          /\ rowId[u][k] \in RowIds /\ rowId[u][k] # 0
          /\ founder[k] # None /\ founder[k] # u
      BY <1>5 DEF UpdateRead, IInv, TypeOK, RowsAreMemberships, OwnerStays, HasRow
    <2>2. CASE ro = None
      <3>1. PICK isActive \in BOOLEAN :
              Begin(r, "retitle_save", u, k, role[u][k], None, isActive, rowId[u][k])
        <4>1. (k \in active[u]) \in BOOLEAN
          OBVIOUS
        <4>2. Begin(r, "retitle_save", u, k, role[u][k], None, k \in active[u], rowId[u][k])
          BY <1>5, <2>2 DEF UpdateRead
        <4>3. QED
          BY <4>1, <4>2, Zenon
      <3>2. QED
        BY <2>1, <3>1, BeginIInv DEF Knows, AtGrant, AtInvitation
    <2>3. CASE ro # None
      <3>1. PICK isActive \in BOOLEAN :
              Begin(r, "update_save", u, k, ro, None, isActive, rowId[u][k])
        <4>1. (k \in active[u]) \in BOOLEAN
          OBVIOUS
        <4>2. Begin(r, "update_save", u, k, ro, None, k \in active[u], rowId[u][k])
          BY <1>5, <2>3 DEF UpdateRead
        <4>3. QED
          BY <4>1, <4>2, Zenon
      <3>2. QED
        BY <2>1, <2>3, <3>1, BeginIInv DEF Knows, AtGrant, AtInvitation
    <2>4. QED
      BY <2>2, <2>3
  <1>6. ASSUME NEW i \in Invitations, AcceptRead(r, i) \/ RevokeRead(r, i) PROVE IInv'
    <2>1. /\ invitation[i] # None
          /\ invitation[i].user \in Users /\ invitation[i].company \in Companies
          /\ invitation[i].role \in GrantedRoles
          /\ founder[invitation[i].company] # None
      BY <1>6 DEF AcceptRead, RevokeRead, Pending, IInv, TypeOK, InvitationRow,
         InvitationsAreOfCompanies
    <2>2. PICK label \in {"expire_save", "accept_lookup", "revoke_save"} :
            OpenInvitation(r, i, label)
      BY <1>6 DEF AcceptRead, RevokeRead
    <2>3. QED
      BY <2>1, <2>2, BeginIInv DEF OpenInvitation, Knows, AtGrant, AtInvitation
  <1>7. QED
    BY <1>1, <1>2, <1>3, <1>4, <1>5, <1>6 DEF Start, CompanyRoutes, MemberRoutes

\* A request that fails, or goes on from one await of acceptInvitation to the next.
LEMMA GoOnIInv ==
  ASSUME IInv, NEW r \in Requests, Fail(r) \/ AcceptLookup(r) \/ AcceptExist(r)
  PROVE  IInv'
  <1>1. CASE Fail(r)
    BY <1>1, ReadIInv DEF Fail, Return, Idle, Knows, AtGrant, AtInvitation
  <1>2. CASE AcceptExist(r)
    <2> DEFINE e == [req[r] EXCEPT !.at = "accept_insert", !.isActive = ~IsMember(req[r].user)]
    <2>1. req' = [req EXCEPT ![r] = e] /\ UNCHANGED tables
      BY <1>2 DEF AcceptExist
    <2>2. req[r] \in Local /\ Knows(req[r], founder, joined, invitation)
      BY <1>2, BusyIsLocal DEF AcceptExist, At, IInv, LocalsStayTrue
    <2>3. e \in Local /\ e.at # "activate"
      BY <2>2 DEF Local, Awaits
    <2>4. Knows(e, founder, joined, invitation)
      BY <1>2, <2>2 DEF AcceptExist, At, Knows, AtGrant, AtInvitation, Local
    <2>5. QED
      BY <2>1, <2>3, <2>4, ReadIInv
  <1>3. CASE AcceptLookup(r)
    <2>1. PICK label \in {"accept_status", "accept_exist"} :
            /\ req' = [req EXCEPT ![r].at = label] /\ UNCHANGED tables
            /\ label = "accept_status" => HasRow(req[r].user, req[r].company)
      BY <1>3 DEF AcceptLookup, Goto
    <2> DEFINE e == [req[r] EXCEPT !.at = label]
    <2>2. req[r] \in Local /\ Knows(req[r], founder, joined, invitation)
      BY <1>3, BusyIsLocal DEF AcceptLookup, At, IInv, LocalsStayTrue
    <2>3. e \in Local /\ e.at # "activate"
      BY <2>2 DEF Local, Awaits
    <2>4. Knows(e, founder, joined, invitation)
      BY <1>3, <2>1, <2>2 DEF AcceptLookup, At, Knows, AtGrant, AtInvitation, Local,
         IInv, RowsAreMemberships
    <2>5. QED
      BY <2>1, <2>3, <2>4, ReadIInv
  <1>4. QED
    BY <1>1, <1>2, <1>3

----------------------------------------------------------------------------
(* Membership rows *)

\* Writing a membership row keeps what everybody knows, and puts its user on record.
LEMMA PutRowKeeps ==
  ASSUME TypeOK, NEW u \in Users, NEW k \in Companies, NEW ro \in GrantedRoles,
         NEW id \in RowIds, NEW isActive \in BOOLEAN,
         PutRow(u, k, ro, id, isActive), UNCHANGED <<founder, invitation>>
  PROVE  Keep /\ k \in joined'[u]
  BY DEF TypeOK, PutRow, Keep

\* A membership row saved under a granted role, for a user who is not the founder, is
\* harmless if it is not one a transaction has locked and the index admits it.
LEMMA RowWrittenIInv ==
  ASSUME IInv, NEW r \in Requests, NEW u \in Users, NEW k \in Companies,
         NEW ro \in GrantedRoles, NEW id \in RowIds \ {0}, NEW isActive \in BOOLEAN,
         PutRow(u, k, ro, id, isActive), UNCHANGED <<founder, userRole, invitation>>,
         founder[k] # None, founder[k] # u,
         isActive => IndexAllows(u, k, {}),
         ~LockedAgainst(r, u, k), req[r].at # "activate",
         NEW e \in Local \cup {Idle}, e.at # "activate",
         req' = [req EXCEPT ![r] = e],
         Knows(e, founder', joined', invitation')
  PROVE  IInv'
  <1> USE MembershipAssumption DEF IInv
  <1>1. Keep
    BY PutRowKeeps
  <1>2. req' \in [Requests -> Local \cup {Idle}] /\ LocalsStayTrue'
    BY <1>1, RequestsStayTrue
  <1>3. req'[r] = e /\ \A q \in Requests \ {r} : req'[q] = req[q]
    BY DEF TypeOK
  <1>4. /\ role' \in [Users -> [Companies -> MemberRoles \cup {"NONE"}]]
        /\ role'[u][k] = ro
        /\ \A v \in Users, l \in Companies : <<v, l>> # <<u, k>> => role'[v][l] = role[v][l]
    BY DEF PutRow, TypeOK, MemberRoles
  <1>5. /\ rowId' \in [Users -> [Companies -> RowIds]]
        /\ rowId'[u][k] = id
        /\ \A v \in Users, l \in Companies : <<v, l>> # <<u, k>> => rowId'[v][l] = rowId[v][l]
    BY DEF PutRow, TypeOK
  <1>6. /\ active' \in [Users -> SUBSET Companies]
        /\ active'[u] = IF isActive THEN active[u] \cup {k} ELSE active[u] \ {k}
        /\ \A v \in Users \ {u} : active'[v] = active[v]
    BY DEF PutRow, TypeOK
  <1>7. /\ joined' \in [Users -> SUBSET Companies]
        /\ joined'[u] = joined[u] \cup {k}
        /\ \A v \in Users \ {u} : joined'[v] = joined[v]
    BY DEF PutRow, TypeOK
  <1>8. TypeOK'
    BY <1>2, <1>4, <1>5, <1>6, <1>7 DEF TypeOK
  <1>9. RowsAreMemberships'
    <2> SUFFICES ASSUME NEW v \in Users, NEW l \in Companies
                 PROVE  /\ HasRow(v, l)' <=> role'[v][l] # "NONE"
                        /\ HasRow(v, l)' => founder'[l] # None /\ l \in joined'[v]
                        /\ l \in active'[v] => HasRow(v, l)'
      BY DEF RowsAreMemberships
    <2>1. CASE v = u /\ l = k
      BY <1>4, <1>5, <1>7, <2>1 DEF HasRow
    <2>2. CASE ~(v = u /\ l = k)
      <3>1. role'[v][l] = role[v][l] /\ rowId'[v][l] = rowId[v][l]
        BY <1>4, <1>5, <2>2
      <3>2. joined[v] \subseteq joined'[v] /\ (l \in active'[v] => l \in active[v])
        BY <1>6, <1>7, <2>2
      <3>3. QED
        BY <3>1, <3>2 DEF RowsAreMemberships, HasRow
    <2>3. QED
      BY <2>1, <2>2
  <1>10. ActiveIsUnique'
    BY <1>6 DEF ActiveIsUnique, IndexAllows
  <1>11. OwnerStays'
    BY <1>4 DEF OwnerStays
  <1>12. InvitationsAreOfCompanies' /\ GrantsFollowMembership'
    <2>1. \A i \in Invitations : invitation[i] # None => invitation[i].user \in Users
      BY DEF TypeOK, InvitationRow
    <2>2. \A v \in Users : joined[v] \subseteq joined'[v]
      BY <1>7
    <2>3. QED
      BY <2>1, <2>2 DEF InvitationsAreOfCompanies, GrantsFollowMembership
  <1>13. LocksAreExclusive'
    BY <1>3 DEF LocksAreExclusive
  <1>14. LockedRowsAreActive'
    BY <1>3, <1>6, BusyIsLocal DEF LockedRowsAreActive, LockedAgainst
  <1>15. QED
    BY <1>2, <1>8, <1>9, <1>10, <1>11, <1>12, <1>13, <1>14

\* A row that does not exist is in no transaction's set of locked rows.
LEMMA MissingRowIsNotLocked ==
  ASSUME IInv, NEW r \in Requests, NEW u \in Users, NEW k \in Companies, ~HasRow(u, k)
  PROVE  ~LockedAgainst(r, u, k)
  <1>1. k \notin active[u]
    BY DEF IInv, RowsAreMemberships
  <1>2. QED
    BY <1>1 DEF IInv, LockedRowsAreActive, LockedAgainst

\* addMember inserts the row it has not found and goes on to users.role.
LEMMA AddInsertIInv ==
  ASSUME IInv, NEW r \in Requests, NEW id \in RowIds \ {0}, AddInsert(r, id)
  PROVE  IInv'
  <1> DEFINE u == req[r].user
             k == req[r].company
             e == [req[r] EXCEPT !.at = "user_role", !.company = None, !.invitation = None,
                                 !.isActive = FALSE, !.id = 0]
  <1>1. /\ At(r, "add_insert") /\ ~HasRow(u, k)
        /\ PutRow(u, k, req[r].role, id, FALSE)
        /\ req' = [req EXCEPT ![r] = e]
        /\ UNCHANGED <<founder, userRole, invitation>>
    BY DEF AddInsert, GotoUserRole
  <1>2. req[r] \in Local /\ u \in Users /\ Knows(req[r], founder, joined, invitation)
    BY <1>1, BusyIsLocal DEF At, IInv, LocalsStayTrue
  <1>3. k \in Companies /\ founder[k] # None /\ req[r].role \in GrantedRoles
    BY <1>1, <1>2 DEF At, Knows, AtGrant
  <1>4. e \in Local /\ e.at # "activate"
    BY <1>2, RowIdsAreNaturals DEF Local, Awaits
  <1>5. k \in joined'[u]
    BY <1>1, <1>2, <1>3, PutRowKeeps DEF IInv
  <1>6. Knows(e, founder', joined', invitation')
    BY <1>2, <1>3, <1>5 DEF Knows, AtGrant, AtInvitation, Local
  <1>7. founder[k] # u
    BY <1>1, <1>2, <1>3 DEF IInv, RowsAreMemberships, OwnerStays
  <1> HIDE DEF u, k, e
  <1>8. ~LockedAgainst(r, u, k)
    BY <1>1, <1>2, <1>3, MissingRowIsNotLocked
  <1>9. QED
    BY <1>1, <1>2, <1>3, <1>4, <1>6, <1>7, <1>8, RowWrittenIInv DEF At

\* acceptInvitation inserts the row of the invited user.
LEMMA AcceptInsertIInv ==
  ASSUME IInv, NEW r \in Requests, NEW id \in RowIds \ {0}, AcceptInsert(r, id)
  PROVE  IInv'
  <1> DEFINE u == req[r].user
             k == req[r].company
             e == [req[r] EXCEPT !.at = "accept_status", !.isActive = FALSE]
  <1>1. /\ At(r, "accept_insert") /\ ~HasRow(u, k)
        /\ PutRow(u, k, req[r].role, id, req[r].isActive)
        /\ req[r].isActive => IndexAllows(u, k, {})
        /\ req' = [req EXCEPT ![r] = e]
        /\ UNCHANGED <<founder, userRole, invitation>>
    BY DEF AcceptInsert
  <1>2. /\ req[r] \in Local /\ u \in Users /\ req[r].isActive \in BOOLEAN
        /\ Knows(req[r], founder, joined, invitation)
    BY <1>1, BusyIsLocal DEF At, IInv, LocalsStayTrue
  <1>3. k \in Companies /\ founder[k] # None /\ req[r].role \in GrantedRoles
    BY <1>1, <1>2 DEF At, Knows, AtGrant, AtInvitation
  <1>4. e \in Local /\ e.at # "activate"
    BY <1>2 DEF Local, Awaits
  <1>5. k \in joined'[u]
    BY <1>1, <1>2, <1>3, PutRowKeeps DEF IInv
  <1>6. Knows(e, founder', joined', invitation')
    BY <1>1, <1>2, <1>3, <1>5 DEF At, Knows, AtGrant, AtInvitation, Local
  <1>7. founder[k] # u
    BY <1>1, <1>2, <1>3 DEF IInv, RowsAreMemberships, OwnerStays
  <1> HIDE DEF u, k, e
  <1>8. ~LockedAgainst(r, u, k)
    BY <1>1, <1>2, <1>3, MissingRowIsNotLocked
  <1>9. QED
    BY <1>1, <1>2, <1>3, <1>4, <1>6, <1>7, <1>8, RowWrittenIInv DEF At

\* updateMember saves what it has read, a removed row included.
LEMMA UpdateSaveIInv ==
  ASSUME IInv, NEW r \in Requests, UpdateSave(r)
  PROVE  IInv'
  <1> DEFINE u == req[r].user
             k == req[r].company
             e == IF At(r, "update_save")
                  THEN [req[r] EXCEPT !.at = "user_role", !.company = None,
                                      !.invitation = None, !.isActive = FALSE, !.id = 0]
                  ELSE Idle
  <1>1. /\ req[r].at \in {"update_save", "retitle_save"}
        /\ ~LockedAgainst(r, u, k)
        /\ PutRow(u, k, req[r].role, req[r].id, req[r].isActive)
        /\ req[r].isActive => IndexAllows(u, k, {})
        /\ req' = [req EXCEPT ![r] = e]
        /\ UNCHANGED <<founder, userRole, invitation>>
    BY DEF UpdateSave, GotoUserRole, Return
  <1>2. /\ req[r] \in Local /\ u \in Users /\ req[r].isActive \in BOOLEAN
        /\ req[r].id \in RowIds /\ Knows(req[r], founder, joined, invitation)
    BY <1>1, BusyIsLocal DEF IInv, LocalsStayTrue
  <1>3. /\ k \in Companies /\ founder[k] # None /\ req[r].role \in GrantedRoles
        /\ founder[k] # u /\ req[r].id # 0
    BY <1>1, <1>2 DEF Knows, AtGrant
  <1>4. e \in Local \cup {Idle} /\ e.at # "activate"
    BY <1>2, RowIdsAreNaturals DEF Local, Awaits, Idle
  <1>5. k \in joined'[u]
    BY <1>1, <1>2, <1>3, PutRowKeeps DEF IInv
  <1>6. Knows(e, founder', joined', invitation')
    BY <1>2, <1>3, <1>5 DEF Knows, AtGrant, AtInvitation, Local, Idle
  <1> HIDE DEF u, k, e
  <1>7. QED
    BY <1>1, <1>2, <1>3, <1>4, <1>6, RowWrittenIInv

\* removeMember deletes a row that is not the owner's and that no transaction has locked.
LEMMA RemoveMemberIInv ==
  ASSUME IInv, NEW u \in Users, NEW k \in Companies, RemoveMember(u, k)
  PROVE  IInv'
  <1> USE MembershipAssumption DEF IInv, RemoveMember
  <1>1. TypeOK'
    BY RowIdsAreNaturals DEF TypeOK, MemberRoles
  <1>2. RowsAreMemberships'
    BY DEF TypeOK, RowsAreMemberships, HasRow
  <1>3. ActiveIsUnique' /\ OwnerStays'
    BY DEF TypeOK, ActiveIsUnique, OwnerStays
  <1>4. LockedRowsAreActive'
    <2> SUFFICES ASSUME NEW q \in Requests, req[q].at = "activate"
                 PROVE  req[q].rows \subseteq active'[req[q].user]
      BY DEF LockedRowsAreActive
    <2>1. req[q].user = u => k \notin req[q].rows
      BY DEF LockedAgainst
    <2>2. QED
      BY <2>1, BusyIsLocal DEF TypeOK, LockedRowsAreActive
  <1>5. LocksAreExclusive' /\ InvitationsAreOfCompanies' /\ GrantsFollowMembership'
        /\ LocalsStayTrue'
    BY DEF LocksAreExclusive, InvitationsAreOfCompanies, GrantsFollowMembership, LocalsStayTrue
  <1>6. QED
    BY <1>1, <1>2, <1>3, <1>4, <1>5

----------------------------------------------------------------------------
(* Invitations and users.role *)

\* Such a step of request r, which goes on as e, leaves the memberships alone.
LEMMA GrantIInv ==
  ASSUME IInv, NEW r \in Requests, req[r].at # "activate",
         UNCHANGED <<founder, role, rowId, active, joined>>,
         userRole' \in [Users -> GrantedRoles \cup {"AS_REGISTERED"}],
         invitation' \in [Invitations -> InvitationRow \cup {None}],
         InvitationsAreOfCompanies', GrantsFollowMembership', Keep,
         NEW e \in Local \cup {Idle}, e.at # "activate",
         req' = [req EXCEPT ![r] = e],
         Knows(e, founder', joined', invitation')
  PROVE  IInv'
  <1> USE DEF IInv
  <1>1. req' \in [Requests -> Local \cup {Idle}] /\ LocalsStayTrue'
    BY RequestsStayTrue
  <1>2. req'[r] = e /\ \A q \in Requests \ {r} : req'[q] = req[q]
    BY DEF TypeOK
  <1>3. TypeOK'
    BY <1>1 DEF TypeOK
  <1>4. LocksAreExclusive' /\ LockedRowsAreActive'
    BY <1>2 DEF LocksAreExclusive, LockedRowsAreActive
  <1>5. RowsAreMemberships' /\ ActiveIsUnique' /\ OwnerStays'
    BY DEF RowsAreMemberships, ActiveIsUnique, OwnerStays, HasRow
  <1>6. QED
    BY <1>1, <1>3, <1>4, <1>5

\* users.role is set for somebody who has become a member.
LEMMA SetUserRoleIInv ==
  ASSUME IInv, NEW r \in Requests, SetUserRole(r)
  PROVE  IInv'
  <1>1. /\ req[r].at = "user_role" /\ req[r].user \in Users
        /\ req[r].role \in GrantedRoles /\ joined[req[r].user] # {}
    BY BusyIsLocal DEF SetUserRole, At, IInv, LocalsStayTrue, Knows
  <1>2. /\ userRole' \in [Users -> GrantedRoles \cup {"AS_REGISTERED"}]
        /\ InvitationsAreOfCompanies' /\ GrantsFollowMembership' /\ Keep
    BY <1>1 DEF SetUserRole, IInv, TypeOK, InvitationsAreOfCompanies, GrantsFollowMembership,
       Keep
  <1>3. /\ invitation' \in [Invitations -> InvitationRow \cup {None}]
        /\ req' = [req EXCEPT ![r] = Idle] /\ UNCHANGED <<founder, role, rowId, active, joined>>
    BY DEF SetUserRole, Return, IInv, TypeOK
  <1>4. QED
    BY <1>1, <1>2, <1>3, GrantIInv DEF Idle, Knows, AtGrant, AtInvitation

\* createInvitation inserts a pending row of a company that exists.
LEMMA InviteSaveIInv ==
  ASSUME IInv, NEW r \in Requests, NEW i \in Invitations, InviteSave(r, i)
  PROVE  IInv'
  <1>1. /\ req[r].at = "invite_save" /\ req[r].user \in Users /\ req[r].company \in Companies
        /\ req[r].role \in GrantedRoles /\ founder[req[r].company] # None
    BY BusyIsLocal DEF InviteSave, At, IInv, LocalsStayTrue, Knows, AtGrant
  <1>2. [status |-> "pending", company |-> req[r].company, user |-> req[r].user,
         role |-> req[r].role] \in InvitationRow
    BY <1>1 DEF InvitationRow
  <1>3. /\ invitation' \in [Invitations -> InvitationRow \cup {None}]
        /\ Keep /\ InvitationsAreOfCompanies' /\ GrantsFollowMembership'
    BY <1>1, <1>2 DEF InviteSave, IInv, TypeOK, Keep, InvitationsAreOfCompanies,
       GrantsFollowMembership
  <1>4. /\ userRole' \in [Users -> GrantedRoles \cup {"AS_REGISTERED"}]
        /\ req' = [req EXCEPT ![r] = Idle] /\ UNCHANGED <<founder, role, rowId, active, joined>>
    BY DEF InviteSave, Return, IInv, TypeOK
  <1>5. QED
    BY <1>1, <1>3, <1>4, GrantIInv DEF Idle, Knows, AtGrant, AtInvitation

\* A new status of an invitation keeps its addressee; 'accepted' needs a member.
LEMMA SetStatusKeeps ==
  ASSUME IInv, NEW i \in Invitations, invitation[i] # None,
         NEW s \in {"lapsed", "accepted", "revoked", "expired"}, SetStatus(i, s),
         s = "accepted" => invitation[i].company \in joined[invitation[i].user],
         UNCHANGED <<founder, userRole, joined>>
  PROVE  /\ invitation' \in [Invitations -> InvitationRow \cup {None}]
         /\ Keep /\ InvitationsAreOfCompanies' /\ GrantsFollowMembership'
  <1>1. invitation[i] \in InvitationRow
    BY DEF IInv, TypeOK
  <1> DEFINE e == [invitation[i] EXCEPT !.status = s]
  <1>2. /\ e \in InvitationRow /\ e.company = invitation[i].company
        /\ e.user = invitation[i].user /\ e.status = s
    BY <1>1 DEF InvitationRow
  <1>3. invitation' = [invitation EXCEPT ![i] = e]
    BY DEF SetStatus
  <1>4. e # None
    BY <1>2, NoneIsNoInvitation
  <1> HIDE DEF e
  <1>5. QED
    BY <1>2, <1>3, <1>4 DEF IInv, TypeOK, Keep, InvitationsAreOfCompanies, GrantsFollowMembership

\* acceptInvitation and revokeInvitation save the status, whatever it is by now.
LEMMA SaveStatusIInv ==
  ASSUME IInv, NEW r \in Requests, SaveStatus(r)
  PROVE  IInv'
  <1> DEFINE i == req[r].invitation
  <1>1. /\ req[r].at \in {"accept_status", "revoke_save", "expire_save"}
        /\ UNCHANGED <<founder, role, rowId, active, userRole, joined>>
    BY DEF SaveStatus, At
  <1>2. req[r] \in Local /\ req[r].user \in Users /\ Knows(req[r], founder, joined, invitation)
    BY <1>1, BusyIsLocal DEF IInv, LocalsStayTrue
  <1>3. /\ i \in Invitations /\ invitation[i] # None /\ req[r].role \in GrantedRoles
        /\ req[r].at = "accept_status" => invitation[i].company \in joined[invitation[i].user]
        /\ req[r].at = "accept_status" => joined[req[r].user] # {}
    BY <1>1, <1>2 DEF Knows, AtInvitation, AtGrant
  <1>4. PICK s \in {"accepted", "revoked", "expired"} :
          SetStatus(i, s) /\ (s = "accepted" => req[r].at = "accept_status")
    BY DEF SaveStatus, At
  <1>5. /\ invitation' \in [Invitations -> InvitationRow \cup {None}]
        /\ Keep /\ InvitationsAreOfCompanies' /\ GrantsFollowMembership'
    BY <1>1, <1>3, <1>4, SetStatusKeeps
  <1>6. userRole' \in [Users -> GrantedRoles \cup {"AS_REGISTERED"}]
    BY <1>1 DEF IInv, TypeOK
  <1> HIDE DEF i
  <1>7. CASE req[r].at # "accept_status"
    <2>1. req' = [req EXCEPT ![r] = Idle]
      BY <1>7 DEF SaveStatus, At, Return
    <2>2. QED
      BY <1>1, <1>5, <1>6, <2>1, GrantIInv DEF Idle, Knows, AtGrant, AtInvitation
  <1>8. CASE req[r].at = "accept_status"
    <2> DEFINE e == [req[r] EXCEPT !.at = "user_role", !.company = None, !.invitation = None,
                                   !.isActive = FALSE, !.id = 0]
    <2>1. req' = [req EXCEPT ![r] = e]
      BY <1>8 DEF SaveStatus, At, GotoUserRole
    <2>2. e \in Local /\ e.at # "activate"
      BY <1>2, RowIdsAreNaturals DEF Local, Awaits
    <2>3. Knows(e, founder', joined', invitation')
      BY <1>1, <1>2, <1>3, <1>8 DEF Knows, AtGrant, AtInvitation, Local
    <2>4. QED
      BY <1>1, <1>5, <1>6, <2>1, <2>2, <2>3, GrantIInv
  <1>9. QED
    BY <1>7, <1>8

\* An invitation runs out while requests are under way.
LEMMA LapseIInv ==
  ASSUME IInv, NEW i \in Invitations, Lapse(i)
  PROVE  IInv'
  <1> USE DEF IInv
  <1>1. /\ invitation[i] # None /\ SetStatus(i, "lapsed")
        /\ UNCHANGED <<founder, role, rowId, active, userRole, joined, req>>
    BY DEF Lapse
  <1>2. /\ invitation' \in [Invitations -> InvitationRow \cup {None}]
        /\ Keep /\ InvitationsAreOfCompanies' /\ GrantsFollowMembership'
    BY <1>1, SetStatusKeeps
  <1>3. LocalsStayTrue'
    <2> SUFFICES ASSUME NEW q \in Requests
                 PROVE  Knows(req[q], founder', joined', invitation')
      BY <1>1 DEF LocalsStayTrue
    <2>1. Knows(req[q], founder, joined, invitation)
      BY DEF LocalsStayTrue
    <2>2. QED
      BY <1>1, <1>2, <2>1 DEF Keep, Knows, AtGrant, AtInvitation
  <1>4. TypeOK'
    BY <1>1, <1>2 DEF TypeOK
  <1>5. RowsAreMemberships' /\ ActiveIsUnique' /\ OwnerStays' /\ LocksAreExclusive'
        /\ LockedRowsAreActive'
    BY <1>1 DEF RowsAreMemberships, ActiveIsUnique, OwnerStays, LocksAreExclusive, HasRow,
       LockedRowsAreActive
  <1>6. QED
    BY <1>2, <1>3, <1>4, <1>5

----------------------------------------------------------------------------
(* The transaction that moves the active membership *)

\* A transaction locks rows that are active and that no other has locked.
LEMMA TakeRowsIInv ==
  ASSUME IInv, NEW r \in Requests, Scan(r) \/ Lock(r)
  PROVE  IInv'
  <1> DEFINE u == req[r].user
  <1>1. /\ req[r].at \in {"scan", "lock"} /\ UNCHANGED tables
        /\ req[r] \in Local /\ u \in Users
    BY BusyIsLocal DEF IInv, Scan, Lock, At
  <1>2. PICK label \in {"lock", "activate"}, rows \in SUBSET Companies :
          /\ req' = [req EXCEPT ![r].at = label, ![r].rows = rows]
          /\ label = "activate" => rows \subseteq active[u]
                                   /\ \A k \in rows : ~LockedAgainst(r, u, k)
    <2>1. CASE Scan(r)
      <3>1. CASE \E k \in active[u] : LockedAgainst(r, u, k)
        <4>1. req' = [req EXCEPT ![r].at = "lock", ![r].rows = active[u]]
          BY <2>1, <3>1 DEF Scan
        <4>2. QED
          BY <1>1, <4>1 DEF IInv, TypeOK
      <3>2. CASE ~\E k \in active[u] : LockedAgainst(r, u, k)
        <4>1. req' = [req EXCEPT ![r].at = "activate", ![r].rows = active[u]]
          BY <2>1, <3>2 DEF Scan
        <4>2. QED
          BY <1>1, <3>2, <4>1 DEF IInv, TypeOK
      <3>3. QED
        BY <3>1, <3>2
    <2>2. CASE Lock(r)
      <3>1. req[r].rows \in SUBSET Companies
        BY <1>1, BusyIsLocal DEF IInv
      <3>2. /\ req' = [req EXCEPT ![r].at = "activate", ![r].rows = req[r].rows \cap active[u]]
            /\ \A k \in req[r].rows : ~LockedAgainst(r, u, k)
        BY <2>2 DEF Lock
      <3>3. QED
        BY <3>1, <3>2
    <2>3. QED
      BY <2>1, <2>2
  <1> DEFINE e == [req[r] EXCEPT !.at = label, !.rows = rows]
  <1>3. /\ e \in Local /\ e.at = label /\ e.rows = rows /\ e.user = u
        /\ Knows(e, founder', joined', invitation')
    BY <1>1 DEF Local, Awaits, InTransaction, Knows, AtGrant, AtInvitation
  <1>4. req' = [req EXCEPT ![r] = e]
    BY <1>2
  <1> HIDE DEF e
  <1>5. Keep
    BY <1>1 DEF tables, Keep
  <1>6. req' \in [Requests -> Local \cup {Idle}] /\ LocalsStayTrue'
    BY <1>3, <1>4, <1>5, RequestsStayTrue
  <1>7. req'[r] = e /\ \A q \in Requests \ {r} : req'[q] = req[q]
    BY <1>4 DEF IInv, TypeOK
  <1>8. TypeOK'
    BY <1>1, <1>6 DEF IInv, TypeOK, tables
  <1>9. LockedRowsAreActive'
    BY ZenonT(40), <1>1, <1>2, <1>3, <1>7 DEF IInv, LockedRowsAreActive, tables
  <1>10. LocksAreExclusive'
    <2>1. ASSUME NEW q \in Requests, q # r, req[q].at = "activate", label = "activate",
                 req[q].user = u
          PROVE  req[q].rows \cap rows = {}
      BY <1>2, <2>1 DEF LockedAgainst
    <2>2. QED
      BY <1>3, <1>7, <2>1 DEF IInv, LocksAreExclusive
  <1>11. RowsAreMemberships' /\ ActiveIsUnique' /\ InvitationsAreOfCompanies'
    BY <1>1 DEF IInv, RowsAreMemberships, ActiveIsUnique, InvitationsAreOfCompanies, HasRow,
       tables
  <1>12. OwnerStays' /\ GrantsFollowMembership'
    BY <1>1 DEF IInv, OwnerStays, GrantsFollowMembership, tables
  <1>13. QED
    BY <1>6, <1>8, <1>9, <1>10, <1>11, <1>12 DEF IInv

\* The rows a committing transaction leaves active: its own are gone, other open
\* transactions of the user have locked others.
LEMMA CommitLocks ==
  ASSUME IInv, NEW r \in Requests, req[r].at = "activate",
         NEW added \in SUBSET Companies,
         active' = [active EXCEPT ![req[r].user] = (@ \ req[r].rows) \cup added],
         req' = [req EXCEPT ![r] = Idle]
  PROVE  /\ active' \in [Users -> SUBSET Companies]
         /\ LockedRowsAreActive' /\ LocksAreExclusive'
  <1> USE DEF IInv
  <1>1. req[r].user \in Users /\ req[r].rows \in SUBSET Companies
    BY BusyIsLocal
  <1>2. /\ active' \in [Users -> SUBSET Companies]
        /\ active'[req[r].user] = (active[req[r].user] \ req[r].rows) \cup added
        /\ \A v \in Users \ {req[r].user} : active'[v] = active[v]
    BY <1>1 DEF TypeOK
  <1>3. req'[r] = Idle /\ \A q \in Requests \ {r} : req'[q] = req[q]
    BY DEF TypeOK
  <1>4. LocksAreExclusive'
    BY <1>3 DEF LocksAreExclusive, Idle
  <1>5. LockedRowsAreActive'
    <2> SUFFICES ASSUME NEW q \in Requests, req'[q].at = "activate"
                 PROVE  req'[q].rows \subseteq active'[req'[q].user]
      BY DEF LockedRowsAreActive
    <2>1. q # r /\ req'[q] = req[q] /\ req[q].at = "activate" /\ req[q].user \in Users
      BY <1>3, BusyIsLocal DEF Idle
    <2>2. req[q].rows \subseteq active[req[q].user]
      BY <2>1 DEF LockedRowsAreActive
    <2>3. req[q].user = req[r].user => req[q].rows \cap req[r].rows = {}
      BY <2>1 DEF LocksAreExclusive
    <2>4. QED
      BY <1>2, <2>1, <2>2, <2>3
  <1>6. QED
    BY <1>2, <1>4, <1>5

\* create() founds a company nobody is a member of, with its owner as the active member.
LEMMA CommitCreateIInv ==
  ASSUME IInv, NEW r \in Requests, NEW k \in Companies, CommitCreate(r, k)
  PROVE  IInv'
  <1> DEFINE u == req[r].user
  <1> USE MembershipAssumption DEF IInv
  <1>1. /\ req[r].at = "activate" /\ founder[k] = None
        /\ active[u] \subseteq req[r].rows \cup {k}
        /\ founder' = [founder EXCEPT ![k] = u]
        /\ role' = [role EXCEPT ![u][k] = "COMPANY_OWNER"]
        /\ rowId' = [rowId EXCEPT ![u][k] = 1]
        /\ joined' = [joined EXCEPT ![u] = @ \cup {k}]
        /\ active' = [active EXCEPT ![u] = (@ \ req[r].rows) \cup {k}]
        /\ req' = [req EXCEPT ![r] = Idle]
        /\ UNCHANGED <<userRole, invitation>>
    BY DEF CommitCreate, At, IndexAllows, Return
  <1>2. u \in Users
    BY <1>1, BusyIsLocal
  <1> HIDE DEF u
  <1>3. Keep
    BY <1>1, <1>2 DEF TypeOK, Keep
  <1>4. req' \in [Requests -> Local \cup {Idle}] /\ LocalsStayTrue'
    BY <1>1, <1>3, RequestsStayTrue DEF Idle, Knows, AtGrant, AtInvitation
  <1>5. active' \in [Users -> SUBSET Companies] /\ LockedRowsAreActive' /\ LocksAreExclusive'
    BY ZenonT(40), <1>1, CommitLocks DEF u
  <1>6. TypeOK'
    BY <1>1, <1>2, <1>4, <1>5, RowIdsAreNaturals DEF TypeOK, MemberRoles
  <1>7. RowsAreMemberships'
    <2> SUFFICES ASSUME NEW v \in Users, NEW l \in Companies
                 PROVE  /\ HasRow(v, l)' <=> role'[v][l] # "NONE"
                        /\ HasRow(v, l)' => founder'[l] # None /\ l \in joined'[v]
                        /\ l \in active'[v] => HasRow(v, l)'
      BY DEF RowsAreMemberships
    <2>1. CASE v = u /\ l = k
      BY <1>1, <1>2, <2>1 DEF TypeOK, HasRow
    <2>2. CASE ~(v = u /\ l = k)
      <3>1. role'[v][l] = role[v][l] /\ rowId'[v][l] = rowId[v][l]
        BY <1>1, <1>2, <2>2 DEF TypeOK
      <3>2. joined[v] \subseteq joined'[v] /\ (l \in active'[v] => l \in active[v])
        BY <1>1, <1>2, <2>2 DEF TypeOK
      <3>3. founder[l] # None => founder'[l] # None
        BY <1>1, <1>2 DEF TypeOK
      <3>4. QED
        BY <3>1, <3>2, <3>3 DEF RowsAreMemberships, HasRow
    <2>3. QED
      BY <2>1, <2>2
  <1>8. ActiveIsUnique'
    BY <1>1, <1>2 DEF TypeOK, ActiveIsUnique
  <1>9. OwnerStays'
    <2>1. \A v \in Users : role[v][k] = "NONE"
      BY <1>1 DEF RowsAreMemberships
    <2>2. QED
      BY <1>1, <1>2, <2>1 DEF TypeOK, OwnerStays
  <1>10. InvitationsAreOfCompanies' /\ GrantsFollowMembership'
    <2>1. \A i \in Invitations : invitation[i] # None =>
            invitation[i].user \in Users /\ invitation[i].company \in Companies
      BY DEF TypeOK, InvitationRow
    <2>2. QED
      BY <1>1, <1>3, <2>1 DEF Keep, InvitationsAreOfCompanies, GrantsFollowMembership
  <1>11. QED
    BY <1>4, <1>5, <1>6, <1>7, <1>8, <1>9, <1>10

\* switchActiveCompany activates the target row, if it is still there.
LEMMA CommitSwitchIInv ==
  ASSUME IInv, NEW r \in Requests, CommitSwitch(r)
  PROVE  IInv'
  <1> DEFINE u == req[r].user
             k == req[r].company
  <1> USE MembershipAssumption DEF IInv
  <1>1. /\ req[r].at = "activate" /\ k # None
        /\ req' = [req EXCEPT ![r] = Idle]
        /\ UNCHANGED <<founder, role, rowId, userRole, invitation, joined>>
    BY DEF CommitSwitch, At, Return
  <1>2. u \in Users /\ k \in Companies
    BY <1>1, BusyIsLocal
  <1>3. PICK added \in SUBSET {k} :
          /\ active' = [active EXCEPT ![u] = (@ \ req[r].rows) \cup added]
          /\ added # {} => HasRow(u, k) /\ active[u] \subseteq req[r].rows \cup {k}
    <2>1. CASE HasRow(u, k)
      <3>1. /\ active' = [active EXCEPT ![u] = (@ \ req[r].rows) \cup {k}]
            /\ active[u] \subseteq req[r].rows \cup {k}
        BY <2>1 DEF CommitSwitch, IndexAllows
      <3>2. QED
        BY <2>1, <3>1
    <2>2. CASE ~HasRow(u, k)
      <3>1. active' = [active EXCEPT ![u] = @ \ req[r].rows]
        BY <2>2 DEF CommitSwitch
      <3>2. active' = [active EXCEPT ![u] = (@ \ req[r].rows) \cup {}]
        BY <3>1
      <3>3. QED
        BY <3>2
    <2>3. QED
      BY <2>1, <2>2
  <1> HIDE DEF u, k
  <1>4. Keep
    BY <1>1 DEF Keep
  <1>5. req' \in [Requests -> Local \cup {Idle}] /\ LocalsStayTrue'
    BY <1>1, <1>4, RequestsStayTrue DEF Idle, Knows, AtGrant, AtInvitation
  <1>6. active' \in [Users -> SUBSET Companies] /\ LockedRowsAreActive' /\ LocksAreExclusive'
    BY <1>1, <1>2, <1>3, CommitLocks DEF u
  <1>7. TypeOK'
    BY <1>1, <1>5, <1>6 DEF TypeOK
  <1>8. RowsAreMemberships' /\ ActiveIsUnique'
    BY <1>1, <1>2, <1>3 DEF TypeOK, RowsAreMemberships, ActiveIsUnique, HasRow
  <1>9. OwnerStays' /\ InvitationsAreOfCompanies' /\ GrantsFollowMembership'
    BY <1>1 DEF OwnerStays, InvitationsAreOfCompanies, GrantsFollowMembership
  <1>10. QED
    BY <1>5, <1>6, <1>7, <1>8, <1>9

----------------------------------------------------------------------------
\* No members, no invitations and no requests yet.
LEMMA InitIInv == Init => IInv
  <1> SUFFICES ASSUME Init PROVE IInv
    OBVIOUS
  <1>1. TypeOK
    BY RowIdsAreNaturals DEF Init, TypeOK
  <1>2. LocalsStayTrue /\ LocksAreExclusive /\ LockedRowsAreActive
    BY DEF Init, Idle, LocalsStayTrue, Knows, AtGrant, AtInvitation, LocksAreExclusive,
       LockedRowsAreActive
  <1>3. OwnerStays
    BY MembershipAssumption DEF Init, OwnerStays
  <1>4. QED
    BY <1>1, <1>2, <1>3 DEF Init, IInv, RowsAreMemberships, ActiveIsUnique, HasRow,
       InvitationsAreOfCompanies, GrantsFollowMembership

\* Every step of every handler preserves the inductive invariant.
LEMMA NextIInv == IInv /\ [Next]_vars => IInv'
  <1> SUFFICES ASSUME IInv, [Next]_vars PROVE IInv'
    OBVIOUS
  <1>1. ASSUME NEW r \in Requests, Start(r) PROVE IInv'
    BY <1>1, StartIInv
  <1>2. ASSUME NEW r \in Requests, Continue(r) PROVE IInv'
    BY <1>2, TakeRowsIInv, CommitCreateIInv, CommitSwitchIInv, AddInsertIInv, AcceptInsertIInv,
       UpdateSaveIInv, SetUserRoleIInv, InviteSaveIInv, GoOnIInv, SaveStatusIInv DEF Continue
  <1>3. CASE UNCHANGED vars
    BY <1>3 DEF vars, tables, IInv, TypeOK, RowsAreMemberships, ActiveIsUnique, HasRow,
       LocksAreExclusive, InvitationsAreOfCompanies, LocalsStayTrue, OwnerStays,
       LockedRowsAreActive, GrantsFollowMembership
  <1>4. QED
    BY <1>1, <1>2, <1>3, RemoveMemberIInv, LapseIInv DEF Next

\* The inductive invariant holds in every reachable state.
LEMMA SpecIInv == Spec => []IInv
  BY InitIInv, NextIInv, PTL DEF Spec

\* Every variable keeps its type: no request ever saves a role, a company or an
\* invitation it has not read.
THEOREM MembershipTypeCorrect == Spec => []TypeOK
  <1>1. IInv => TypeOK
    BY DEF IInv
  <1>2. QED
    BY <1>1, SpecIInv, PTL

\* However many creations, switches, acceptances and stale saves run at once, a user has
\* at most one active membership.
THEOREM SingleActiveCompany == Spec => []OneActiveCompany
  <1>1. IInv => OneActiveCompany
    <2> SUFFICES ASSUME IInv, NEW u \in Users PROVE Cardinality(active[u]) <= 1
      BY DEF OneActiveCompany
    <2>1. CASE active[u] = {}
      <3>1. Cardinality(active[u]) = 0
        BY <2>1, FS_EmptySet, Zenon
      <3>2. QED
        BY <3>1
    <2>2. CASE active[u] # {}
      <3>1. PICK k \in active[u] : active[u] = {k}
        BY <2>2 DEF IInv, ActiveIsUnique
      <3>2. Cardinality({k}) = 1
        BY FS_Singleton, Zenon
      <3>3. QED
        BY <3>1, <3>2
    <2>3. QED
      BY <2>1, <2>2
  <1>2. QED
    BY <1>1, SpecIInv, PTL

\* A company keeps the owner who created it, and never has another.
THEOREM OwnerNeverLost == Spec => []OwnerStays
  <1>1. IInv => OwnerStays
    BY DEF IInv
  <1>2. QED
    BY <1>1, SpecIInv, PTL

\* An accepted invitation and a granted users.role are always preceded by a membership.
THEOREM GrantsAreBacked == Spec => []GrantsFollowMembership
  <1>1. IInv => GrantsFollowMembership
    BY DEF IInv
  <1>2. QED
    BY <1>1, SpecIInv, PTL
=============================================================================
