------------------------- MODULE CompanyMembership -------------------------
(***************************************************************************)
(* CompaniesService: who belongs to which company, which company is a      *)
(* user's active one, and the invitations that bring users in.  Most       *)
(* handlers read, decide and save in separate statements with no           *)
(* transaction around them; Repository.save writes back every column in    *)
(* which the entity read earlier differs from the row, and inserts the row *)
(* again if it is gone.  What holds the tables together is UNIQUE(user_id, *)
(* company_id), the partial unique index on the active membership of a     *)
(* user, and the row locks of the one transaction that moves it.           *)
(***************************************************************************)
EXTENDS Naturals, FiniteSets

CONSTANTS Users, Companies, Invitations,
          Requests,      \* HTTP requests in progress, on any server process
          GrantedRoles,  \* the member roles that AddCompanyMemberDto lets through
          None           \* no founder, company, invitation, role or request

ASSUME MembershipAssumption ==
  /\ IsFiniteSet(Companies) /\ IsFiniteSet(Requests)
  /\ None \notin Users \cup Companies \cup Invitations \cup Requests
  /\ "COMPANY_OWNER" \notin GrantedRoles /\ "NONE" \notin GrantedRoles

VARIABLES
  founder,     \* the user whose create() made the company; None if it does not exist
  role,        \* [Users -> [Companies -> role of the membership row, or "NONE"]]
  rowId,       \* the id of that row, 0 if there is none
  active,      \* the companies of the rows with is_active
  userRole,    \* users.role
  invitation,  \* the invitation rows
  joined,      \* history: the companies each user has ever been a member of
  req          \* the await each request is at, with its local variables

tables == <<founder, role, rowId, active, userRole, invitation, joined>>
vars   == <<tables, req>>

MemberRoles == GrantedRoles \cup {"COMPANY_OWNER"}
RowIds == 0..Cardinality(Requests)

\* A "lapsed" invitation has status 'pending' in its row and an expires_at that has passed.
InvitationRow == [status: {"pending", "lapsed", "accepted", "revoked", "expired"},
                  company: Companies, user: Users, role: GrantedRoles]

ASSUME NoneIsNoInvitation == None \notin InvitationRow

Idle == [at |-> "idle"]

InTransaction == {"scan", "lock", "activate"}
Awaits == InTransaction \cup
  {"add_insert", "update_save", "retitle_save", "user_role",
   "invite_save", "accept_lookup", "accept_exist", "accept_insert", "accept_status",
   "expire_save", "revoke_save"}

Local == [at: Awaits, user: Users, company: Companies \cup {None}, role: MemberRoles,
          invitation: Invitations \cup {None}, isActive: BOOLEAN, id: RowIds,
          rows: SUBSET Companies]

TypeOK ==
  /\ founder \in [Companies -> Users \cup {None}]
  /\ role \in [Users -> [Companies -> MemberRoles \cup {"NONE"}]]
  /\ rowId \in [Users -> [Companies -> RowIds]]
  /\ active \in [Users -> SUBSET Companies]
  /\ userRole \in [Users -> GrantedRoles \cup {"AS_REGISTERED"}]
  /\ invitation \in [Invitations -> InvitationRow \cup {None}]
  /\ joined \in [Users -> SUBSET Companies]
  /\ req \in [Requests -> Local \cup {Idle}]

Init ==
  /\ founder = [k \in Companies |-> None]
  /\ role = [u \in Users |-> [k \in Companies |-> "NONE"]]
  /\ rowId = [u \in Users |-> [k \in Companies |-> 0]]
  /\ active = [u \in Users |-> {}]
  /\ userRole = [u \in Users |-> "AS_REGISTERED"]
  /\ invitation = [i \in Invitations |-> None]
  /\ joined = [u \in Users |-> {}]
  /\ req = [r \in Requests |-> Idle]

----------------------------------------------------------------------------
(* Rows *)

HasRow(u, k) == rowId[u][k] # 0
IsMember(u) == \E k \in Companies : HasRow(u, k)
Pending(i) == invitation[i] # None /\ invitation[i].status \in {"pending", "lapsed"}

\* An id no row of u in k has and no request remembers (uuid_generate_v4).
HeldIds(u, k) ==
  {req[q].id : q \in {q \in Requests : req[q].at \in {"update_save", "retitle_save"}
                                     /\ req[q].user = u /\ req[q].company = k}}
Fresh(u, k, id) == id \notin HeldIds(u, k) /\ \A j \in 1..(id - 1) : j \in HeldIds(u, k)

\* A transaction other than r's (any transaction, if r is None) has written the row and
\* not committed yet.
LockedAgainst(r, u, k) ==
  \E q \in Requests \ {r} :
    req[q].at = "activate" /\ req[q].user = u /\ k \in req[q].rows

\* Without IDX_company_members_one_active_per_user.
IndexAbsent(u, k, leaving) == TRUE

\* IDX_company_members_one_active_per_user admits (u, k) once the leaving rows are inactive.
IndexAllows(u, k, leaving) == active[u] \subseteq leaving \cup {k}

PutRow(u, k, ro, id, isActive) ==
  /\ role' = [role EXCEPT ![u][k] = ro]
  /\ rowId' = [rowId EXCEPT ![u][k] = id]
  /\ joined' = [joined EXCEPT ![u] = @ \cup {k}]
  /\ active' = [active EXCEPT ![u] = IF isActive THEN @ \cup {k} ELSE @ \ {k}]

SetStatus(i, s) == invitation' = [invitation EXCEPT ![i].status = s]

----------------------------------------------------------------------------
(* Steps of a request *)

Begin(r, label, u, k, ro, i, isActive, id) ==
  /\ req[r].at = "idle"
  /\ req' = [req EXCEPT ![r] =
       [at |-> label, user |-> u, company |-> k, role |-> ro, invitation |-> i,
        isActive |-> isActive, id |-> id, rows |-> {}]]
  /\ UNCHANGED tables

At(r, label) == req[r].at = label
Goto(r, label) == req' = [req EXCEPT ![r].at = label]

\* What is left to do is the users.role update; the other local variables are not read again.
GotoUserRole(r) ==
  req' = [req EXCEPT ![r].at = "user_role", ![r].company = None, ![r].invitation = None,
                     ![r].isActive = FALSE, ![r].id = 0]

Return(r) == req' = [req EXCEPT ![r] = Idle]

\* A statement fails (a unique constraint, a deadlock, a lost connection), a check
\* throws, or the process dies: an open transaction is rolled back, and what earlier
\* statements outside one have committed stays.
Fail(r) ==
  /\ ~At(r, "idle")
  /\ Return(r)
  /\ UNCHANGED tables

----------------------------------------------------------------------------
(* create, which findMine also calls for an owner without an active company, and
   switchActiveCompany: one transaction that deactivates, then activates *)

StartCreate(r, u) == Begin(r, "scan", u, None, "COMPANY_OWNER", None, FALSE, 0)

StartSwitch(r, u, k) ==
  /\ HasRow(u, k)
  /\ Begin(r, "scan", u, k, "COMPANY_OWNER", None, FALSE, 0)

\* UPDATE ... SET is_active = false locks the rows its snapshot finds active, or waits
\* for the transaction that has one of them locked.
Scan(r) ==
  LET u == req[r].user
      waits == \E k \in active[u] : LockedAgainst(r, u, k)
  IN
  /\ At(r, "scan")
  /\ req' = [req EXCEPT ![r].at = IF waits THEN "lock" ELSE "activate",
                         ![r].rows = active[u]]
  /\ UNCHANGED tables

\* A row it had to wait for is dropped if it is no longer active; one that has become
\* active since the snapshot is not seen.
Lock(r) ==
  LET u == req[r].user IN
  /\ At(r, "lock")
  /\ \A k \in req[r].rows : ~LockedAgainst(r, u, k)
  /\ req' = [req EXCEPT ![r].at = "activate", ![r].rows = @ \cap active[u]]
  /\ UNCHANGED tables

\* create() inserts the owner's row, active, and commits with the company.
CommitCreate(r, k) ==
  LET u == req[r].user IN
  /\ At(r, "activate") /\ req[r].company = None
  /\ founder[k] = None
  /\ IndexAllows(u, k, req[r].rows)
  /\ founder' = [founder EXCEPT ![k] = u]
  /\ role' = [role EXCEPT ![u][k] = "COMPANY_OWNER"]
  /\ rowId' = [rowId EXCEPT ![u][k] = 1]
  /\ joined' = [joined EXCEPT ![u] = @ \cup {k}]
  /\ active' = [active EXCEPT ![u] = (@ \ req[r].rows) \cup {k}]
  /\ Return(r)
  /\ UNCHANGED <<userRole, invitation>>

\* switchActiveCompany updates the target row, which may be gone, and commits.
CommitSwitch(r) ==
  LET u == req[r].user
      k == req[r].company
  IN
  /\ At(r, "activate") /\ k # None
  /\ ~LockedAgainst(r, u, k)
  /\ IF HasRow(u, k)
     THEN /\ IndexAllows(u, k, req[r].rows)
          /\ active' = [active EXCEPT ![u] = (@ \ req[r].rows) \cup {k}]
     ELSE active' = [active EXCEPT ![u] = @ \ req[r].rows]
  /\ Return(r)
  /\ UNCHANGED <<founder, role, rowId, userRole, invitation, joined>>

----------------------------------------------------------------------------
(* Members.  The caller is a member who may manage k; its owner always is. *)

\* users.role, the last statement of the handlers that grant a role.
SetUserRole(r) ==
  /\ At(r, "user_role")
  /\ userRole' = [userRole EXCEPT ![req[r].user] = req[r].role]
  /\ Return(r)
  /\ UNCHANGED <<founder, role, rowId, active, invitation, joined>>

AddLookup(r, u, k, ro) ==
  /\ founder[k] # None
  /\ ~IsMember(u)
  /\ Begin(r, "add_insert", u, k, ro, None, FALSE, 0)

AddInsert(r, id) ==
  LET u == req[r].user
      k == req[r].company
  IN
  /\ At(r, "add_insert")
  /\ ~HasRow(u, k)
  /\ Fresh(u, k, id)
  /\ PutRow(u, k, req[r].role, id, FALSE)
  /\ GotoUserRole(r)
  /\ UNCHANGED <<founder, userRole, invitation>>

\* updateMember that forgets whose role cannot be changed.
UpdateReadOwnerToo(r, u, k, ro) ==
  /\ HasRow(u, k)
  /\ IF ro = None
     THEN Begin(r, "retitle_save", u, k, role[u][k], None, k \in active[u], rowId[u][k])
     ELSE Begin(r, "update_save", u, k, ro, None, k \in active[u], rowId[u][k])

\* updateMember that does not tell an omitted role from a given one.
UpdateReadOmittedRole(r, u, k, ro) ==
  /\ HasRow(u, k) /\ role[u][k] # "COMPANY_OWNER"
  /\ Begin(r, "update_save", u, k, ro, None, k \in active[u], rowId[u][k])

\* updateMember reads the row, and lays the DTO over it: a title, a role or both.
UpdateRead(r, u, k, ro) ==
  /\ HasRow(u, k) /\ role[u][k] # "COMPANY_OWNER"
  /\ IF ro = None
     THEN Begin(r, "retitle_save", u, k, role[u][k], None, k \in active[u], rowId[u][k])
     ELSE Begin(r, "update_save", u, k, ro, None, k \in active[u], rowId[u][k])

\* It saves role and is_active as it has read them; a row removed meanwhile is
\* inserted again under its old id.
UpdateSave(r) ==
  LET u == req[r].user
      k == req[r].company
  IN
  /\ req[r].at \in {"update_save", "retitle_save"}
  /\ rowId[u][k] \in {0, req[r].id}
  /\ ~LockedAgainst(r, u, k)
  /\ req[r].isActive => IndexAllows(u, k, {})
  /\ PutRow(u, k, req[r].role, req[r].id, req[r].isActive)
  /\ IF At(r, "update_save") THEN GotoUserRole(r) ELSE Return(r)
  /\ UNCHANGED <<founder, userRole, invitation>>

RemoveMember(u, k) ==
  /\ HasRow(u, k) /\ role[u][k] # "COMPANY_OWNER"
  /\ ~LockedAgainst(None, u, k)
  /\ role' = [role EXCEPT ![u][k] = "NONE"]
  /\ rowId' = [rowId EXCEPT ![u][k] = 0]
  /\ active' = [active EXCEPT ![u] = @ \ {k}]
  /\ UNCHANGED <<founder, userRole, invitation, joined, req>>

----------------------------------------------------------------------------
(* Invitations.  addMember comes here when no account has the address as typed; the
   address may belong to an account all the same, now or later. *)

InviteLookup(r, u, k, ro) ==
  /\ founder[k] # None
  /\ \A i \in Invitations :
       Pending(i) => ~(invitation[i].company = k /\ invitation[i].user = u)
  /\ Begin(r, "invite_save", u, k, ro, None, FALSE, 0)

InviteSave(r, i) ==
  /\ At(r, "invite_save")
  /\ invitation[i] = None
  /\ invitation' = [invitation EXCEPT ![i] =
       [status |-> "pending", company |-> req[r].company, user |-> req[r].user,
        role |-> req[r].role]]
  /\ Return(r)
  /\ UNCHANGED <<founder, role, rowId, active, userRole, joined>>

\* Seven days pass.
Lapse(i) ==
  /\ invitation[i] # None /\ invitation[i].status = "pending"
  /\ SetStatus(i, "lapsed")
  /\ UNCHANGED <<founder, role, rowId, active, userRole, joined, req>>

\* acceptInvitation and revokeInvitation read a pending row.
OpenInvitation(r, i, label) ==
  Begin(r, label, invitation[i].user, invitation[i].company, invitation[i].role, i, FALSE, 0)

AcceptRead(r, i) ==
  /\ Pending(i)
  /\ IF invitation[i].status = "lapsed" THEN OpenInvitation(r, i, "expire_save")
                                       ELSE OpenInvitation(r, i, "accept_lookup")

RevokeRead(r, i) == Pending(i) /\ OpenInvitation(r, i, "revoke_save")

\* acceptInvitation that settles the invitation and leaves the membership for later.
AcceptLookupStatusFirst(r) ==
  /\ At(r, "accept_lookup")
  /\ Goto(r, "accept_status")
  /\ UNCHANGED tables

AcceptLookup(r) ==
  /\ At(r, "accept_lookup")
  /\ IF HasRow(req[r].user, req[r].company) THEN Goto(r, "accept_status")
                                            ELSE Goto(r, "accept_exist")
  /\ UNCHANGED tables

AcceptExist(r) ==
  /\ At(r, "accept_exist")
  /\ req' = [req EXCEPT ![r].at = "accept_insert", ![r].isActive = ~IsMember(req[r].user)]
  /\ UNCHANGED tables

AcceptInsert(r, id) ==
  LET u == req[r].user
      k == req[r].company
  IN
  /\ At(r, "accept_insert")
  /\ ~HasRow(u, k)
  /\ Fresh(u, k, id)
  /\ req[r].isActive => IndexAllows(u, k, {})
  /\ PutRow(u, k, req[r].role, id, req[r].isActive)
  /\ req' = [req EXCEPT ![r].at = "accept_status", ![r].isActive = FALSE]
  /\ UNCHANGED <<founder, userRole, invitation>>

\* The status is saved whatever it has become since it was read.
SaveStatus(r) ==
  \/ /\ At(r, "accept_status")
     /\ SetStatus(req[r].invitation, "accepted")
     /\ GotoUserRole(r)
     /\ UNCHANGED <<founder, role, rowId, active, userRole, joined>>
  \/ /\ At(r, "revoke_save")
     /\ SetStatus(req[r].invitation, "revoked")
     /\ Return(r)
     /\ UNCHANGED <<founder, role, rowId, active, userRole, joined>>
  \/ /\ At(r, "expire_save")
     /\ SetStatus(req[r].invitation, "expired")
     /\ Return(r)
     /\ UNCHANGED <<founder, role, rowId, active, userRole, joined>>

----------------------------------------------------------------------------
Continue(r) ==
  \/ Scan(r) \/ Lock(r) \/ (\E k \in Companies : CommitCreate(r, k)) \/ CommitSwitch(r)
  \/ (\E id \in RowIds \ {0} : AddInsert(r, id) \/ AcceptInsert(r, id))
  \/ UpdateSave(r) \/ SetUserRole(r)
  \/ (\E i \in Invitations : InviteSave(r, i))
  \/ AcceptLookup(r) \/ AcceptExist(r) \/ SaveStatus(r)
  \/ Fail(r)

CompanyRoutes(r) ==
  \/ \E u \in Users : StartCreate(r, u)
  \/ \E u \in Users, k \in Companies : StartSwitch(r, u, k)

MemberRoutes(r) ==
  \/ \E u \in Users, k \in Companies, ro \in GrantedRoles :
       AddLookup(r, u, k, ro) \/ InviteLookup(r, u, k, ro)
  \/ \E u \in Users, k \in Companies, ro \in GrantedRoles \cup {None} :
       UpdateRead(r, u, k, ro)
  \/ \E i \in Invitations : AcceptRead(r, i) \/ RevokeRead(r, i)

Start(r) == CompanyRoutes(r) \/ MemberRoutes(r)

Next ==
  \/ \E r \in Requests : Start(r) \/ Continue(r)
  \/ \E u \in Users, k \in Companies : RemoveMember(u, k)
  \/ \E i \in Invitations : Lapse(i)

Spec == Init /\ [][Next]_vars

----------------------------------------------------------------------------
(* Properties *)

\* At most one membership of a user is active, which findMine and JobsService.membership
\* rely on to pick the company a request acts for: whatever creations, switches,
\* acceptances and stale saves run at once.
OneActiveCompany == \A u \in Users : Cardinality(active[u]) <= 1

\* Every company keeps the owner who created it, so that somebody can manage it: no
\* update, removal or acceptance, with the role check made before an await and the
\* write after it, costs it that membership or adds a second owner.
OwnerStays ==
  \A k \in Companies, u \in Users : role[u][k] = "COMPANY_OWNER" <=> founder[k] = u

\* An invitation counts as accepted, and users.role follows a grant, only after the
\* membership has existed: a failure between the three statements of acceptInvitation,
\* or of addMember, never leaves the grant without the membership.
GrantsFollowMembership ==
  /\ \A i \in Invitations : invitation[i] # None /\ invitation[i].status = "accepted" =>
       invitation[i].company \in joined[invitation[i].user]
  /\ \A u \in Users : userRole[u] # "AS_REGISTERED" => joined[u] # {}

\* createInvitation answers 'A pending invitation already exists' to a second one for
\* the same address and company.
OnePendingInvitation ==
  \A i, j \in Invitations :
    i # j /\ Pending(i) /\ Pending(j) =>
      <<invitation[i].company, invitation[i].user>> # <<invitation[j].company, invitation[j].user>>
=============================================================================
