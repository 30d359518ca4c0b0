-------------------------- MODULE JobApplications --------------------------
(***************************************************************************)
(* Job postings and the applications they receive: JobsService and         *)
(* ApplicationsService.create over PostgreSQL at READ COMMITTED.           *)
(*                                                                         *)
(* A request is a process that runs one handler at a time; every await is  *)
(* a point where other requests run, so a handler is a sequence of steps   *)
(* and what it read before an await may be stale after it.  The one row    *)
(* lock in this code, SELECT ... FOR UPDATE on the job in create(), is     *)
(* rowLock; a plain UPDATE of the row waits for it.                        *)
(***************************************************************************)
EXTENDS Naturals, FiniteSets

CONSTANTS Jobs,        \* identifiers of job rows, in use or not yet
          Candidates,  \* users who may apply
          Companies,
          CompanyOf,   \* the company_id of each job
          Requests,    \* HTTP requests in progress, on any server process
          Capacities,  \* the capacities that companies ask for
          MaxTime,     \* bound on the clock
          None         \* no job, candidate, row or lock holder

ASSUME ConstantsAssumption ==
  /\ CompanyOf \in [Jobs -> Companies]
  /\ Capacities \subseteq Nat \ {0} /\ Capacities # {}
  /\ IsFiniteSet(Candidates)
  /\ MaxTime \in Nat
  /\ None \notin Requests \cup Jobs \cup Candidates

NoDeadline == 0
Deadlines == 0..MaxTime

Status == {"ABSENT", "DRAFT", "LIVE", "CLOSED"}
CompanyStatus == {"active", "deactivated", "deletion_scheduled"}

VARIABLES
  now,            \* the clock the handlers compare apply_before with
  companyStatus,  \* [Companies -> CompanyStatus]
  status,         \* [Jobs -> Status]; "ABSENT" is an identifier not in use
  capacity,       \* [Jobs -> Capacities]
  applyBefore,    \* [Jobs -> Deadlines]
  count,          \* jobs.applications_count
  applications,   \* [Jobs -> SUBSET Candidates], UNIQUE(job_id, candidate_id)
  rowLock,        \* the request that holds the lock of each job row
  pc,             \* the await each request is at
  job,            \* the job each request works on
  applicant,      \* the candidate of a create() request
  seen            \* the job row each request goes on with

dbVars  == <<companyStatus, status, capacity, applyBefore, count, applications>>
reqVars == <<pc, job, applicant, seen>>
vars    == <<now, dbVars, rowLock, reqVars>>

Row == [capacity: Capacities, applyBefore: Deadlines, count: Nat]
RowOf(j) == [capacity |-> capacity[j], applyBefore |-> applyBefore[j],
             count |-> count[j]]

ApplyPC == {"company", "lookup", "insert"}
PC == ApplyPC \cup {"idle", "publish", "publish_save", "close", "reopen_save",
                    "duplicate_save"}

Exists(j) == status[j] # "ABSENT"
Unlocked(j) == rowLock[j] = None
Passed(deadline) == deadline # NoDeadline /\ deadline <= now

\* An off-by-one in the capacity check.
FullOffByOne(row) == row.count > row.capacity

Full(row) == row.count >= row.capacity

TypeOK ==
  /\ now \in 0..MaxTime
  /\ companyStatus \in [Companies -> CompanyStatus]
  /\ status \in [Jobs -> Status]
  /\ capacity \in [Jobs -> Capacities]
  /\ applyBefore \in [Jobs -> Deadlines]
  /\ count \in [Jobs -> Nat]
  /\ applications \in [Jobs -> SUBSET Candidates]
  /\ rowLock \in [Jobs -> Requests \cup {None}]
  /\ pc \in [Requests -> PC]
  /\ job \in [Requests -> Jobs \cup {None}]
  /\ applicant \in [Requests -> Candidates \cup {None}]
  /\ seen \in [Requests -> Row \cup {None}]

Init ==
  /\ now = 0
  /\ companyStatus = [k \in Companies |-> "active"]
  /\ status = [j \in Jobs |-> "ABSENT"]
  /\ \E n \in Capacities : capacity = [j \in Jobs |-> n]
  /\ applyBefore = [j \in Jobs |-> NoDeadline]
  /\ count = [j \in Jobs |-> 0]
  /\ applications = [j \in Jobs |-> {}]
  /\ rowLock = [j \in Jobs |-> None]
  /\ pc = [r \in Requests |-> "idle"]
  /\ job = [r \in Requests |-> None]
  /\ applicant = [r \in Requests |-> None]
  /\ seen = [r \in Requests |-> None]

----------------------------------------------------------------------------
(* Steps of a request *)

Begin(r, label, j, c, row) ==
  /\ pc[r] = "idle"
  /\ pc' = [pc EXCEPT ![r] = label]
  /\ job' = [job EXCEPT ![r] = j]
  /\ applicant' = [applicant EXCEPT ![r] = c]
  /\ seen' = [seen EXCEPT ![r] = row]

GoTo(r, from, to) ==
  /\ pc[r] = from
  /\ pc' = [pc EXCEPT ![r] = to]
  /\ UNCHANGED <<job, applicant, seen>>

\* The handler returns or throws; its local variables are gone.
Finish(r) ==
  /\ pc' = [pc EXCEPT ![r] = "idle"]
  /\ job' = [job EXCEPT ![r] = None]
  /\ applicant' = [applicant EXCEPT ![r] = None]
  /\ seen' = [seen EXCEPT ![r] = None]

\* UPDATE jobs SET status = s: waits while a transaction holds the row lock.
SaveStatus(j, s) ==
  /\ Unlocked(j)
  /\ status' = [status EXCEPT ![j] = s]
  /\ UNCHANGED <<now, companyStatus, capacity, applyBefore, count, applications, rowLock>>

\* INSERT of a job row as a draft.
InsertDraft(j, n, d, k) ==
  /\ ~Exists(j)
  /\ status' = [status EXCEPT ![j] = "DRAFT"]
  /\ capacity' = [capacity EXCEPT ![j] = n]
  /\ applyBefore' = [applyBefore EXCEPT ![j] = d]
  /\ count' = [count EXCEPT ![j] = k]
  /\ UNCHANGED <<now, companyStatus, applications, rowLock>>

----------------------------------------------------------------------------
(* ApplicationsService.create *)

\* The same SELECT without its lock clause.
ApplyLockPlainRead(r, j, c) ==
  /\ status[j] = "LIVE"
  /\ Begin(r, "company", j, c, RowOf(j))
  /\ UNCHANGED <<now, dbVars, rowLock>>

\* The transaction locks the job row and goes on only if the job is live.
ApplyLock(r, j, c) ==
  /\ Unlocked(j)
  /\ status[j] = "LIVE"
  /\ rowLock' = [rowLock EXCEPT ![j] = r]
  /\ Begin(r, "company", j, c, RowOf(j))
  /\ UNCHANGED <<now, dbVars>>

\* What create() requires of the company it reads without a lock and then, with no
\* await in between, of the deadline and the capacity of the row it has locked.
Accepting(r) ==
  /\ companyStatus[CompanyOf[job[r]]] = "active"
  /\ ~Passed(seen[r].applyBefore)
  /\ ~Full(seen[r])

ApplyCheck(r) ==
  /\ pc[r] = "company"
  /\ Accepting(r)
  /\ GoTo(r, "company", "lookup")
  /\ UNCHANGED <<now, dbVars, rowLock>>

\* No earlier application of this candidate; the profile, the resume and the first
\* pipeline stage are read here too.
ApplyLookup(r) ==
  /\ pc[r] = "lookup"
  /\ applicant[r] \notin applications[job[r]]
  /\ GoTo(r, "lookup", "insert")
  /\ UNCHANGED <<now, dbVars, rowLock>>

\* The row is inserted (UNIQUE(job_id, candidate_id) permitting), the counter is
\* incremented in SQL, and the commit releases the lock.
ApplyInsert(r) ==
  /\ pc[r] = "insert"
  /\ applicant[r] \notin applications[job[r]]
  /\ applications' = [applications EXCEPT ![job[r]] = @ \cup {applicant[r]}]
  /\ count' = [count EXCEPT ![job[r]] = @ + 1]
  /\ rowLock' = [rowLock EXCEPT ![job[r]] = None]
  /\ Finish(r)
  /\ UNCHANGED <<now, companyStatus, status, capacity, applyBefore>>

Rollback(r) ==
  /\ pc[r] \in ApplyPC
  /\ rowLock' = [rowLock EXCEPT ![job[r]] = None]
  /\ Finish(r)
  /\ UNCHANGED <<now, dbVars>>

\* A rollback that does not give its connection back: the lock stays.
ApplyRejectLeak(r) ==
  /\ pc[r] \in ApplyPC
  /\ pc[r] = "company" => ~Accepting(r)
  /\ Finish(r)
  /\ UNCHANGED <<now, dbVars, rowLock>>

\* A check fails and the transaction rolls back.  Past the capacity check that is a
\* candidate who has already applied, who has no profile or names a foreign resume,
\* or an insert PostgreSQL refuses because the stage read before it is gone.
ApplyReject(r) ==
  /\ pc[r] \in ApplyPC
  /\ pc[r] = "company" => ~Accepting(r)
  /\ Rollback(r)

----------------------------------------------------------------------------
(* JobsService *)

\* The values the DTO would let through without its @Min(1).
CapacityInputsUnvalidated == Capacities \cup {0}

\* @Min(1) on capacity.
CapacityInputs == Capacities

CreateJob(j, n, d) ==
  /\ InsertDraft(j, n, d, 0)
  /\ UNCHANGED reqVars

\* updateJob: the scalar columns in a transaction of their own; only after it has
\* committed does a status of LIVE or CLOSED go through publishJob or closeJob.
UpdateJob(r, j, n, d, next) ==
  /\ Exists(j)
  /\ Unlocked(j)
  /\ capacity' = [capacity EXCEPT ![j] = n]
  /\ applyBefore' = [applyBefore EXCEPT ![j] = d]
  /\ IF next = "idle" THEN pc[r] = "idle" /\ UNCHANGED reqVars
                      ELSE Begin(r, next, j, None, None)
  /\ UNCHANGED <<now, companyStatus, status, count, applications, rowLock>>

\* publishJob reads the row and checks it, without a lock ...
Publishable(j) == status[j] \in {"DRAFT", "LIVE"} /\ ~Passed(applyBefore[j])

PublishRead(r, j) ==
  /\ Publishable(j)
  /\ Begin(r, "publish_save", j, None, None)
  /\ UNCHANGED <<now, dbVars, rowLock>>

PublishReadAfterUpdate(r) ==
  /\ pc[r] = "publish"
  /\ IF Publishable(job[r]) THEN GoTo(r, "publish", "publish_save") ELSE Finish(r)
  /\ UNCHANGED <<now, dbVars, rowLock>>

\* ... and then sets it live, whatever it has become.
PublishSave(r) ==
  /\ pc[r] = "publish_save"
  /\ SaveStatus(job[r], "LIVE")
  /\ Finish(r)

\* closeJob and deleteJob: whatever the status.
CloseJob(j) ==
  /\ Exists(j)
  /\ SaveStatus(j, "CLOSED")
  /\ UNCHANGED reqVars

CloseAfterUpdate(r) ==
  /\ pc[r] = "close"
  /\ SaveStatus(job[r], "CLOSED")
  /\ Finish(r)

ReopenRead(r, j) ==
  /\ status[j] = "CLOSED"
  /\ Begin(r, "reopen_save", j, None, None)
  /\ UNCHANGED <<now, dbVars, rowLock>>

ReopenSave(r) ==
  /\ pc[r] = "reopen_save"
  /\ SaveStatus(job[r], "DRAFT")
  /\ Finish(r)

DuplicateRead(r, j) ==
  /\ Exists(j)
  /\ Begin(r, "duplicate_save", j, None, RowOf(j))
  /\ UNCHANGED <<now, dbVars, rowLock>>

\* The copy keeps the counter it has copied.
DuplicateSaveKeepCount(r, copy) ==
  /\ pc[r] = "duplicate_save"
  /\ InsertDraft(copy, seen[r].capacity, seen[r].applyBefore, seen[r].count)
  /\ Finish(r)

\* The copy is a draft with a counter of its own.
DuplicateSave(r, copy) ==
  /\ pc[r] = "duplicate_save"
  /\ InsertDraft(copy, seen[r].capacity, seen[r].applyBefore, 0)
  /\ Finish(r)

\* A bound of the model: every identifier of the instance is in use.
DuplicateOutOfIds(r) ==
  /\ pc[r] = "duplicate_save"
  /\ \A j \in Jobs : Exists(j)
  /\ Finish(r)
  /\ UNCHANGED <<now, dbVars, rowLock>>

----------------------------------------------------------------------------
(* CompaniesService.deactivate, reactivate and scheduleDeletion *)

SetCompanyStatus(k, s) ==
  /\ companyStatus' = [companyStatus EXCEPT ![k] = s]
  /\ UNCHANGED <<now, status, capacity, applyBefore, count, applications, rowLock, reqVars>>

----------------------------------------------------------------------------
(* The environment *)

Tick ==
  /\ now < MaxTime
  /\ now' = now + 1
  /\ UNCHANGED <<dbVars, rowLock, reqVars>>

\* The server process or its database connection dies in the middle of a handler:
\* PostgreSQL rolls an open transaction back.
Crash(r) ==
  \/ Rollback(r)
  \/ /\ pc[r] \notin ApplyPC \cup {"idle"}
     /\ Finish(r)
     /\ UNCHANGED <<now, dbVars, rowLock>>

----------------------------------------------------------------------------
\* What a request does on its own once its handler has started.
Continue(r) ==
  \/ ApplyCheck(r) \/ ApplyLookup(r) \/ ApplyInsert(r) \/ ApplyReject(r)
  \/ PublishReadAfterUpdate(r) \/ PublishSave(r)
  \/ CloseAfterUpdate(r) \/ ReopenSave(r)
  \/ \E copy \in Jobs : DuplicateSave(r, copy)
  \/ DuplicateOutOfIds(r)

Start(r, j) ==
  \/ \E c \in Candidates : ApplyLock(r, j, c)
  \/ \E n \in CapacityInputs, d \in Deadlines, next \in {"idle", "publish", "close"} :
       UpdateJob(r, j, n, d, next)
  \/ PublishRead(r, j) \/ ReopenRead(r, j) \/ DuplicateRead(r, j)

CompanyStatusRoutes == \E k \in Companies, s \in CompanyStatus : SetCompanyStatus(k, s)

Next ==
  \/ \E r \in Requests : Continue(r) \/ Crash(r)
  \/ \E r \in Requests, j \in Jobs : Start(r, j)
  \/ \E j \in Jobs : CloseJob(j)
  \/ \E j \in Jobs, n \in CapacityInputs, d \in Deadlines : CreateJob(j, n, d)
  \/ CompanyStatusRoutes
  \/ Tick

Spec == Init /\ [][Next]_vars

----------------------------------------------------------------------------
(* Properties *)

\* The applications_count column that create() compares with the capacity, and that
\* companyStats() sums, is the number of application rows of the job, whatever
\* requests interleave, roll back or die, and also for a duplicated job.
CountMatchesApplications ==
  \A j \in Jobs : count[j] = Cardinality(applications[j])

\* A create() transaction between its SELECT ... FOR UPDATE and its commit decides on
\* a row nobody else can change: the row it read is still the row, and live.
LockedRowIsCurrent ==
  \A r \in Requests : pc[r] \in ApplyPC =>
    /\ rowLock[job[r]] = r
    /\ status[job[r]] = "LIVE"
    /\ seen[r] = RowOf(job[r])

\* Nobody holds a row lock except a create() transaction in progress on that row.
LocksAreHeld ==
  \A j \in Jobs : rowLock[j] # None =>
    pc[rowLock[j]] \in ApplyPC /\ job[rowLock[j]] = j

\* The counters, locks and stale reads of the handlers add up to JobAdmission: every
\* application is admitted to a live job, once per candidate, below the capacity then
\* in force by the true number of applications.
Admission == INSTANCE JobAdmission WITH admitted <- applications
ImplementsAdmission == Admission!Spec

\* The error message of publishJob: closed jobs must be reopened before publishing.
ClosedJobIsNotPublished ==
  [][\A j \in Jobs : status[j] = "CLOSED" => status'[j] # "LIVE"]_vars

----------------------------------------------------------------------------
(* Liveness: Node runs the continuation of every await that settles, and PostgreSQL
   queues the waiters of a row lock, so a waiting UPDATE is not overtaken forever. *)

FairSpec == Spec /\ \A r \in Requests : SF_vars(Continue(r))

\* Every handler ends: no request waits forever for a row lock, because every
\* transaction that holds one commits, rolls back or dies.
RequestsFinish == \A r \in Requests : pc[r] # "idle" ~> pc[r] = "idle"
=============================================================================
