----------------------- MODULE JobApplications_proofs -----------------------
(***************************************************************************)
(* For every set of jobs, candidates, companies, requests and capacities:  *)
(* the counter is the number of applications, the row lock protects what a *)
(* create() transaction has read, and the handlers implement JobAdmission. *)
(***************************************************************************)
EXTENDS JobApplications, FiniteSetTheorems, TLAPS

\* A request in the middle of a handler works on an existing job row, and carries the
\* local variables its next steps read.
RequestsOnRows ==
  \A r \in Requests : pc[r] # "idle" =>
    /\ job[r] \in Jobs /\ Exists(job[r])
    /\ pc[r] \in ApplyPC => applicant[r] \in Candidates
    /\ pc[r] \in ApplyPC \cup {"duplicate_save"} => seen[r] \in Row

\* Past its capacity check a create() transaction knows a row with room left.
CheckedRowHasRoom ==
  \A r \in Requests : pc[r] \in {"lookup", "insert"} => ~Full(seen[r])

\* An identifier that is not in use has no applications.
AbsentJobIsEmpty == \A j \in Jobs : ~Exists(j) => applications[j] = {}

IInv == /\ TypeOK
        /\ RequestsOnRows
        /\ CheckedRowHasRoom
        /\ AbsentJobIsEmpty
        /\ CountMatchesApplications
        /\ LockedRowIsCurrent
        /\ LocksAreHeld

----------------------------------------------------------------------------
\* Admitting a new candidate makes the set of applicants of a job one larger.
LEMMA AddApplicant ==
  ASSUME NEW S \in SUBSET Candidates, NEW c \in Candidates, c \notin S
  PROVE  /\ Cardinality(S) \in Nat
         /\ Cardinality(S \cup {c}) = Cardinality(S) + 1
  <1>1. IsFiniteSet(S)
    BY ConstantsAssumption, FS_Subset
  <1>2. QED
    BY <1>1, FS_AddElement, FS_CardinalityType

\* What a request reads of a job row is a row.
LEMMA RowOfType ==
  ASSUME TypeOK, NEW j \in Jobs
  PROVE  RowOf(j) \in Row
  BY DEF TypeOK, RowOf, Row

\* The empty board: no rows, no locks, no requests in progress.
LEMMA InitIInv == Init => IInv
  <1> SUFFICES ASSUME Init PROVE IInv
    OBVIOUS
  <1>1. TypeOK
    BY ConstantsAssumption DEF Init, TypeOK, CompanyStatus, Status, Deadlines, NoDeadline, PC
  <1>2. CountMatchesApplications
    BY FS_EmptySet DEF Init, CountMatchesApplications
  <1>3. QED
    BY <1>1, <1>2 DEF Init, IInv, RequestsOnRows, CheckedRowHasRoom, AbsentJobIsEmpty,
       LockedRowIsCurrent, LocksAreHeld, ApplyPC

\* The first step of a handler: the locking SELECT of create(), an update, or a read.
LEMMA StartIInv ==
  ASSUME IInv, NEW r \in Requests, NEW j \in Jobs, Start(r, j)
  PROVE  IInv'
  <1> USE ConstantsAssumption DEF IInv
  <1>1. ASSUME NEW c \in Candidates, ApplyLock(r, j, c) PROVE IInv'
    <2>1. TypeOK'
      BY <1>1, RowOfType DEF ApplyLock, Begin, TypeOK, PC, ApplyPC, dbVars
    <2>2. RequestsOnRows' /\ CheckedRowHasRoom' /\ AbsentJobIsEmpty'
      BY <1>1, RowOfType DEF ApplyLock, Begin, TypeOK, PC, ApplyPC, dbVars, RequestsOnRows,
         CheckedRowHasRoom, AbsentJobIsEmpty, Exists
    <2>3. CountMatchesApplications'
      BY <1>1 DEF ApplyLock, dbVars, CountMatchesApplications
    <2>4. LockedRowIsCurrent' /\ LocksAreHeld'
      BY <1>1 DEF ApplyLock, Begin, Unlocked, TypeOK, ApplyPC, dbVars, RequestsOnRows,
         LockedRowIsCurrent, LocksAreHeld, RowOf
    <2>5. QED
      BY <2>1, <2>2, <2>3, <2>4
  <1>2. ASSUME NEW n \in CapacityInputs, NEW d \in Deadlines,
               NEW next \in {"idle", "publish", "close"}, UpdateJob(r, j, n, d, next)
        PROVE  IInv'
    <2>1. TypeOK' /\ RequestsOnRows' /\ CheckedRowHasRoom' /\ AbsentJobIsEmpty'
      BY <1>2 DEF UpdateJob, Begin, TypeOK, PC, ApplyPC, CapacityInputs, RequestsOnRows,
         CheckedRowHasRoom, AbsentJobIsEmpty, Exists, reqVars
    <2>2. CountMatchesApplications'
      BY <1>2 DEF UpdateJob, CountMatchesApplications
    <2>3. LockedRowIsCurrent' /\ LocksAreHeld'
      BY <1>2 DEF UpdateJob, Begin, Unlocked, TypeOK, ApplyPC, CapacityInputs, RequestsOnRows,
         LockedRowIsCurrent, LocksAreHeld, RowOf, reqVars
    <2>4. QED
      BY <2>1, <2>2, <2>3
  <1>3. ASSUME PublishRead(r, j) \/ ReopenRead(r, j) \/ DuplicateRead(r, j)
        PROVE  IInv'
    <2>1. TypeOK' /\ RequestsOnRows' /\ CheckedRowHasRoom' /\ AbsentJobIsEmpty'
      BY <1>3, RowOfType DEF PublishRead, ReopenRead, DuplicateRead, Publishable, Begin, TypeOK,
         PC, ApplyPC, dbVars, RequestsOnRows, CheckedRowHasRoom, AbsentJobIsEmpty, Exists
    <2>2. CountMatchesApplications'
      BY <1>3 DEF PublishRead, ReopenRead, DuplicateRead, dbVars, CountMatchesApplications
    <2>3. LockedRowIsCurrent' /\ LocksAreHeld'
      BY <1>3 DEF PublishRead, ReopenRead, DuplicateRead, Begin, TypeOK, ApplyPC, dbVars,
         RequestsOnRows, LockedRowIsCurrent, LocksAreHeld, RowOf
    <2>4. QED
      BY <2>1, <2>2, <2>3
  <1>4. QED
    BY <1>1, <1>2, <1>3 DEF Start

\* The steps of the create() transaction that decide, commit or roll back.
LEMMA ApplyIInv ==
  ASSUME IInv, NEW r \in Requests,
         ApplyCheck(r) \/ ApplyLookup(r) \/ ApplyInsert(r) \/ Rollback(r)
  PROVE  IInv'
  <1> USE ConstantsAssumption DEF IInv
  <1>1. CASE ApplyCheck(r) \/ ApplyLookup(r)
    <2>1. TypeOK' /\ RequestsOnRows' /\ CheckedRowHasRoom' /\ AbsentJobIsEmpty'
      BY <1>1 DEF ApplyCheck, Accepting, ApplyLookup, GoTo, TypeOK, PC, ApplyPC, dbVars,
         RequestsOnRows, CheckedRowHasRoom, AbsentJobIsEmpty, Exists
    <2>2. CountMatchesApplications'
      BY <1>1 DEF ApplyCheck, ApplyLookup, dbVars, CountMatchesApplications
    <2>3. LockedRowIsCurrent' /\ LocksAreHeld'
      BY <1>1 DEF ApplyCheck, ApplyLookup, GoTo, TypeOK, ApplyPC, dbVars, RequestsOnRows,
         LockedRowIsCurrent, LocksAreHeld, RowOf
    <2>4. QED
      BY <2>1, <2>2, <2>3
  <1>2. CASE ApplyInsert(r)
    <2>1. job[r] \in Jobs /\ applicant[r] \in Candidates /\ rowLock[job[r]] = r
      BY <1>2 DEF ApplyInsert, ApplyPC, RequestsOnRows, LockedRowIsCurrent
    <2>2. TypeOK' /\ RequestsOnRows' /\ CheckedRowHasRoom'
      BY <1>2, <2>1 DEF ApplyInsert, Finish, TypeOK, PC, ApplyPC, RequestsOnRows,
         CheckedRowHasRoom, Exists
    <2>3. AbsentJobIsEmpty'
      BY <1>2, <2>1 DEF ApplyInsert, TypeOK, ApplyPC, RequestsOnRows, AbsentJobIsEmpty, Exists
    <2>4. CountMatchesApplications'
      <3>1. /\ Cardinality(applications[job[r]]) \in Nat
            /\ Cardinality(applications[job[r]] \cup {applicant[r]})
                 = Cardinality(applications[job[r]]) + 1
        BY <1>2, <2>1, AddApplicant DEF ApplyInsert, TypeOK
      <3>2. QED
        BY <1>2, <2>1, <3>1 DEF ApplyInsert, TypeOK, CountMatchesApplications
    <2>5. LockedRowIsCurrent' /\ LocksAreHeld'
      BY <1>2, <2>1 DEF ApplyInsert, Finish, TypeOK, ApplyPC, RequestsOnRows,
         LockedRowIsCurrent, LocksAreHeld, RowOf
    <2>6. QED
      BY <2>2, <2>3, <2>4, <2>5
  <1>3. CASE Rollback(r)
    <2>1. TypeOK' /\ RequestsOnRows' /\ CheckedRowHasRoom' /\ AbsentJobIsEmpty'
      BY <1>3 DEF Rollback, Finish, TypeOK, PC, ApplyPC, dbVars, RequestsOnRows,
         CheckedRowHasRoom, AbsentJobIsEmpty, Exists
    <2>2. CountMatchesApplications'
      BY <1>3 DEF Rollback, dbVars, CountMatchesApplications
    <2>3. LockedRowIsCurrent' /\ LocksAreHeld'
      BY <1>3 DEF Rollback, Finish, TypeOK, ApplyPC, dbVars, RequestsOnRows,
         LockedRowIsCurrent, LocksAreHeld, RowOf
    <2>4. QED
      BY <2>1, <2>2, <2>3
  <1>4. QED
    BY <1>1, <1>2, <1>3

\* The status writes of publishJob, closeJob and reopenJob, stale or not, wait for the row lock.
LEMMA SaveIInv ==
  ASSUME IInv, NEW r \in Requests,
         PublishSave(r) \/ CloseAfterUpdate(r) \/ ReopenSave(r)
  PROVE  IInv'
  <1> USE ConstantsAssumption DEF IInv, PublishSave, CloseAfterUpdate, ReopenSave, SaveStatus
  <1>1. job[r] \in Jobs
    BY DEF RequestsOnRows
  <1>2. TypeOK' /\ RequestsOnRows' /\ CheckedRowHasRoom' /\ AbsentJobIsEmpty'
    BY <1>1 DEF Finish, TypeOK, Status, PC, ApplyPC, RequestsOnRows, CheckedRowHasRoom,
       AbsentJobIsEmpty, Exists
  <1>3. CountMatchesApplications'
    BY DEF CountMatchesApplications
  <1>4. LockedRowIsCurrent' /\ LocksAreHeld'
    BY <1>1 DEF Finish, Unlocked, TypeOK, ApplyPC, RequestsOnRows, LockedRowIsCurrent,
       LocksAreHeld, RowOf
  <1>5. QED
    BY <1>2, <1>3, <1>4

\* A new job row, of createJob or duplicateJob, has no applications and a counter of zero.
LEMMA InsertDraftIInv ==
  ASSUME IInv, NEW j \in Jobs, NEW n \in Capacities, NEW d \in Deadlines,
         InsertDraft(j, n, d, 0),
         \/ UNCHANGED reqVars
         \/ \E r \in Requests : pc[r] = "duplicate_save" /\ Finish(r)
  PROVE  IInv'
  <1> USE ConstantsAssumption DEF IInv, InsertDraft
  <1>1. TypeOK' /\ RequestsOnRows' /\ CheckedRowHasRoom' /\ AbsentJobIsEmpty'
    BY DEF Finish, TypeOK, Status, PC, ApplyPC, RequestsOnRows, CheckedRowHasRoom,
       AbsentJobIsEmpty, Exists, reqVars
  <1>2. CountMatchesApplications'
    BY FS_EmptySet DEF TypeOK, CountMatchesApplications, AbsentJobIsEmpty
  <1>3. LockedRowIsCurrent' /\ LocksAreHeld'
    BY DEF Finish, TypeOK, Exists, ApplyPC, RequestsOnRows, LockedRowIsCurrent, LocksAreHeld,
       RowOf, reqVars
  <1>4. QED
    BY <1>1, <1>2, <1>3

\* Steps of a request that touch no table and hold no lock.
LEMMA QuietIInv ==
  ASSUME IInv, NEW r \in Requests, pc[r] \notin ApplyPC,
         UNCHANGED <<now, dbVars, rowLock>>,
         \/ Finish(r)
         \/ GoTo(r, "publish", "publish_save")
  PROVE  IInv'
  <1> USE ConstantsAssumption DEF IInv
  <1>1. TypeOK' /\ RequestsOnRows' /\ CheckedRowHasRoom' /\ AbsentJobIsEmpty'
    BY DEF Finish, GoTo, TypeOK, PC, ApplyPC, dbVars, RequestsOnRows, CheckedRowHasRoom,
       AbsentJobIsEmpty, Exists
  <1>2. CountMatchesApplications'
    BY DEF dbVars, CountMatchesApplications
  <1>3. LockedRowIsCurrent' /\ LocksAreHeld'
    BY DEF Finish, GoTo, TypeOK, ApplyPC, dbVars, RequestsOnRows, LockedRowIsCurrent,
       LocksAreHeld, RowOf
  <1>4. QED
    BY <1>1, <1>2, <1>3

\* Closing a job, the status of a company and the passing of time.
LEMMA EnvironmentIInv ==
  ASSUME IInv,
         \/ \E j \in Jobs : CloseJob(j)
         \/ \E k \in Companies, s \in CompanyStatus : SetCompanyStatus(k, s)
         \/ Tick
         \/ UNCHANGED vars
  PROVE  IInv'
  <1> USE ConstantsAssumption
          DEF IInv, CloseJob, SaveStatus, SetCompanyStatus, Tick, vars, dbVars, reqVars
  <1>1. TypeOK' /\ RequestsOnRows' /\ CheckedRowHasRoom' /\ AbsentJobIsEmpty'
    BY DEF TypeOK, Status, RequestsOnRows, CheckedRowHasRoom, AbsentJobIsEmpty, Exists
  <1>2. CountMatchesApplications'
    BY DEF CountMatchesApplications
  <1>3. LockedRowIsCurrent' /\ LocksAreHeld'
    BY DEF Unlocked, TypeOK, ApplyPC, RequestsOnRows, LockedRowIsCurrent, LocksAreHeld, RowOf
  <1>4. QED
    BY <1>1, <1>2, <1>3

\* Every step of every handler preserves the inductive invariant.
LEMMA NextIInv == IInv /\ [Next]_vars => IInv'
  <1> SUFFICES ASSUME IInv, [Next]_vars PROVE IInv'
    OBVIOUS
  <1>1. ASSUME NEW r \in Requests, Continue(r) PROVE IInv'
    <2>1. CASE ApplyCheck(r) \/ ApplyLookup(r) \/ ApplyInsert(r) \/ ApplyReject(r)
      BY <2>1, ApplyIInv DEF ApplyReject
    <2>2. CASE PublishSave(r) \/ CloseAfterUpdate(r) \/ ReopenSave(r)
      BY <2>2, SaveIInv
    <2>3. CASE PublishReadAfterUpdate(r) \/ DuplicateOutOfIds(r)
      BY <2>3, QuietIInv DEF PublishReadAfterUpdate, DuplicateOutOfIds, ApplyPC
    <2>4. ASSUME NEW copy \in Jobs, DuplicateSave(r, copy) PROVE IInv'
      <3>1. seen[r].capacity \in Capacities /\ seen[r].applyBefore \in Deadlines
        BY <2>4 DEF DuplicateSave, IInv, RequestsOnRows, Row
      <3>2. QED
        BY <2>4, <3>1, InsertDraftIInv DEF DuplicateSave
    <2>5. QED
      BY <1>1, <2>1, <2>2, <2>3, <2>4 DEF Continue
  <1>2. ASSUME NEW r \in Requests, Crash(r) PROVE IInv'
    BY <1>2, ApplyIInv, QuietIInv DEF Crash
  <1>3. ASSUME NEW r \in Requests, NEW j \in Jobs, Start(r, j) PROVE IInv'
    BY <1>3, StartIInv
  <1>4. ASSUME NEW j \in Jobs, NEW n \in CapacityInputs, NEW d \in Deadlines, CreateJob(j, n, d)
        PROVE  IInv'
    BY <1>4, InsertDraftIInv DEF CreateJob, CapacityInputs
  <1>5. QED
    BY <1>1, <1>2, <1>3, <1>4, EnvironmentIInv DEF Next, CompanyStatusRoutes

\* The inductive invariant holds in every reachable state.
LEMMA SpecIInv == Spec => []IInv
  BY InitIInv, NextIInv, PTL DEF Spec

----------------------------------------------------------------------------
\* Every variable keeps its type: in particular the counter of a job never leaves the
\* naturals and its capacity is always one a company may ask for.
THEOREM TypeCorrect == Spec => []TypeOK
  <1>1. IInv => TypeOK
    BY DEF IInv
  <1>2. QED
    BY <1>1, SpecIInv, PTL

\* applications_count is the number of application rows of the job, for any number of
\* concurrent create(), updateJob, duplicateJob, rollbacks and crashes.
THEOREM CounterIsExact == Spec => []CountMatchesApplications
  <1>1. IInv => CountMatchesApplications
    BY DEF IInv
  <1>2. QED
    BY <1>1, SpecIInv, PTL

\* The row lock of create() protects everything it decides on until it commits.
THEOREM RowLockProtects == Spec => [](LockedRowIsCurrent /\ LocksAreHeld)
  <1>1. IInv => LockedRowIsCurrent /\ LocksAreHeld
    BY DEF IInv
  <1>2. QED
    BY <1>1, SpecIInv, PTL
----------------------------------------------------------------------------
(* Refinement: under IInv every step is a step of JobAdmission or a stutter. *)

\* The abstract specification counts applications with the same operator.
LEMMA SameCardinality == \A S : Admission!Cardinality(S) = Cardinality(S)
  BY DEF Cardinality, Admission!Cardinality

\* The commit of create() is an admission: the locked row proves that there is room.
LEMMA AdmitStep ==
  ASSUME IInv, NEW r \in Requests, ApplyInsert(r)
  PROVE  Admission!Admit(job[r], applicant[r])
  <1>1. /\ job[r] \in Jobs
        /\ status[job[r]] = "LIVE"
        /\ seen[r] \in Row
        /\ seen[r] = RowOf(job[r])
        /\ ~Full(seen[r])
    BY DEF IInv, ApplyInsert, ApplyPC, RequestsOnRows, LockedRowIsCurrent, CheckedRowHasRoom
  <1>2. count[job[r]] < capacity[job[r]]
    <2>1. ~(count[job[r]] >= capacity[job[r]])
      BY <1>1 DEF RowOf, Full
    <2>2. count[job[r]] \in Nat /\ capacity[job[r]] \in Nat
      BY <1>1, ConstantsAssumption DEF IInv, TypeOK
    <2>3. QED
      BY <2>1, <2>2
  <1>3. count[job[r]] = Cardinality(applications[job[r]])
    BY <1>1 DEF IInv, CountMatchesApplications
  <1>4. QED
    BY <1>1, <1>2, <1>3, SameCardinality DEF ApplyInsert, Admission!Admit

\* A job row that stays in use is managed by the company.
LEMMA ManageStep ==
  ASSUME NEW j \in Jobs, Exists(j),
         NEW s \in Status \ {"ABSENT"}, NEW n \in Capacities,
         status' = [status EXCEPT ![j] = s],
         capacity' = [capacity EXCEPT ![j] = n],
         UNCHANGED applications
  PROVE  Admission!Next
  BY DEF Exists, Status, Admission!Next, Admission!Manage, Admission!Status

\* A new job row is a creation, for an identifier nobody has applied to.
LEMMA CreateStep ==
  ASSUME IInv, NEW j \in Jobs, NEW n \in Capacities, NEW d \in Deadlines,
         InsertDraft(j, n, d, 0)
  PROVE  Admission!Next
  BY DEF IInv, AbsentJobIsEmpty, InsertDraft, Exists, Admission!Next, Admission!Create

\* A status write is a decision of the company about its posting.
LEMMA SaveStatusStep ==
  ASSUME IInv, NEW j \in Jobs, Exists(j), NEW s \in Status \ {"ABSENT"}, SaveStatus(j, s)
  PROVE  Admission!Next
  <1>1. capacity' = [capacity EXCEPT ![j] = capacity[j]] /\ capacity[j] \in Capacities
    BY DEF IInv, TypeOK, SaveStatus
  <1>2. QED
    BY <1>1, ManageStep DEF SaveStatus

\* Every step is a step of JobAdmission or changes nothing it sees.
LEMMA NextRefines == IInv /\ [Next]_vars => [Admission!Next]_Admission!vars
  <1> SUFFICES ASSUME IInv, [Next]_vars PROVE [Admission!Next]_Admission!vars
    OBVIOUS
  <1> USE DEF Admission!vars
  <1>1. ASSUME NEW r \in Requests, Continue(r) PROVE [Admission!Next]_Admission!vars
    <2>1. CASE ApplyCheck(r) \/ ApplyLookup(r) \/ ApplyReject(r) \/ PublishReadAfterUpdate(r)
               \/ DuplicateOutOfIds(r)
      BY <2>1 DEF ApplyCheck, ApplyLookup, ApplyReject, Rollback, PublishReadAfterUpdate,
         DuplicateOutOfIds, dbVars
    <2>2. CASE ApplyInsert(r)
      <3>1. job[r] \in Jobs /\ applicant[r] \in Candidates
        BY <2>2 DEF ApplyInsert, IInv, RequestsOnRows, ApplyPC
      <3>2. QED
        BY <2>2, <3>1, AdmitStep DEF Admission!Next
    <2>3. CASE PublishSave(r) \/ CloseAfterUpdate(r) \/ ReopenSave(r)
      <3>1. job[r] \in Jobs /\ Exists(job[r])
        BY <2>3 DEF PublishSave, CloseAfterUpdate, ReopenSave, IInv, RequestsOnRows
      <3>2. QED
        BY <2>3, <3>1, SaveStatusStep DEF PublishSave, CloseAfterUpdate, ReopenSave, Status
    <2>4. ASSUME NEW copy \in Jobs, DuplicateSave(r, copy) PROVE Admission!Next
      <3>1. seen[r].capacity \in Capacities /\ seen[r].applyBefore \in Deadlines
        BY <2>4 DEF DuplicateSave, IInv, RequestsOnRows, Row
      <3>2. QED
        BY <2>4, <3>1, CreateStep DEF DuplicateSave
    <2>5. QED
      BY <1>1, <2>1, <2>2, <2>3, <2>4 DEF Continue
  <1>2. ASSUME NEW r \in Requests, NEW j \in Jobs, Start(r, j)
        PROVE  [Admission!Next]_Admission!vars
    <2>1. ASSUME NEW n \in CapacityInputs, NEW d \in Deadlines,
                 NEW next \in {"idle", "publish", "close"}, UpdateJob(r, j, n, d, next)
          PROVE  Admission!Next
      <3>1. status' = [status EXCEPT ![j] = status[j]] /\ status[j] \in Status \ {"ABSENT"}
        BY <2>1 DEF UpdateJob, Exists, IInv, TypeOK
      <3>2. QED
        BY <2>1, <3>1, ManageStep DEF UpdateJob, CapacityInputs
    <2>2. CASE \/ \E c \in Candidates : ApplyLock(r, j, c)
               \/ PublishRead(r, j) \/ ReopenRead(r, j) \/ DuplicateRead(r, j)
      BY <2>2 DEF ApplyLock, PublishRead, ReopenRead, DuplicateRead, dbVars
    <2>3. QED
      BY <1>2, <2>1, <2>2 DEF Start
  <1>3. ASSUME NEW j \in Jobs, CloseJob(j) PROVE Admission!Next
    BY <1>3, SaveStatusStep DEF CloseJob, Status
  <1>4. ASSUME NEW j \in Jobs, NEW n \in CapacityInputs, NEW d \in Deadlines, CreateJob(j, n, d)
        PROVE  Admission!Next
    BY <1>4, CreateStep DEF CreateJob, CapacityInputs
  <1>5. CASE \/ \E r \in Requests : Crash(r)
             \/ \E k \in Companies, s \in CompanyStatus : SetCompanyStatus(k, s)
             \/ Tick
             \/ UNCHANGED vars
    BY <1>5 DEF Crash, Rollback, SetCompanyStatus, Tick, vars, dbVars
  <1>6. QED
    BY <1>1, <1>2, <1>3, <1>4, <1>5 DEF Next, CompanyStatusRoutes

\* The handlers of JobsService and ApplicationsService, with their locks, counters and
\* stale reads, implement the admission rule of JobAdmission.
THEOREM AdmissionRefined == Spec => ImplementsAdmission
  <1>1. Init => Admission!Init
    BY DEF Init, Admission!Init
  <1>2. QED
    BY <1>1, SpecIInv, NextRefines, PTL DEF Spec, ImplementsAdmission, Admission!Spec
=============================================================================
