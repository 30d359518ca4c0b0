--------------------------- MODULE HiringPipeline ---------------------------
(***************************************************************************)
(* The stages of a company's hiring pipeline, and the applications that    *)
(* move through them: PipelineStagesService, the stage that                *)
(* ApplicationsService.create gives a new application, and updateStage.    *)
(* A stage is checked before the transaction that uses it, and may be      *)
(* renamed or deleted meanwhile; what holds the two tables together is the *)
(* foreign key applications.stage_id ON DELETE SET NULL, with the row      *)
(* locks it takes, and UNIQUE(company_id, name).                           *)
(***************************************************************************)
EXTENDS Naturals, FiniteSets

CONSTANTS Companies,
          Applications,  \* identifiers of application rows, in use or not yet
          CompanyOf,     \* the company of the job of each application
          Stages,        \* identifiers of stage rows (uuid: never used twice)
          Names,         \* stage names
          DefaultNames,  \* DEFAULT_PIPELINE_STAGES
          FirstName,     \* the first of them
          Requests,      \* HTTP requests in progress, on any server process
          MaxMoves,      \* bound on the history rows of an application
          None           \* no stage row, stage id, application or name

ASSUME PipelineAssumption ==
  /\ CompanyOf \in [Applications -> Companies]
  /\ DefaultNames \subseteq Names /\ FirstName \in DefaultNames
  /\ MaxMoves \in Nat
  /\ None \notin Stages \cup Applications \cup Names \cup [company: Companies, name: Names]

VARIABLES
  stage,    \* [Stages -> the stage row, or None]
  used,     \* the stage ids that have been used
  applied,  \* the applications whose row exists
  placed,   \* [Applications -> applications.stage_id]
  history,  \* [Applications -> number of rows in application_stage_history]
  req       \* the await each request is at, with its local variables

tables == <<stage, used, applied, placed, history>>
vars   == <<tables, req>>

Row == [company: Companies, name: Names]

Idle == [at |-> "idle"]

Awaits == {"get_check", "get_insert", "put_lock", "put_write", "move_update", "move_commit",
           "apply_insert"}

\* company, app, stage: what the request works on; doomed: the rows its DELETE has found;
\* name: the name it gives to the row stage, or to a new row if stage is None.
Local == [at: Awaits, company: Companies, app: Applications \cup {None},
          stage: Stages \cup {None}, name: Names \cup {None}, doomed: SUBSET Stages]

TypeOK ==
  /\ stage \in [Stages -> Row \cup {None}]
  /\ used \in SUBSET Stages
  /\ applied \in SUBSET Applications
  /\ placed \in [Applications -> Stages \cup {None}]
  /\ history \in [Applications -> 0..MaxMoves]
  /\ req \in [Requests -> Local \cup {Idle}]

Init ==
  /\ stage = [s \in Stages |-> None]
  /\ used = {}
  /\ applied = {}
  /\ placed = [a \in Applications |-> None]
  /\ history = [a \in Applications |-> 0]
  /\ req = [r \in Requests |-> Idle]

----------------------------------------------------------------------------
(* Rows and locks *)

StagesOf(k) == {s \in Stages : stage[s] # None /\ stage[s].company = k}
NamesOf(k, rows) == {stage[s].name : s \in StagesOf(k) \cap rows}

\* Stage rows whose deletion another transaction has not committed yet.
DoomedByOthers(r) ==
  UNION {req[q].doomed : q \in {q \in Requests \ {r} : req[q].at = "put_write"}}

\* Applications that another transaction has moved, and the stages it has moved them to
\* (FOR KEY SHARE), until it commits.
MovedByOthers(r) ==
  {req[q].app : q \in {q \in Requests \ {r} : req[q].at = "move_commit"}}
SharedByOthers(r) ==
  {req[q].stage : q \in {q \in Requests \ {r} : req[q].at = "move_commit"}}

In(rows) == {a \in applied : placed[a] \in rows}

----------------------------------------------------------------------------
(* Steps of a request *)

Begin(r, label, k, a, s, n, rows) ==
  /\ req[r].at = "idle"
  /\ req' = [req EXCEPT ![r] = [at |-> label, company |-> k, app |-> a, stage |-> s,
                                name |-> n, doomed |-> rows]]
  /\ UNCHANGED tables

At(r, label) == req[r].at = label
Goto(r, label) == req' = [req EXCEPT ![r].at = label] /\ UNCHANGED tables
Return(r) == req' = [req EXCEPT ![r] = Idle]

\* A constraint is violated, PostgreSQL breaks a deadlock, or the process dies: the open
\* transaction is rolled back.
Fail(r) == ~At(r, "idle") /\ Return(r) /\ UNCHANGED tables

----------------------------------------------------------------------------
(* getCompanyStages *)

\* No stages: it looks again inside a transaction.
GetRead(r, k) == StagesOf(k) = {} /\ Begin(r, "get_check", k, None, None, None, {})

GetCheck(r) ==
  /\ At(r, "get_check")
  /\ IF StagesOf(req[r].company) = {} THEN Goto(r, "get_insert")
                                      ELSE Return(r) /\ UNCHANGED tables

FreshIds == {f \in [DefaultNames -> Stages \ used] :
               \A m, n \in DefaultNames : f[m] = f[n] => m = n}

\* The insert of the default stages, without UNIQUE(company_id, name).
GetInsertNoUnique(r, f) ==
  LET k == req[r].company IN
  /\ At(r, "get_insert")
  /\ \A a \in MovedByOthers(r) : placed[a] = None => CompanyOf[a] # k
  /\ stage' = [s \in Stages |-> IF \E n \in DefaultNames : f[n] = s
                               THEN [company |-> k, name |-> CHOOSE n \in DefaultNames : f[n] = s]
                               ELSE stage[s]]
  /\ used' = used \cup {f[n] : n \in DefaultNames}
  /\ placed' = [a \in Applications |->
       IF a \in applied /\ placed[a] = None /\ CompanyOf[a] = k THEN f[FirstName] ELSE placed[a]]
  /\ Return(r)
  /\ UNCHANGED <<applied, history>>

\* Insert the default stages, put the applications without a stage into the first one,
\* and commit.
GetInsert(r, f) ==
  /\ At(r, "get_insert") /\ NamesOf(req[r].company, Stages) \cap DefaultNames = {}
  /\ GetInsertNoUnique(r, f)

----------------------------------------------------------------------------
(* updateCompanyStages: one transaction that deletes the stages the list leaves out and
   then updates or inserts, bounded here to one name given per request *)

\* DELETE ... WHERE company_id = k AND id NOT IN (list) finds its rows ...
PutScan(r, k, list, s, n) ==
  Begin(r, "put_lock", k, None, s, n, StagesOf(k) \ list)

\* ... and waits for the transactions that have them, or the applications in them, locked.
PutLock(r) ==
  LET rows == req[r].doomed \cap {s \in Stages : stage[s] # None} IN
  /\ At(r, "put_lock")
  /\ rows \cap (DoomedByOthers(r) \cup SharedByOthers(r)) = {}
  /\ In(rows) \cap MovedByOthers(r) = {}
  /\ req' = [req EXCEPT ![r].at = "put_write", ![r].doomed = rows]
  /\ UNCHANGED tables

\* What the commit leaves of the doomed rows: applications.stage_id is ON DELETE SET NULL.
Remaining(r) == [s \in Stages |-> IF s \in req[r].doomed THEN None ELSE stage[s]]
Delete(r) ==
  /\ placed' = [a \in Applications |-> IF placed[a] \in req[r].doomed THEN None ELSE placed[a]]
  /\ Return(r)
  /\ UNCHANGED <<applied, history>>

\* Delete, rename and commit.  The UPDATE names the row by its id alone.
PutRename(r) ==
  LET s == req[r].stage
      rows == Remaining(r)
  IN
  /\ At(r, "put_write") /\ s # None
  /\ s \notin DoomedByOthers(r) \cup SharedByOthers(r)
  /\ IF rows[s] = None
     THEN stage' = rows
     ELSE /\ req[r].name \notin NamesOf(rows[s].company, Stages \ (req[r].doomed \cup {s}))
          /\ stage' = [rows EXCEPT ![s].name = req[r].name]
  /\ Delete(r)
  /\ UNCHANGED used

\* Delete and commit: the list has no new stage.
PutNothing(r) ==
  /\ At(r, "put_write") /\ req[r].stage = None /\ req[r].name = None
  /\ stage' = Remaining(r)
  /\ Delete(r)
  /\ UNCHANGED used

\* The insert made whether or not the list has a new stage.
PutInsertAlways(r, s) ==
  LET k == req[r].company IN
  /\ At(r, "put_write") /\ req[r].stage = None
  /\ s \notin used
  /\ req[r].name \notin NamesOf(k, Stages \ req[r].doomed)
  /\ stage' = [Remaining(r) EXCEPT ![s] = [company |-> k, name |-> req[r].name]]
  /\ used' = used \cup {s}
  /\ Delete(r)

\* Delete, insert the list's new stage and commit.
PutInsert(r, s) == PutInsertAlways(r, s) /\ req[r].name # None

----------------------------------------------------------------------------
(* ApplicationsService.updateStage *)

\* The stage is looked up and not compared with the company of the job.
MoveReadAnyStage(r, a, s) ==
  /\ a \in applied /\ stage[s] # None
  /\ Begin(r, "move_update", CompanyOf[a], a, s, None, {})

MoveRead(r, a, s) ==
  /\ stage[s] # None /\ stage[s].company = CompanyOf[a]
  /\ MoveReadAnyStage(r, a, s)

\* The UPDATE outside the transaction: it commits at once.
MoveUpdateAutocommit(r) ==
  LET a == req[r].app IN
  /\ At(r, "move_update")
  /\ a \notin MovedByOthers(r) /\ placed[a] \notin DoomedByOthers(r)
  /\ stage[req[r].stage] # None /\ req[r].stage \notin DoomedByOthers(r)
  /\ placed' = [placed EXCEPT ![a] = req[r].stage]
  /\ req' = [req EXCEPT ![r].at = "move_commit"]
  /\ UNCHANGED <<stage, used, applied, history>>

\* The UPDATE locks the application, and its foreign key the stage, which must be there.
MoveUpdate(r) ==
  LET a == req[r].app IN
  /\ At(r, "move_update")
  /\ a \notin MovedByOthers(r) /\ placed[a] \notin DoomedByOthers(r)
  /\ stage[req[r].stage] # None /\ req[r].stage \notin DoomedByOthers(r)
  /\ Goto(r, "move_commit")

\* The history row, and the commit.
MoveCommit(r) ==
  LET a == req[r].app IN
  /\ At(r, "move_commit")
  /\ history[a] < MaxMoves
  /\ placed' = [placed EXCEPT ![a] = req[r].stage]
  /\ history' = [history EXCEPT ![a] = @ + 1]
  /\ Return(r)
  /\ UNCHANGED <<stage, used, applied>>

----------------------------------------------------------------------------
(* ApplicationsService.create, as far as the pipeline is concerned *)

\* The first stage in the order the company has given them: any of them.
ApplyRead(r, a, s) ==
  LET k == CompanyOf[a] IN
  /\ a \notin applied
  /\ IF StagesOf(k) = {} THEN s = None ELSE s \in StagesOf(k)
  /\ Begin(r, "apply_insert", k, a, s, None, {})

ApplyInsert(r) ==
  LET a == req[r].app
      s == req[r].stage
  IN
  /\ At(r, "apply_insert")
  /\ a \notin applied
  /\ s # None => stage[s] # None /\ s \notin DoomedByOthers(r)
  /\ applied' = applied \cup {a}
  /\ placed' = [placed EXCEPT ![a] = s]
  /\ Return(r)
  /\ UNCHANGED <<stage, used, history>>

----------------------------------------------------------------------------
Start(r) ==
  \/ \E k \in Companies : GetRead(r, k)
  \/ \E k \in Companies, list \in SUBSET used, s \in used, n \in Names :
       s \in list /\ PutScan(r, k, list, s, n)
  \/ \E k \in Companies, list \in SUBSET used, n \in Names \cup {None} :
       PutScan(r, k, list, None, n)
  \/ \E a \in Applications, s \in Stages : MoveRead(r, a, s)
  \/ \E a \in Applications, s \in Stages \cup {None} : ApplyRead(r, a, s)

Continue(r) ==
  \/ GetCheck(r) \/ (\E f \in FreshIds : GetInsert(r, f))
  \/ PutLock(r) \/ PutRename(r) \/ PutNothing(r) \/ (\E s \in Stages : PutInsert(r, s))
  \/ MoveUpdate(r) \/ MoveCommit(r) \/ ApplyInsert(r)
  \/ Fail(r)

Next == \E r \in Requests : Start(r) \/ Continue(r)

Spec == Init /\ [][Next]_vars

----------------------------------------------------------------------------
(* Properties *)

\* An application is in a stage that exists and is one of the company it was sent to,
\* or in none: whatever stages are deleted, and pipelines created, between the check of
\* a stage and its use, and while an application is being inserted or moved.
StageOfOwnCompany ==
  \A a \in Applications : placed[a] # None =>
    stage[placed[a]] # None /\ stage[placed[a]].company = CompanyOf[a]

\* A company never has two stages of the same name, so that two first readers of its
\* pipeline do not leave it with the default stages twice.
StageNamesDiffer ==
  \A s, t \in Stages : s # t /\ stage[s] # None /\ stage[t] # None => stage[s] # stage[t]

\* An application leaves a stage for another only together with a row of its history; it
\* may lose its stage without one, when the stage is deleted.
MovesAreOnRecord ==
  [][\A a \in Applications : placed[a] # None /\ placed'[a] \notin {placed[a], None} =>
       history'[a] = history[a] + 1]_vars
=============================================================================
