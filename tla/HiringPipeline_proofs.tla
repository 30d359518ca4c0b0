----------------------- MODULE HiringPipeline_proofs -----------------------
(***************************************************************************)
(* For every number of companies, applications, stages and requests: no    *)
(* application is in a stage that is gone or is another company's, no two   *)
(* stages of a company have the same name, and every move is on record.     *)
(* The proofs rest on what a request that has looked a stage up still knows *)
(* of it when it uses it.                                                   *)
(***************************************************************************)
EXTENDS HiringPipeline, TLAPS

\* Only applications that have been sent have a stage, and stage ids are not used twice.
RowsAreUsed ==
  /\ \A s \in Stages : stage[s] # None => s \in used
  /\ \A a \in Applications : placed[a] # None => a \in applied

AtMove == {"move_update", "move_commit"}
AtPut  == {"put_lock", "put_write"}

\* What the local variables q of a request still guarantee of the tables at each await: a
\* stage that was of the company of the application is so for as long as it exists.
Knows(q, st, us, ap) ==
  /\ q.at \in AtPut => q.doomed \subseteq us /\ (q.stage # None => q.name \in Names)
  /\ q.at \in AtMove \cup {"apply_insert"} =>
       /\ q.app \in Applications
       /\ q.stage # None =>
            /\ q.stage \in us
            /\ st[q.stage] # None => st[q.stage].company = CompanyOf[q.app]
  /\ q.at \in AtMove => q.stage # None /\ q.app \in ap
  /\ q.at = "move_commit" => st[q.stage] # None

LocalsStayTrue == \A r \in Requests : Knows(req[r], stage, used, applied)

\* No open transaction deletes the stage that another one has moved an application to.
SharedStagesStay ==
  \A r, q \in Requests :
    req[r].at = "move_commit" /\ req[q].at = "put_write" => req[r].stage \notin req[q].doomed

IInv ==
  /\ TypeOK
  /\ RowsAreUsed
  /\ LocalsStayTrue
  /\ SharedStagesStay
  /\ StageOfOwnCompany
  /\ StageNamesDiffer

----------------------------------------------------------------------------
(* Requests *)

\* A request in the middle of a handler has the local variables of one.
LEMMA BusyIsLocal ==
  ASSUME TypeOK, NEW r \in Requests, req[r].at # "idle"
  PROVE  /\ req[r] \in Local
         /\ req[r].at \in Awaits
         /\ req[r].company \in Companies
         /\ req[r].app \in Applications \cup {None}
         /\ req[r].stage \in Stages \cup {None}
         /\ req[r].name \in Names \cup {None}
         /\ req[r].doomed \in SUBSET Stages
  <1>1. req[r] \in Local
    BY DEF TypeOK, Idle
  <1>2. QED
    BY <1>1 DEF Local

\* What a step of request r leaves of the tables: ids and applications stay in use, a stage
\* id keeps its company, and the stages that other transactions have locked stay.
Keep(r) ==
  /\ used \subseteq used' /\ applied \subseteq applied'
  /\ \A s \in used : stage'[s] # None => stage[s] # None /\ stage'[s].company = stage[s].company
  /\ \A q \in Requests \ {r} : req[q].at = "move_commit" => stage'[req[q].stage] # None

\* What one request does to its local variables leaves the others' knowledge true.
LEMMA RequestsStayTrue ==
  ASSUME IInv, NEW r \in Requests, Keep(r), NEW e \in Local \cup {Idle},
         req' = [req EXCEPT ![r] = e],
         Knows(e, stage', used', applied'),
         e.at = "move_commit" => e.stage \notin DoomedByOthers(r),
         e.at = "put_write" => e.doomed \cap SharedByOthers(r) = {}
  PROVE  req' \in [Requests -> Local \cup {Idle}] /\ LocalsStayTrue' /\ SharedStagesStay'
  <1>1. req' \in [Requests -> Local \cup {Idle}]
    BY DEF IInv, TypeOK
  <1>2. req'[r] = e /\ \A q \in Requests \ {r} : req'[q] = req[q]
    BY DEF IInv, TypeOK
  <1>3. ASSUME NEW q \in Requests, q # r
        PROVE  Knows(req[q], stage', used', applied')
    <2>1. Knows(req[q], stage, used, applied)
      BY DEF IInv, LocalsStayTrue
    <2>2. CASE req[q].at = "idle"
      BY <2>2 DEF Knows, AtPut, AtMove
    <2>3. CASE req[q].at # "idle"
      BY <1>3, <2>1, <2>3, BusyIsLocal DEF IInv, Keep, Knows, AtPut, AtMove
    <2>4. QED
      BY <2>2, <2>3
  <1>4. LocalsStayTrue'
    BY <1>2, <1>3 DEF LocalsStayTrue
  <1>5. SharedStagesStay'
    <2> SUFFICES ASSUME NEW p \in Requests, NEW q \in Requests,
                        req'[p].at = "move_commit", req'[q].at = "put_write"
                 PROVE  req'[p].stage \notin req'[q].doomed
      BY DEF SharedStagesStay
    <2>1. CASE p = r /\ q # r
      BY <1>2, <2>1 DEF DoomedByOthers
    <2>2. CASE p # r /\ q = r
      BY <1>2, <2>2 DEF SharedByOthers
    <2>3. CASE p # r /\ q # r
      BY <1>2, <2>3 DEF IInv, SharedStagesStay
    <2>4. QED
      BY <1>2, <2>1, <2>2, <2>3
  <1>6. QED
    BY <1>1, <1>4, <1>5

\* A step that touches no table.
LEMMA ReadIInv ==
  ASSUME IInv, NEW r \in Requests, NEW e \in Local \cup {Idle}, UNCHANGED tables,
         req' = [req EXCEPT ![r] = e],
         Knows(e, stage, used, applied),
         e.at = "move_commit" => e.stage \notin DoomedByOthers(r),
         e.at = "put_write" => e.doomed \cap SharedByOthers(r) = {}
  PROVE  IInv'
  <1>1. UNCHANGED <<stage, used, applied, placed, history>>
    BY DEF tables
  <1>2. Keep(r)
    BY <1>1 DEF Keep, IInv, LocalsStayTrue, Knows
  <1>3. Knows(e, stage', used', applied')
    BY <1>1
  <1>4. req' \in [Requests -> Local \cup {Idle}] /\ LocalsStayTrue' /\ SharedStagesStay'
    BY <1>2, <1>3, RequestsStayTrue
  <1>5. QED
    BY <1>1, <1>4 DEF IInv, TypeOK, RowsAreUsed, StageOfOwnCompany, StageNamesDiffer

\* The first step of a handler remembers what it has read.
LEMMA BeginIInv ==
  ASSUME IInv, NEW r \in Requests, NEW label \in Awaits \ {"move_commit", "put_write"},
         NEW k \in Companies, NEW a \in Applications \cup {None}, NEW s \in Stages \cup {None},
         NEW n \in Names \cup {None}, NEW rows \in SUBSET Stages,
         Begin(r, label, k, a, s, n, rows),
         Knows([at |-> label, company |-> k, app |-> a, stage |-> s, name |-> n,
                doomed |-> rows], stage, used, applied)
  PROVE  IInv'
  <1> DEFINE e == [at |-> label, company |-> k, app |-> a, stage |-> s, name |-> n,
                   doomed |-> rows]
  <1>1. e \in Local /\ e.at \notin {"move_commit", "put_write"}
    BY DEF Local
  <1>2. req' = [req EXCEPT ![r] = e] /\ UNCHANGED tables
    BY DEF Begin
  <1> HIDE DEF e
  <1>3. Knows(e, stage, used, applied)
    BY DEF e
  <1>4. QED
    BY <1>1, <1>2, <1>3, ReadIInv

\* Every handler starts from the rows that are there.
LEMMA StartIInv ==
  ASSUME IInv, NEW r \in Requests, Start(r)
  PROVE  IInv'
  <1> USE PipelineAssumption DEF Awaits
  <1>1. \A k \in Companies : StagesOf(k) \subseteq used \cap Stages
    BY DEF IInv, RowsAreUsed, StagesOf
  <1>2. used \subseteq Stages
    BY DEF IInv, TypeOK
  <1>3. ASSUME NEW k \in Companies, GetRead(r, k) PROVE IInv'
    BY <1>3, BeginIInv DEF GetRead, Knows, AtPut, AtMove
  <1>4. ASSUME NEW k \in Companies, NEW list \in SUBSET used, NEW s \in used \cup {None},
               NEW n \in Names \cup {None}, s # None => n \in Names,
               PutScan(r, k, list, s, n)
        PROVE  IInv'
    BY <1>1, <1>2, <1>4, BeginIInv DEF PutScan, Knows, AtPut, AtMove
  <1>5. ASSUME NEW a \in Applications, NEW s \in Stages, MoveRead(r, a, s) PROVE IInv'
    <2>1. s \in used /\ CompanyOf[a] \in Companies /\ s # None
      BY <1>5 DEF MoveRead, IInv, RowsAreUsed
    <2>2. QED
      BY <1>5, <2>1, BeginIInv DEF MoveRead, MoveReadAnyStage, Knows, AtPut, AtMove
  <1>6. ASSUME NEW a \in Applications, NEW s \in Stages \cup {None}, ApplyRead(r, a, s)
        PROVE  IInv'
    <2>1. CompanyOf[a] \in Companies
      OBVIOUS
    <2>2. s # None => s \in used /\ stage[s].company = CompanyOf[a]
      BY <1>1, <1>6, <2>1 DEF ApplyRead, StagesOf
    <2>3. QED
      BY <1>6, <2>1, <2>2, BeginIInv DEF ApplyRead, Knows, AtPut, AtMove
  <1>7. QED
    BY <1>3, <1>4, <1>5, <1>6 DEF Start

----------------------------------------------------------------------------
(* Steps inside a handler *)

\* The awaits that touch no table: the second look, the locks, the UPDATE, and a rollback.
LEMMA WaitIInv ==
  ASSUME IInv, NEW r \in Requests, GetCheck(r) \/ PutLock(r) \/ MoveUpdate(r) \/ Fail(r)
  PROVE  IInv'
  <1> USE DEF IInv
  <1>1. Knows(Idle, stage, used, applied) /\ Idle.at = "idle"
    BY DEF Knows, Idle, AtPut, AtMove
  <1>2. Return(r) /\ UNCHANGED tables => IInv'
    BY <1>1, ReadIInv, Zenon DEF Return
  <1>3. Knows(req[r], stage, used, applied)
    BY DEF LocalsStayTrue
  <1>4. CASE GetCheck(r)
    <2> DEFINE e == [req[r] EXCEPT !.at = "get_insert"]
    <2>1. e \in Local /\ e.at = "get_insert"
      BY <1>4, BusyIsLocal DEF GetCheck, At, Local, Awaits
    <2>2. Knows(e, stage, used, applied)
      BY <2>1 DEF Knows, AtPut, AtMove
    <2>3. Goto(r, "get_insert") => req' = [req EXCEPT ![r] = e] /\ UNCHANGED tables
      BY DEF Goto
    <2> HIDE DEF e
    <2>4. Goto(r, "get_insert") => IInv'
      BY <2>1, <2>2, <2>3, ReadIInv
    <2>5. QED
      BY <1>2, <1>4, <2>4 DEF GetCheck
  <1>5. CASE PutLock(r)
    <2> DEFINE rows == req[r].doomed \cap {s \in Stages : stage[s] # None}
               e == [req[r] EXCEPT !.at = "put_write", !.doomed = rows]
    <2>1. req[r].at = "put_lock" /\ req[r] \in Local /\ req[r].doomed \subseteq used
      BY <1>3, <1>5, BusyIsLocal DEF PutLock, At, Knows, AtPut
    <2>2. /\ e \in Local /\ e.at = "put_write" /\ e.doomed = rows
          /\ e.stage = req[r].stage /\ e.name = req[r].name
      BY <2>1 DEF Local, Awaits
    <2>3. Knows(e, stage, used, applied)
      BY <1>3, <2>1, <2>2 DEF Knows, AtPut, AtMove
    <2>4. req' = [req EXCEPT ![r] = e] /\ UNCHANGED tables /\ rows \cap SharedByOthers(r) = {}
      BY <1>5 DEF PutLock
    <2> HIDE DEF e, rows
    <2>5. QED
      BY <2>2, <2>3, <2>4, ReadIInv
  <1>6. CASE MoveUpdate(r)
    <2> DEFINE e == [req[r] EXCEPT !.at = "move_commit"]
    <2>1. req[r].at = "move_update" /\ req[r] \in Local
      BY <1>6, BusyIsLocal DEF MoveUpdate, At
    <2>2. /\ e \in Local /\ e.at = "move_commit"
          /\ e.stage = req[r].stage /\ e.app = req[r].app
      BY <2>1 DEF Local, Awaits
    <2>3. stage[e.stage] # None /\ e.stage \notin DoomedByOthers(r)
      BY <1>6, <2>2 DEF MoveUpdate
    <2>4. Knows(e, stage, used, applied)
      BY <1>3, <2>1, <2>2, <2>3 DEF Knows, AtPut, AtMove
    <2>5. req' = [req EXCEPT ![r] = e] /\ UNCHANGED tables
      BY <1>6 DEF MoveUpdate, Goto
    <2> HIDE DEF e
    <2>6. QED
      BY <2>2, <2>3, <2>4, <2>5, ReadIInv
  <1>7. QED
    BY <1>2, <1>4, <1>5, <1>6 DEF Fail

\* A commit that leaves the tables as they have to be ends its request.
LEMMA CommitIInv ==
  ASSUME IInv, NEW r \in Requests, Keep(r), Return(r),
         stage' \in [Stages -> Row \cup {None}], used' \in SUBSET Stages,
         applied' \in SUBSET Applications, placed' \in [Applications -> Stages \cup {None}],
         history' \in [Applications -> 0..MaxMoves],
         RowsAreUsed', StageOfOwnCompany', StageNamesDiffer'
  PROVE  IInv'
  <1>1. Knows(Idle, stage', used', applied') /\ Idle.at = "idle"
    BY DEF Knows, Idle, AtPut, AtMove
  <1>2. req' \in [Requests -> Local \cup {Idle}] /\ LocalsStayTrue' /\ SharedStagesStay'
    BY <1>1, RequestsStayTrue DEF Return
  <1>3. QED
    BY <1>2 DEF IInv, TypeOK

\* The default stages have new ids, and names the company did not have; only applications
\* without a stage are moved.
LEMMA GetInsertIInv ==
  ASSUME IInv, NEW r \in Requests, NEW f \in FreshIds, GetInsert(r, f)
  PROVE  IInv'
  <1> DEFINE k == req[r].company
             new == {f[n] : n \in DefaultNames}
             nameOf(s) == CHOOSE n \in DefaultNames : f[n] = s
  <1> USE PipelineAssumption DEF IInv, TypeOK
  <1>1. k \in Companies
    BY BusyIsLocal DEF GetInsert, At
  <1>2. /\ stage' = [s \in Stages |-> IF s \in new THEN [company |-> k, name |-> nameOf(s)]
                                                   ELSE stage[s]]
        /\ used' = used \cup new
        /\ placed' = [a \in Applications |->
             IF a \in applied /\ placed[a] = None /\ CompanyOf[a] = k THEN f[FirstName]
                                                                      ELSE placed[a]]
        /\ Return(r) /\ UNCHANGED <<applied, history>>
        /\ NamesOf(k, Stages) \cap DefaultNames = {}
    BY DEF GetInsert, GetInsertNoUnique
  <1>3. f[FirstName] \in new /\ new \subseteq Stages \ used
    BY DEF FreshIds
  <1>4. \A s \in new : nameOf(s) \in DefaultNames /\ f[nameOf(s)] = s
    OBVIOUS
  <1>5. \A s \in Stages \ new : stage[s] # None => stage[s] \in Row
    OBVIOUS
  <1> HIDE DEF k, new, nameOf
  <1>6. /\ \A s \in new : /\ stage'[s] \in Row
                          /\ stage'[s].company = k /\ stage'[s].name = nameOf(s)
        /\ \A s \in Stages \ new : stage'[s] = stage[s]
    <2>1. ASSUME NEW s \in new
          PROVE  stage'[s] \in Row /\ stage'[s].company = k /\ stage'[s].name = nameOf(s)
      <3>1. stage'[s] = [company |-> k, name |-> nameOf(s)]
        BY <1>2, <1>3
      <3>2. nameOf(s) \in Names
        BY <1>4
      <3>3. QED
        BY <1>1, <3>1, <3>2 DEF Row
    <2>2. QED
      BY <1>2, <2>1
  <1>7. \A s \in new : stage[s] = None /\ stage'[s] # None /\ stage'[s].company = k
    BY <1>3, <1>6 DEF RowsAreUsed, Row
  <1>8. Keep(r)
    <2>1. ASSUME NEW q \in Requests \ {r}, req[q].at = "move_commit"
          PROVE  stage'[req[q].stage] # None
      <3>1. req[q].stage \in used /\ stage[req[q].stage] # None
        BY <2>1 DEF LocalsStayTrue, Knows, AtMove
      <3>2. QED
        BY <1>3, <1>6, <3>1
    <2>2. QED
      BY <1>2, <1>3, <1>6, <2>1 DEF Keep
  <1>9. RowsAreUsed' /\ StageOfOwnCompany'
    <2>1. \A s \in Stages : stage'[s] # None => s \in used'
      BY <1>2, <1>6 DEF RowsAreUsed
    <2>2. ASSUME NEW a \in Applications, placed'[a] # None
          PROVE  /\ a \in applied'
                 /\ stage'[placed'[a]] # None /\ stage'[placed'[a]].company = CompanyOf[a]
      <3>1. CASE placed[a] = None
        BY <1>2, <1>3, <1>7, <2>2, <3>1
      <3>2. CASE placed[a] # None
        <4>1. placed'[a] = placed[a] /\ placed[a] \in Stages
          BY <1>2, <3>2
        <4>2. stage[placed[a]] # None /\ stage[placed[a]].company = CompanyOf[a] /\ a \in applied
          BY <3>2 DEF StageOfOwnCompany, RowsAreUsed
        <4>3. QED
          BY <1>2, <1>6, <1>7, <4>1, <4>2
      <3>3. QED
        BY <3>1, <3>2
    <2>3. QED
      BY <2>1, <2>2 DEF RowsAreUsed, StageOfOwnCompany
  <1>10. StageNamesDiffer'
    <2> SUFFICES ASSUME NEW s \in Stages, NEW t \in Stages, s # t,
                        stage'[s] # None, stage'[t] # None
                 PROVE  stage'[s] # stage'[t]
      BY DEF StageNamesDiffer
    <2>1. ASSUME NEW u \in new, NEW v \in Stages \ new, stage[v] # None
          PROVE  stage'[u] # stage'[v]
      <3>1. stage[v].company = k => stage[v].name \in NamesOf(k, Stages)
        BY <2>1 DEF NamesOf, StagesOf
      <3>2. stage'[u].company = k /\ stage'[u].name \in DefaultNames
        BY <1>4, <1>6
      <3>3. stage'[v] = stage[v]
        BY <1>6
      <3>4. QED
        BY <1>2, <3>1, <3>2, <3>3
    <2>2. CASE s \in new /\ t \in new
      <3>1. nameOf(s) # nameOf(t)
        BY <1>4, <2>2
      <3>2. stage'[s].name = nameOf(s) /\ stage'[t].name = nameOf(t)
        BY <1>6, <2>2
      <3>3. QED
        BY <3>1, <3>2
    <2>3. CASE s \notin new /\ t \notin new
      BY <1>6, <2>3 DEF StageNamesDiffer
    <2>4. QED
      BY <1>6, <2>1, <2>2, <2>3
  <1>11. /\ stage' \in [Stages -> Row \cup {None}] /\ used' \in SUBSET Stages
         /\ applied' \in SUBSET Applications
         /\ placed' \in [Applications -> Stages \cup {None}]
         /\ history' \in [Applications -> 0..MaxMoves]
    <2>1. \A s \in Stages : stage'[s] \in Row \cup {None}
      BY <1>6
    <2>2. QED
      BY <1>2, <1>3, <2>1
  <1>12. QED
    BY <1>2, <1>8, <1>9, <1>10, <1>11, CommitIInv

\* What is left of the tables after the rows that a request has locked are deleted.
LEMMA DeleteKeepsTables ==
  ASSUME IInv, NEW r \in Requests, At(r, "put_write"), Delete(r)
  PROVE  /\ placed' \in [Applications -> Stages \cup {None}]
         /\ UNCHANGED <<applied, history>>
         /\ \A a \in Applications : placed'[a] # None =>
              /\ placed'[a] = placed[a] /\ placed[a] \in Stages
              /\ placed[a] \notin req[r].doomed
         /\ Remaining(r) \in [Stages -> Row \cup {None}]
         /\ \A s \in Stages : Remaining(r)[s] # None =>
              s \notin req[r].doomed /\ Remaining(r)[s] = stage[s]
         /\ \A s \in Stages \ req[r].doomed : Remaining(r)[s] = stage[s]
         /\ \A q \in Requests \ {r} : req[q].at = "move_commit" =>
              /\ req[q].stage \in used /\ stage[req[q].stage] # None
              /\ req[q].stage \notin req[r].doomed
  <1> USE DEF IInv, TypeOK
  <1>1. /\ placed' \in [Applications -> Stages \cup {None}]
        /\ UNCHANGED <<applied, history>>
        /\ \A a \in Applications : placed'[a] # None =>
             /\ placed'[a] = placed[a] /\ placed[a] \in Stages
             /\ placed[a] \notin req[r].doomed
    BY DEF Delete
  <1>2. /\ Remaining(r) \in [Stages -> Row \cup {None}]
        /\ \A s \in Stages : Remaining(r)[s] # None =>
             s \notin req[r].doomed /\ Remaining(r)[s] = stage[s]
        /\ \A s \in Stages \ req[r].doomed : Remaining(r)[s] = stage[s]
    BY DEF Remaining
  <1>3. \A q \in Requests \ {r} : req[q].at = "move_commit" =>
          /\ req[q].stage \in used /\ stage[req[q].stage] # None
          /\ req[q].stage \notin req[r].doomed
    BY DEF LocalsStayTrue, Knows, AtMove, SharedStagesStay, At
  <1>4. QED
    BY <1>1, <1>2, <1>3

\* A commit that deletes rows, and changes none of the others but row s: it stays its
\* company's, or is new, and its name is no other stage's.
LEMMA WriteIInv ==
  ASSUME IInv, NEW r \in Requests, At(r, "put_write"), Delete(r), NEW s \in Stages,
         stage' \in [Stages -> Row \cup {None}], used' = used \cup {s},
         \A t \in Stages \ {s} : stage'[t] = Remaining(r)[t],
         s \in used => /\ s \notin req[r].doomed => stage'[s] # None \/ stage[s] = None
                       /\ stage'[s] # None =>
                            Remaining(r)[s] # None /\ stage'[s].company = Remaining(r)[s].company,
         \A t \in Stages \ {s} : stage'[t] # None /\ stage'[s] # None => stage'[t] # stage'[s]
  PROVE  IInv'
  <1> USE DEF IInv, TypeOK
  <1>1. /\ placed' \in [Applications -> Stages \cup {None}]
        /\ UNCHANGED <<applied, history>>
        /\ \A a \in Applications : placed'[a] # None =>
             /\ placed'[a] = placed[a] /\ placed[a] \in Stages
             /\ placed[a] \notin req[r].doomed
    BY DeleteKeepsTables
  <1>2. /\ \A t \in Stages : Remaining(r)[t] # None =>
             t \notin req[r].doomed /\ Remaining(r)[t] = stage[t]
        /\ \A t \in Stages \ req[r].doomed : Remaining(r)[t] = stage[t]
        /\ \A q \in Requests \ {r} : req[q].at = "move_commit" =>
             /\ req[q].stage \in used /\ stage[req[q].stage] # None
             /\ req[q].stage \notin req[r].doomed
    BY DeleteKeepsTables
  <1>3. ASSUME NEW t \in used
        PROVE  /\ stage'[t] # None => stage[t] # None /\ stage'[t].company = stage[t].company
               /\ t \notin req[r].doomed /\ stage[t] # None => stage'[t] # None
    <2>1. CASE t = s
      BY <1>2, <2>1
    <2>2. CASE t # s
      BY <1>2, <2>2
    <2>3. QED
      BY <2>1, <2>2
  <1>4. Keep(r)
    BY <1>1, <1>2, <1>3 DEF Keep
  <1>5. RowsAreUsed'
    BY <1>1, <1>2 DEF RowsAreUsed
  <1>6. StageOfOwnCompany'
    <2> SUFFICES ASSUME NEW a \in Applications, placed'[a] # None
                 PROVE  stage'[placed'[a]] # None /\ stage'[placed'[a]].company = CompanyOf[a]
      BY DEF StageOfOwnCompany
    <2>1. placed'[a] = placed[a] /\ placed[a] \in Stages /\ placed[a] \notin req[r].doomed
      BY <1>1
    <2>2. stage[placed[a]] # None /\ stage[placed[a]].company = CompanyOf[a]
      BY <2>1 DEF StageOfOwnCompany
    <2>3. placed[a] \in used
      BY <2>1, <2>2 DEF RowsAreUsed
    <2>4. QED
      BY <1>3, <2>1, <2>2, <2>3
  <1>7. StageNamesDiffer'
    <2> SUFFICES ASSUME NEW t \in Stages, NEW u \in Stages, t # u,
                        stage'[t] # None, stage'[u] # None
                 PROVE  stage'[t] # stage'[u]
      BY DEF StageNamesDiffer
    <2>1. CASE t = s \/ u = s
      BY <2>1
    <2>2. CASE t # s /\ u # s
      BY <1>2, <2>2 DEF StageNamesDiffer
    <2>3. QED
      BY <2>1, <2>2
  <1>8. Return(r)
    BY DEF Delete
  <1>9. used' \in SUBSET Stages /\ applied' \in SUBSET Applications
        /\ history' \in [Applications -> 0..MaxMoves]
    BY <1>1
  <1>10. QED
    BY <1>1, <1>4, <1>5, <1>6, <1>7, <1>8, <1>9, CommitIInv

\* A commit that only deletes.
LEMMA DeleteOnlyIInv ==
  ASSUME IInv, NEW r \in Requests, At(r, "put_write"), Delete(r), stage' = Remaining(r),
         used' = used
  PROVE  IInv'
  <1>1. /\ Remaining(r) \in [Stages -> Row \cup {None}]
        /\ \A s \in Stages : Remaining(r)[s] # None =>
             s \notin req[r].doomed /\ Remaining(r)[s] = stage[s]
        /\ \A s \in Stages \ req[r].doomed : Remaining(r)[s] = stage[s]
    BY DeleteKeepsTables
  <1>2. CASE used # {}
    <2>1. PICK s \in used : used' = used \cup {s}
      BY <1>2
    <2>2. s \in Stages
      BY DEF IInv, TypeOK
    <2>3. \A t \in Stages \ {s} : stage'[t] # None /\ stage'[s] # None => stage'[t] # stage'[s]
      BY <1>1, <2>2 DEF IInv, StageNamesDiffer
    <2>4. QED
      BY <1>1, <2>1, <2>2, <2>3, WriteIInv
  <1>3. CASE used = {}
    <2>1. stage' = stage
      <3>1. \A s \in Stages : stage[s] = None
        BY <1>3 DEF IInv, RowsAreUsed
      <3>2. stage = [s \in Stages |-> None]
        BY <3>1 DEF IInv, TypeOK
      <3>3. Remaining(r) = [s \in Stages |-> None]
        BY <3>1 DEF Remaining
      <3>4. QED
        BY <3>2, <3>3
    <2>2. \A a \in Applications : placed[a] = None
      <3>1. ASSUME NEW a \in Applications, placed[a] # None PROVE FALSE
        BY <1>3, <3>1 DEF IInv, TypeOK, StageOfOwnCompany, RowsAreUsed
      <3>2. QED
        BY <3>1
    <2>3. placed' = placed /\ UNCHANGED <<applied, history>>
      BY <2>2 DEF Delete, IInv, TypeOK
    <2>4. Knows(Idle, stage, used, applied) /\ Idle.at = "idle"
      BY DEF Knows, Idle, AtPut, AtMove
    <2>5. QED
      BY <2>1, <2>3, <2>4, ReadIInv, Zenon DEF Delete, Return, tables
  <1>4. QED
    BY <1>2, <1>3

\* Stages are deleted, and at most one is renamed or inserted.
LEMMA PutIInv ==
  ASSUME IInv, NEW r \in Requests,
         PutRename(r) \/ PutNothing(r) \/ \E s \in Stages : PutInsert(r, s)
  PROVE  IInv'
  <1> USE PipelineAssumption
  <1>1. CASE PutNothing(r)
    BY <1>1, DeleteOnlyIInv DEF PutNothing
  <1>2. CASE PutRename(r)
    <2> DEFINE s == req[r].stage
    <2>1. At(r, "put_write") /\ Delete(r) /\ used' = used /\ s # None
      BY <1>2 DEF PutRename
    <2>2. s \in Stages /\ req[r].name \in Names
      BY <2>1, BusyIsLocal DEF IInv, LocalsStayTrue, Knows, AtPut, At
    <2>3. /\ Remaining(r) \in [Stages -> Row \cup {None}]
          /\ \A t \in Stages : Remaining(r)[t] # None =>
               t \notin req[r].doomed /\ Remaining(r)[t] = stage[t]
          /\ \A t \in Stages \ req[r].doomed : Remaining(r)[t] = stage[t]
      BY <2>1, DeleteKeepsTables
    <2>4. CASE Remaining(r)[s] = None
      BY <1>2, <2>1, <2>4, DeleteOnlyIInv DEF PutRename
    <2>5. CASE Remaining(r)[s] # None
      <3> DEFINE row == [Remaining(r)[s] EXCEPT !.name = req[r].name]
      <3>1. /\ stage' = [Remaining(r) EXCEPT ![s] = row]
            /\ req[r].name \notin
                 NamesOf(Remaining(r)[s].company, Stages \ (req[r].doomed \cup {s}))
        BY <1>2, <2>5 DEF PutRename
      <3>2. Remaining(r)[s] \in Row
        BY <2>2, <2>3, <2>5
      <3>3. /\ row \in Row
            /\ row.company = Remaining(r)[s].company /\ row.name = req[r].name
        BY <2>2, <3>2 DEF Row
      <3> HIDE DEF row
      <3>4. row # None
        BY <3>3 DEF Row
      <3>5. /\ stage' \in [Stages -> Row \cup {None}] /\ stage'[s] = row
            /\ \A t \in Stages \ {s} : stage'[t] = Remaining(r)[t]
        BY <2>2, <2>3, <3>1, <3>3
      <3>6. ASSUME NEW t \in Stages \ {s}, stage'[t] # None
            PROVE  stage'[t] # row
        <4>1. stage'[t] = stage[t] /\ t \notin req[r].doomed
          BY <2>3, <3>5, <3>6
        <4>2. stage[t].company = row.company => stage[t].name # row.name
          BY <3>1, <3>3, <3>6, <4>1 DEF NamesOf, StagesOf
        <4>3. QED
          BY <4>1, <4>2
      <3>7. s \in used /\ used' = used \cup {s}
        BY <2>1, <2>2, <2>3, <2>5 DEF IInv, RowsAreUsed
      <3>8. QED
        BY <2>1, <2>2, <2>5, <3>3, <3>4, <3>5, <3>6, <3>7, WriteIInv
    <2>6. QED
      BY <2>4, <2>5
  <1>3. ASSUME NEW s \in Stages, PutInsert(r, s) PROVE IInv'
    <2> DEFINE k == req[r].company
               row == [company |-> k, name |-> req[r].name]
    <2>1. /\ At(r, "put_write") /\ Delete(r) /\ used' = used \cup {s} /\ s \notin used
          /\ req[r].name # None /\ req[r].name \notin NamesOf(k, Stages \ req[r].doomed)
          /\ stage' = [Remaining(r) EXCEPT ![s] = row]
      BY <1>3 DEF PutInsert, PutInsertAlways
    <2>2. k \in Companies /\ req[r].name \in Names
      BY <2>1, BusyIsLocal DEF At, IInv
    <2>3. row \in Row /\ row.company = k /\ row.name = req[r].name /\ row # None
      BY <2>2 DEF Row
    <2>4. /\ Remaining(r) \in [Stages -> Row \cup {None}]
          /\ \A t \in Stages : Remaining(r)[t] # None =>
               t \notin req[r].doomed /\ Remaining(r)[t] = stage[t]
      BY <2>1, DeleteKeepsTables
    <2> HIDE DEF row, k
    <2>5. /\ stage' \in [Stages -> Row \cup {None}] /\ stage'[s] = row
          /\ \A t \in Stages \ {s} : stage'[t] = Remaining(r)[t]
      BY <2>1, <2>3, <2>4
    <2>6. ASSUME NEW t \in Stages \ {s}, stage'[t] # None
          PROVE  stage'[t] # row
      <3>1. stage'[t] = stage[t] /\ t \notin req[r].doomed
        BY <2>4, <2>5, <2>6
      <3>2. stage[t].company = row.company => stage[t].name # row.name
        BY <2>1, <2>3, <2>6, <3>1 DEF NamesOf, StagesOf
      <3>3. QED
        BY <3>1, <3>2
    <2>7. QED
      BY <2>1, <2>5, <2>6, WriteIInv
  <1>4. QED
    BY <1>1, <1>2, <1>3

\* The stage a move has locked is there when it commits, and of the right company.
LEMMA MoveCommitIInv ==
  ASSUME IInv, NEW r \in Requests, MoveCommit(r)
  PROVE  IInv'
  <1> DEFINE a == req[r].app
             s == req[r].stage
  <1> USE PipelineAssumption DEF IInv, TypeOK
  <1>1. /\ req[r].at = "move_commit" /\ Return(r) /\ history[a] < MaxMoves
        /\ placed' = [placed EXCEPT ![a] = s] /\ history' = [history EXCEPT ![a] = @ + 1]
        /\ UNCHANGED <<stage, used, applied>>
    BY DEF MoveCommit, At
  <1>2. /\ a \in Applications /\ a \in applied /\ s \in used /\ s # None
        /\ stage[s] # None /\ stage[s].company = CompanyOf[a]
    BY <1>1 DEF LocalsStayTrue, Knows, AtMove
  <1> HIDE DEF a, s
  <1>3. Keep(r)
    BY <1>1 DEF Keep, LocalsStayTrue, Knows
  <1>4. RowsAreUsed' /\ StageOfOwnCompany' /\ StageNamesDiffer'
    BY <1>1, <1>2 DEF RowsAreUsed, StageOfOwnCompany, StageNamesDiffer
  <1>5. placed' \in [Applications -> Stages \cup {None}] /\ history' \in [Applications -> 0..MaxMoves]
    BY <1>1, <1>2
  <1>6. QED
    BY <1>1, <1>3, <1>4, <1>5, CommitIInv

\* The foreign key lets a new application have a stage only if it is still there, and no
\* other company can have got its id.
LEMMA ApplyInsertIInv ==
  ASSUME IInv, NEW r \in Requests, ApplyInsert(r)
  PROVE  IInv'
  <1> DEFINE a == req[r].app
             s == req[r].stage
  <1> USE PipelineAssumption DEF IInv, TypeOK
  <1>1. /\ req[r].at = "apply_insert" /\ Return(r) /\ a \notin applied
        /\ s # None => stage[s] # None
        /\ applied' = applied \cup {a} /\ placed' = [placed EXCEPT ![a] = s]
        /\ UNCHANGED <<stage, used, history>>
    BY DEF ApplyInsert, At
  <1>2. /\ a \in Applications /\ s \in Stages \cup {None}
        /\ s # None => s \in used /\ stage[s].company = CompanyOf[a]
    BY <1>1, BusyIsLocal DEF LocalsStayTrue, Knows
  <1> HIDE DEF a, s
  <1>3. Keep(r)
    BY <1>1 DEF Keep, LocalsStayTrue, Knows
  <1>4. RowsAreUsed' /\ StageOfOwnCompany' /\ StageNamesDiffer'
    BY <1>1, <1>2 DEF RowsAreUsed, StageOfOwnCompany, StageNamesDiffer
  <1>5. placed' \in [Applications -> Stages \cup {None}] /\ applied' \in SUBSET Applications
    BY <1>1, <1>2
  <1>6. QED
    BY <1>1, <1>3, <1>4, <1>5, CommitIInv

----------------------------------------------------------------------------
\* No stages, no applications and no requests yet.
LEMMA InitIInv == Init => IInv
  <1> SUFFICES ASSUME Init PROVE IInv
    OBVIOUS
  <1>1. TypeOK
    BY PipelineAssumption DEF Init, TypeOK
  <1>2. LocalsStayTrue /\ SharedStagesStay
    BY DEF Init, Idle, LocalsStayTrue, Knows, AtPut, AtMove, SharedStagesStay
  <1>3. QED
    BY <1>1, <1>2 DEF Init, IInv, RowsAreUsed, StageOfOwnCompany, StageNamesDiffer

\* Every step of every handler preserves the inductive invariant.
LEMMA NextIInv == IInv /\ [Next]_vars => IInv'
  <1> SUFFICES ASSUME IInv, [Next]_vars PROVE IInv'
    OBVIOUS
  <1>1. ASSUME NEW r \in Requests, Start(r) PROVE IInv'
    BY <1>1, StartIInv
  <1>2. ASSUME NEW r \in Requests, Continue(r) PROVE IInv'
    BY <1>2, WaitIInv, GetInsertIInv, PutIInv, MoveCommitIInv, ApplyInsertIInv DEF Continue
  <1>3. CASE UNCHANGED vars
    BY <1>3 DEF vars, tables, IInv, TypeOK, RowsAreUsed, LocalsStayTrue, SharedStagesStay,
       StageOfOwnCompany, StageNamesDiffer
  <1>4. QED
    BY <1>1, <1>2, <1>3 DEF Next

\* The inductive invariant holds in every reachable state.
LEMMA SpecIInv == Spec => []IInv
  BY InitIInv, NextIInv, PTL DEF Spec

\* Every variable keeps its type: no stage row is ever written without a name.
THEOREM PipelineTypeCorrect == Spec => []TypeOK
  <1>1. IInv => TypeOK
    BY DEF IInv
  <1>2. QED
    BY <1>1, SpecIInv, PTL

\* No application is ever in a stage that has been deleted or is of another company,
\* although create and updateStage check the stage before they use it.
THEOREM StagesAreOwn == Spec => []StageOfOwnCompany
  <1>1. IInv => StageOfOwnCompany
    BY DEF IInv
  <1>2. QED
    BY <1>1, SpecIInv, PTL

\* Two first readers of a pipeline, or two updates of it, never give it a name twice.
THEOREM StageNamesStayUnique == Spec => []StageNamesDiffer
  <1>1. IInv => StageNamesDiffer
    BY DEF IInv
  <1>2. QED
    BY <1>1, SpecIInv, PTL

\* An application goes from one stage to another only in a transaction that writes its
\* history.
THEOREM MovesLeaveARecord == Spec => MovesAreOnRecord
  <1> DEFINE OnRecord == \A a \in Applications :
               placed[a] # None /\ placed'[a] \notin {placed[a], None} =>
                 history'[a] = history[a] + 1
  <1>1. IInv /\ [Next]_vars => [OnRecord]_vars
    <2> SUFFICES ASSUME IInv, Next, NEW a \in Applications,
                        placed[a] # None, placed'[a] \notin {placed[a], None}
                 PROVE  history'[a] = history[a] + 1
      OBVIOUS
    <2> USE DEF IInv, TypeOK
    <2>1. PICK r \in Requests : Start(r) \/ Continue(r)
      BY DEF Next
    <2>2. placed' # placed
      OBVIOUS
    <2>3. a \in applied
      BY DEF RowsAreUsed
    <2>4. ~Start(r)
      BY <2>2 DEF Start, GetRead, PutScan, MoveRead, MoveReadAnyStage, ApplyRead, Begin, tables
    <2>5. ~(GetCheck(r) \/ PutLock(r) \/ MoveUpdate(r) \/ Fail(r))
      BY <2>2 DEF GetCheck, PutLock, MoveUpdate, Fail, Goto, tables
    <2>6. ASSUME NEW f \in FreshIds, GetInsert(r, f) PROVE FALSE
      BY <2>6 DEF GetInsert, GetInsertNoUnique
    <2>7. ~Delete(r)
      BY DEF Delete
    <2>8. CASE MoveCommit(r)
      <3>1. req[r].app \in Applications
        BY <2>8 DEF MoveCommit, At, LocalsStayTrue, Knows, AtMove
      <3>2. QED
        BY <2>8, <3>1 DEF MoveCommit
    <2>9. ~ApplyInsert(r)
      <3>1. ApplyInsert(r) => req[r].app # a /\ placed' = [placed EXCEPT ![req[r].app] = req[r].stage]
        BY <2>3 DEF ApplyInsert
      <3>2. QED
        BY <3>1
    <2>10. QED
      BY <2>1, <2>4, <2>5, <2>6, <2>7, <2>8, <2>9
         DEF Continue, PutRename, PutNothing, PutInsert, PutInsertAlways
  <1>2. QED
    BY <1>1, SpecIInv, PTL DEF Spec, MovesAreOnRecord
=============================================================================
