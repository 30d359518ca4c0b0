--------------------------- MODULE ResumeLibrary ---------------------------
(***************************************************************************)
(* CandidateResumeService and the AI extraction of a resume: uploading,    *)
(* choosing the default and deleting resumes, whose files StoredFiles      *)
(* keeps, and the run that has a resume read by the AI service under an    *)
(* idempotency key in Redis.  A resume row is named by its file, public_id.*)
(* What the AI proposes for a resume is kept in a table without a foreign  *)
(* key, until the candidate deletes it; what the proposal says is left out *)
(* and reports of the AI service on the parsing status are not.            *)
(***************************************************************************)
EXTENDS StoredFiles

CONSTANTS Candidates,
          Keys        \* idempotency-key headers

ASSUME ResumeAssumption ==
  /\ None \notin Candidates \cup Files \cup Requests \cup Keys
  /\ Candidates \cap Files = {}

VARIABLES
  resume,    \* [Files -> row of resumes, or None]
  rowlock,   \* [Files -> the request whose transaction has updated the row of resumes, or None]
  held,      \* the ai:idempotency: keys in Redis, as <<resume, key>>
  raced,     \* history: candidates whose changes of the default have overlapped or missed
  strayed,   \* history: files deleted through /files, or left by a request that was cut off
  stuck,     \* history: resumes whose status the AI service or a run that was cut off has left
  outlived,  \* history: keys that have expired before a run under them was over
  proposed,  \* the resumes with a row of ai_profile_suggestions, whether or not they are still there
  dismissed  \* history: resumes whose proposal was deleted, or whose COMPLETED is the AI service's

rows      == <<resume, rowlock>>
proposals == <<proposed, dismissed>>
history   == <<raced, strayed, stuck, outlived>>
vars      == <<object, record, req, rows, held, history, proposals>>

Statuses == {"pending", "processing", "completed", "failed"}

\* A row of resumes.  The parsing status FAILED is not told apart from PENDING.
Row == [owner: Candidates, default: BOOLEAN, status: Statuses \ {"failed"}]

Shown(status) == IF status = "failed" THEN "pending" ELSE status

ASSUME NoneIsNoRow == None \notin Row

Idle == [at |-> "idle", file |-> None, then |-> "idle", owner |-> None, other |-> None,
         key |-> None, status |-> None]

Transactions == {"default_find", "insert_resume", "default_unset", "default_set", "next_find",
                 "next_set", "delete_row"}

RunAwaits == {"download", "status", "audit", "ask", "propose", "key_del"}

\* other: the default that has been found, the resume that is to be the next one, or the one
\* whose proposal is to be deleted.
Local == [at: {"idle", "proposal_delete"} \cup StorageAwaits \cup Transactions \cup RunAwaits,
          file: Files \cup {None}, then: {"idle", "default_find", "delete_row"},
          owner: Candidates \cup {None}, other: Files \cup {None}, key: Keys \cup {None},
          status: Statuses \cup {None}]

TypeOK ==
  /\ object \in SUBSET Files
  /\ record \in [Files -> Records]
  /\ resume \in [Files -> Row \cup {None}]
  /\ rowlock \in [Files -> Requests \cup {None}]
  /\ held \in SUBSET (Files \X Keys)
  /\ raced \in SUBSET Candidates
  /\ strayed \in SUBSET Files
  /\ stuck \in SUBSET Files
  /\ outlived \in SUBSET (Files \X Keys)
  /\ proposed \in SUBSET Files /\ dismissed \in SUBSET Files
  /\ req \in [Requests -> Local]

Init ==
  /\ object = {}
  /\ record = [f \in Files |-> None]
  /\ resume = [f \in Files |-> None]
  /\ rowlock = [f \in Files |-> None]
  /\ held = {}
  /\ raced = {} /\ strayed = {} /\ stuck = {} /\ outlived = {}
  /\ proposed = {} /\ dismissed = {}
  /\ req = [r \in Requests |-> Idle]

----------------------------------------------------------------------------
(* Helpers *)

Owned(c) == {f \in Files : resume[f] # None /\ resume[f].owner = c}
Defaults(c) == {f \in Owned(c) : resume[f].default}

\* A row is written to unless another transaction has it.
Writable(r, f) == rowlock[f] \in {None, r}
Unlocked(r) == [f \in Files |-> IF rowlock[f] = r THEN None ELSE rowlock[f]]

\* The requests that may change the default of candidate c.
Changing(c) == {r \in Requests : ~At(r, "idle") /\ req[r].owner = c}

\* The runs on resume f under key k.
Runs(f, k) == {r \in Requests : ~At(r, "idle") /\ req[r].file = f /\ req[r].key = k}

\* The runs that will still take the status of f out of PROCESSING.
Processing(f) == {r \in Requests : /\ req[r].file = f
                                   /\ \/ At(r, "ask") \/ At(r, "propose")
                                      \/ At(r, "audit") /\ req[r].status = "processing"
                                      \/ At(r, "status") /\ req[r].status # "processing"}

Begin(r, local) == At(r, "idle") /\ req' = [req EXCEPT ![r] = local]
Return(r) == Goto(r, "idle")

BeginChange(r, c, local) ==
  /\ Begin(r, [local EXCEPT !.owner = c])
  /\ raced' = raced \cup (IF Changing(c) # {} THEN {c} ELSE {})

----------------------------------------------------------------------------
(* Uploading *)

\* uploadResume has the file stored ...
Upload(r, c) ==
  /\ BeginChange(r, c, [Idle EXCEPT !.at = "put_object", !.then = "default_find"])
  /\ UNCHANGED <<object, record, rows, held, strayed, stuck, outlived, proposals>>

\* ... finds the default of its candidate ...
DefaultFind(r) ==
  /\ At(r, "default_find")
  /\ \/ \E d \in Defaults(req[r].owner) :
          req' = [req EXCEPT ![r].at = "insert_resume", ![r].other = d]
     \/ Defaults(req[r].owner) = {} /\ Goto(r, "insert_resume")
  /\ UNCHANGED <<object, record, rows, held, history, proposals>>

\* An upload that takes the default it has found for the answer.
InsertResumeFound(r) ==
  /\ At(r, "insert_resume")
  /\ resume' = [resume EXCEPT ![req[r].file] =
       [owner |-> req[r].owner, default |-> req[r].other, status |-> "pending"]]
  /\ Return(r)
  /\ UNCHANGED <<object, record, rowlock, held, history, proposals>>

\* ... and inserts the row and commits.
InsertResume(r) ==
  /\ At(r, "insert_resume")
  /\ resume' = [resume EXCEPT ![req[r].file] =
       [owner |-> req[r].owner, default |-> req[r].other = None, status |-> "pending"]]
  /\ Return(r)
  /\ UNCHANGED <<object, record, rowlock, held, history, proposals>>

----------------------------------------------------------------------------
(* Choosing the default *)

\* setDefault reads the current default, outside of its transaction; the id it is given
\* may be that of any resume, or of one that is gone.
SetDefault(r, c, f) ==
  /\ resume[f] # None \/ record[f] = "gone"
  /\ \/ \E d \in Defaults(c) \ {f} :
          Begin(r, [Idle EXCEPT !.at = "default_unset", !.owner = c, !.file = f, !.other = d])
     \/ /\ Defaults(c) = {}
        /\ Begin(r, [Idle EXCEPT !.at = "default_set", !.owner = c, !.file = f])
  /\ raced' = raced \cup (IF Changing(c) # {} \/ f \notin Owned(c) THEN {c} ELSE {})
                    \cup {d \in Candidates \ {c} : f \in Owned(d)}
  /\ UNCHANGED <<object, record, rows, held, strayed, stuck, outlived, proposals>>

\* The current default is updated, and its row locked until the commit ...
DefaultUnset(r) ==
  LET d == req[r].other IN
  /\ At(r, "default_unset") /\ Writable(r, d)
  /\ rowlock' = [rowlock EXCEPT ![d] = IF resume[d] = None THEN None ELSE r]
  /\ Goto(r, "default_set")
  /\ UNCHANGED <<object, record, resume, held, history, proposals>>

\* ... and so is the row with the id, if there is one; the transaction commits.
DefaultSet(r) ==
  LET f == req[r].file
      d == req[r].other
  IN
  /\ At(r, "default_set") /\ Writable(r, f)
  /\ resume' = [g \in Files |-> IF resume[g] = None THEN None
                                ELSE IF g = f THEN [resume[g] EXCEPT !.default = TRUE]
                                ELSE IF g = d THEN [resume[g] EXCEPT !.default = FALSE]
                                ELSE resume[g]]
  /\ rowlock' = Unlocked(r)
  /\ Return(r)
  /\ UNCHANGED <<object, record, held, history, proposals>>

----------------------------------------------------------------------------
(* Deleting *)

\* deleteResume reads the row ...
DeleteResume(r, f) ==
  /\ resume[f] # None
  /\ BeginChange(r, resume[f].owner,
       [Idle EXCEPT !.at = IF resume[f].default THEN "next_find" ELSE "delete_find",
                    !.file = f, !.then = "delete_row"])
  /\ UNCHANGED <<object, record, rows, held, strayed, stuck, outlived, proposals>>

\* A delete that does not look for another resume to be the default.
NextFindNone(r) ==
  /\ At(r, "next_find")
  /\ Goto(r, "delete_find")
  /\ UNCHANGED <<object, record, rows, held, history, proposals>>

\* ... and in a transaction, for a default, finds another resume of the candidate ...
NextFind(r) ==
  LET others == Owned(req[r].owner) \ {req[r].file} IN
  /\ At(r, "next_find")
  /\ \/ \E g \in others : req' = [req EXCEPT ![r].at = "next_set", ![r].other = g]
     \/ others = {} /\ Goto(r, "delete_find")
  /\ UNCHANGED <<object, record, rows, held, history, proposals>>

\* ... to make it the default; the file is deleted by steps of StoredFiles ...
NextSet(r) ==
  LET g == req[r].other IN
  /\ At(r, "next_set") /\ Writable(r, g)
  /\ rowlock' = [rowlock EXCEPT ![g] = IF resume[g] = None THEN None ELSE r]
  /\ Goto(r, "delete_find")
  /\ UNCHANGED <<object, record, resume, held, history, proposals>>

\* ... before the row, and the transaction commits.
DeleteRow(r) ==
  LET f == req[r].file
      g == req[r].other
  IN
  /\ At(r, "delete_row") /\ Writable(r, f)
  /\ resume' = [h \in Files |->
       IF h = f \/ resume[h] = None THEN None
       ELSE IF h = g THEN [resume[h] EXCEPT !.default = TRUE] ELSE resume[h]]
  /\ rowlock' = Unlocked(r)
  /\ Return(r)
  /\ UNCHANGED <<object, record, held, history, proposals>>

\* DELETE /files/:id deletes a file whatever it is used for; its id is shown with the resume.
FilesDelete(r, f) ==
  /\ resume[f] # None /\ Found(f)
  /\ Begin(r, [Idle EXCEPT !.at = "delete_find", !.file = f])
  /\ strayed' = strayed \cup {f}
  /\ UNCHANGED <<object, record, rows, held, raced, stuck, outlived, proposals>>

----------------------------------------------------------------------------
(* Extraction *)

\* A lock that is read and then written.
ExtractNoNx(r, f, k) ==
  /\ Begin(r, [Idle EXCEPT !.at = "download", !.file = f, !.key = k])
  /\ held' = held \cup {<<f, k>>}
  /\ UNCHANGED <<object, record, rows, history, proposals>>

\* AiOperationCoordinator.run sets the key, which holds the user and the resume as well, if
\* it is not there.
Extract(r, f, k) ==
  /\ <<f, k>> \notin held
  /\ Begin(r, [Idle EXCEPT !.at = "download", !.file = f, !.key = k])
  /\ held' = held \cup {<<f, k>>}
  /\ UNCHANGED <<object, record, rows, history, proposals>>

GotoStatus(r, status) == req' = [req EXCEPT ![r].at = "status", ![r].status = status]

\* resumeContentForCandidate: the resume, its file and the object are there.
Download(r) ==
  /\ At(r, "download") /\ resume[req[r].file] # None /\ Available(req[r].file)
  /\ GotoStatus(r, "processing")
  /\ UNCHANGED <<object, record, rows, held, history, proposals>>

\* updateResumeParsingStatus finds the row and updates it ...
StatusUpdate(r) ==
  LET f      == req[r].file
      status == req[r].status
  IN
  /\ At(r, "status") /\ resume[f] # None /\ Writable(r, f)
  /\ resume' = [resume EXCEPT ![f].status = Shown(status)]
  /\ stuck' = IF status = "processing" THEN stuck ELSE stuck \ {f}
  /\ Goto(r, "audit")
  /\ UNCHANGED <<object, record, rowlock, held, raced, strayed, outlived, proposals>>

\* A request under key k is over: what is left of it is that its key may have expired.
Forget(r) ==
  outlived' = IF Runs(req[r].file, req[r].key) = {r}
              THEN outlived \ {<<req[r].file, req[r].key>>} ELSE outlived

\* ... and writes to the audit log.  After COMPLETED the run is over, and its key is kept.
Audit(r) ==
  /\ At(r, "audit")
  /\ CASE req[r].status = "processing" -> Goto(r, "ask") /\ UNCHANGED outlived
       [] req[r].status = "completed"  -> Return(r) /\ Forget(r)
       [] req[r].status = "failed"     -> Goto(r, "key_del") /\ UNCHANGED outlived
  /\ UNCHANGED <<object, record, rows, held, raced, strayed, stuck, proposals>>

\* AiClientService.postFile, whose errors, rejections and timeout of 60 s throw (FailRun);
\* saveProfileSuggestion finds the resume ...
Ask(r) ==
  /\ At(r, "ask") /\ resume[req[r].file] # None
  /\ Goto(r, "propose")
  /\ UNCHANGED <<object, record, rows, held, history, proposals>>

\* A run that goes on to COMPLETED before the proposal is saved.
ProposeNothing(r) ==
  /\ At(r, "propose")
  /\ GotoStatus(r, "completed")
  /\ UNCHANGED <<object, record, rows, held, history, proposals>>

\* ... and inserts the proposal, or updates the one there is, whether or not the resume has
\* been deleted since.
Propose(r) ==
  LET f == req[r].file IN
  /\ At(r, "propose")
  /\ proposed' = proposed \cup {f}
  /\ dismissed' = dismissed \ {f}
  /\ GotoStatus(r, "completed")
  /\ UNCHANGED <<object, record, rows, held, history>>

\* deleteProfileSuggestion reads the proposal ...
DeleteSuggestion(r, f) ==
  /\ f \in proposed
  /\ Begin(r, [Idle EXCEPT !.at = "proposal_delete", !.other = f])
  /\ UNCHANGED <<object, record, rows, held, history, proposals>>

\* ... and deletes it by its id, which an update by a later run has kept.  Others who were about
\* to delete it have nothing left to delete, and are over as well.
ProposalDelete(r) ==
  LET f == req[r].other IN
  /\ At(r, "proposal_delete")
  /\ proposed' = proposed \ {f}
  /\ dismissed' = dismissed \cup {f}
  /\ req' = [q \in Requests |-> IF At(q, "proposal_delete") /\ req[q].other = f THEN Idle ELSE req[q]]
  /\ UNCHANGED <<object, record, rows, held, history>>

\* After a failure the key is deleted, whoever holds it by now.
KeyDel(r) ==
  /\ At(r, "key_del")
  /\ held' = held \ {<<req[r].file, req[r].key>>}
  /\ Return(r) /\ Forget(r)
  /\ UNCHANGED <<object, record, rows, raced, strayed, stuck, proposals>>

\* Keys expire after 300 s.
Expire ==
  \E f \in Files, k \in Keys :
    /\ <<f, k>> \in held
    /\ held' = held \ {<<f, k>>}
    /\ outlived' = outlived \cup (IF Runs(f, k) # {} THEN {<<f, k>>} ELSE {})
    /\ UNCHANGED <<object, record, req, rows, raced, strayed, stuck, proposals>>

\* The AI service reports a status of its own (PATCH resumes/:resumeId/parsing-status).
ServiceStatus(f, status) ==
  /\ resume[f] # None /\ rowlock[f] = None
  /\ resume' = [resume EXCEPT ![f].status = Shown(status)]
  /\ stuck' = IF status = "processing" THEN stuck \cup {f} ELSE stuck \ {f}
  /\ dismissed' = IF status = "completed" THEN dismissed \cup {f} ELSE dismissed
  /\ UNCHANGED <<object, record, req, rowlock, held, raced, strayed, outlived, proposed>>

----------------------------------------------------------------------------
(* Failures *)

\* The file of r would stay without its resume, or the resume without its file, if r ended here.
Halfway(r) ==
  \/ req[r].at \in {"insert_record", "delete_save", "delete_remove", "delete_row"}
  \/ req[r].at \in {"delete_find", "delete_object"} /\ req[r].then = "idle"

Stray(r) == strayed' = strayed \cup (IF Halfway(r) THEN {req[r].file} ELSE {})

\* A statement, a store or a check throws: the transaction is rolled back.
Fail(r) ==
  /\ ~At(r, "idle") /\ req[r].at \notin RunAwaits \cup {"default_find", "insert_resume"}
  /\ rowlock' = Unlocked(r)
  /\ Return(r) /\ Stray(r)
  /\ UNCHANGED <<object, record, resume, held, raced, stuck, outlived, proposals>>

\* An upload whose transaction has failed leaves the file.
FailInsertLeave(r) ==
  /\ req[r].at \in {"default_find", "insert_resume"}
  /\ Return(r)
  /\ UNCHANGED <<object, record, rows, held, history, proposals>>

\* An upload whose transaction has failed deletes the file.
FailInsert(r) ==
  /\ req[r].at \in {"default_find", "insert_resume"}
  /\ req' = [req EXCEPT ![r].at = "delete_find", ![r].then = "idle", ![r].other = None]
  /\ UNCHANGED <<object, record, rows, held, history, proposals>>

\* A run that does not report that the AI service has failed.
FailRunSilent(r) ==
  /\ req[r].at \in RunAwaits
  /\ IF At(r, "key_del") THEN Return(r) /\ Forget(r) ELSE Goto(r, "key_del") /\ UNCHANGED outlived
  /\ stuck' = stuck \cup (IF At(r, "audit") \/ At(r, "status") THEN {req[r].file} ELSE {})
  /\ UNCHANGED <<object, record, rows, held, raced, strayed, proposals>>

\* A run that fails while the AI service or COMPLETED is awaited reports FAILED; before, and
\* if that fails as well, it deletes its key.
FailRun(r) ==
  LET reports == At(r, "ask") \/ At(r, "propose")
                 \/ (req[r].at \in {"status", "audit"} /\ req[r].status = "completed")
      f       == req[r].file
  IN
  /\ req[r].at \in RunAwaits
  /\ CASE reports          -> GotoStatus(r, "failed") /\ UNCHANGED <<stuck, outlived>>
       [] At(r, "key_del") -> Return(r) /\ Forget(r) /\ UNCHANGED stuck
       [] OTHER            -> /\ Goto(r, "key_del")
                              /\ stuck' = stuck \cup (IF r \in Processing(f) THEN {f} ELSE {})
                              /\ UNCHANGED outlived
  /\ UNCHANGED <<object, record, rows, held, raced, strayed, proposals>>

\* The process dies: what has been committed, stored and set stays.
Crash(r) ==
  LET f == req[r].file IN
  /\ ~At(r, "idle")
  /\ rowlock' = Unlocked(r)
  /\ Return(r)
  /\ strayed' = strayed \cup
       (IF Halfway(r) \/ req[r].at \in {"default_find", "insert_resume"} THEN {f} ELSE {})
  /\ stuck' = stuck \cup (IF r \in Processing(f) THEN {f} ELSE {})
  /\ IF req[r].key = None THEN UNCHANGED outlived ELSE Forget(r)
  /\ UNCHANGED <<object, record, resume, held, raced, proposals>>

----------------------------------------------------------------------------

ResumeRoutes(r) ==
  \/ \E c \in Candidates : Upload(r, c) \/ \E f \in Files : SetDefault(r, c, f)
  \/ \E f \in Files : DeleteResume(r, f)

SuggestionRoute(r) == \E f \in Files : DeleteSuggestion(r, f)

UploadStep(r) == DefaultFind(r) \/ InsertResume(r) \/ FailInsert(r)

DefaultStep(r) ==
  DefaultUnset(r) \/ DefaultSet(r) \/ NextFind(r) \/ NextSet(r) \/ DeleteRow(r)

RunStep(r) ==
  Download(r) \/ StatusUpdate(r) \/ Audit(r) \/ Ask(r) \/ Propose(r) \/ KeyDel(r) \/ FailRun(r)

Next ==
  \/ \E r \in Requests :
       \/ ResumeRoutes(r) \/ UploadStep(r) \/ DefaultStep(r) \/ RunStep(r) \/ ProposalDelete(r)
       \/ Fail(r) \/ Crash(r)
       \/ SuggestionRoute(r)
       \/ \E f \in Files : FilesDelete(r, f) \/ \E k \in Keys : Extract(r, f, k)
       \/ StorageStep(r) /\ UNCHANGED <<rows, held, history, proposals>>
  \/ Expire
  \/ \E f \in Files, status \in Statuses \ {"failed"} : ServiceStatus(f, status)

Spec == Init /\ [][Next]_vars

----------------------------------------------------------------------------
(* Properties *)

\* A candidate who has resumes has exactly one default, unless requests of the candidate that
\* change it have overlapped, or setDefault was given an id that is not one of the
\* candidate's resumes: uploading, setDefault and deleteResume each read the default and
\* write another row, and may fail or die at any step.
OneDefault ==
  \A c \in Candidates :
    c \in raced \/ (IF Owned(c) = {} THEN Defaults(c) = {} ELSE \E f \in Files : Defaults(c) = {f})

\* A resume has its file, and a file in the bucket has its resume, unless it was deleted
\* through /files, or the request that was storing or deleting it is still at it or ended
\* half-way: the bucket, files and resumes are written one after the other.
FilesMatchResumes ==
  \A f \in Files :
    \/ f \in strayed
    \/ \E r \in Requests : ~At(r, "idle") /\ req[r].file = f /\ req[r].key = None
    \/ resume[f] # None /\ Available(f)
    \/ resume[f] = None /\ f \notin object

\* Two runs of the AI on one resume have two keys, unless the key had expired while a run was
\* going on, which then deletes the key of its successor when it fails.
OneRunPerKey ==
  \A f \in Files, k \in Keys : <<f, k>> \notin outlived =>
    \A q, r \in Runs(f, k) : q = r /\ <<f, k>> \in held

\* What a resume shows of its extraction has something behind it.  PROCESSING: a run that will
\* say how it ended, unless the AI service said so, or a run died, could not report FAILED, or
\* could not write that it was processing to the audit log.  COMPLETED: a proposal, unless it
\* has been deleted, or the AI service said so.
StatusHasAReason ==
  \A f \in Files : resume[f] # None =>
    /\ resume[f].status = "processing" => Processing(f) # {} \/ f \in stuck
    /\ resume[f].status = "completed" => f \in proposed \cup dismissed
=============================================================================
