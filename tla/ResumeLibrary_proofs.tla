------------------------ MODULE ResumeLibrary_proofs ------------------------
(***************************************************************************)
(* For every number of candidates, files, keys and requests: a candidate   *)
(* whose requests do not overlap has one default, resumes and files come   *)
(* and go together but for requests cut off half-way, a key admits one run *)
(* of the AI service, and what a resume shows of its extraction has        *)
(* something behind it.  The invariants are proved one after the other:    *)
(* types and local variables, keys, statuses, files, defaults.             *)
(***************************************************************************)
EXTENDS ResumeLibrary, TLAPS

Storing  == {"insert_record", "default_find", "insert_resume"}
Deletion == {"delete_find", "delete_object", "delete_save", "delete_remove"}
Choosing == {"default_unset", "default_set"}
Removing == {"next_find", "next_set", "delete_row"}

\* A request is at an await of a handler, with the local variables its next steps use.
HasLocals(q) ==
  /\ q.at \in {"put_object", "proposal_delete"} \cup Storing \cup Deletion \cup Choosing
              \cup Removing \cup RunAwaits
  /\ IF q.at \in RunAwaits THEN q.key \in Keys /\ q.owner = None ELSE q.key = None
  /\ q.at \in RunAwaits \cup Storing \cup Deletion \cup Choosing \cup Removing => q.file \in Files
  /\ q.at \in {"put_object"} \cup Storing \cup Choosing \cup Removing => q.owner \in Candidates
  /\ q.at \in {"status", "audit"} => q.status \in {"processing", "completed", "failed"}
  /\ q.at \in {"put_object", "insert_record"} => q.then = "default_find"
  /\ q.at \in {"put_object", "insert_record", "default_find"} => q.other = None
  /\ q.at \in Deletion => IF q.then = "delete_row" THEN q.owner \in Candidates
                          ELSE q.then = "idle" /\ q.other = None
  /\ q.at \in Removing => q.then = "delete_row"
  /\ q.at \in {"proposal_delete", "default_unset", "next_set"} => q.other \in Files
  /\ q.at = "proposal_delete" => q.owner = None /\ q.file = None

LocalsStayTrue == \A r \in Requests : req[r] = Idle \/ HasLocals(req[r])

TInv == TypeOK /\ LocalsStayTrue

\* A run that reports COMPLETED has saved its proposal.
ProposalsAreSaved ==
  \A r \in Requests : At(r, "status") /\ req[r].status = "completed" =>
    req[r].file \in proposed \cup dismissed

SInv == StatusHasAReason /\ ProposalsAreSaved

\* A request that has stored a file without a resume as yet, or deletes one again.
Uploading(q) == q.at \in Storing \/ (q.at \in Deletion /\ q.then = "idle" /\ q.owner # None)

\* An object is only put under a new key, so that a deleted file has no object; and a row of
\* resumes is only inserted after its file's.
FilesAreKept ==
  /\ \A f \in Files : record[f] # "failed"
  /\ \A f \in Files : record[f] \in {"deleted", "gone"} => f \notin object
  /\ \A f \in Files : resume[f] # None => record[f] # None

\* The file a request works on, and the other resume it is about to change.
KnowsFiles(r) ==
  LET q == req[r]
      f == req[r].file
  IN
  /\ q.at \in Deletion \cup Removing \cup Choosing => record[f] # None
  /\ q.at \notin {"idle", "proposal_delete"} /\ q.other # None => record[q.other] # None
  /\ q.at \in {"delete_save", "delete_remove", "delete_row"} => f \notin object
  /\ q.at \in Deletion /\ q.then = "idle" /\ q.owner = None => f \in strayed
  /\ q.at \in Storing => f \in object /\ record[f] = IF At(r, "insert_record") THEN None ELSE "active"
  /\ Uploading(q) /\ q.at \in {"delete_find", "delete_object"} => f \in object /\ record[f] = "active"
  /\ Uploading(q) => record[f] # "gone"

\* Nobody but a run, which changes no file, works on a file that is being uploaded.
UploadsAreAlone ==
  \A r \in Requests : Uploading(req[r]) =>
    /\ resume[req[r].file] = None
    /\ \A q \in Requests \ {r} : ~At(q, "idle") =>
         /\ req[q].file = req[r].file => req[q].key # None
         /\ req[q].other = req[r].file => At(q, "proposal_delete")

\* The requests that would leave a file without its resume, or a resume without its file.
Responsible(f) == {r \in Requests : req[r].file = f /\ (Halfway(r) \/ req[r].at \in Storing)}

Settled(f) == IF resume[f] = None THEN f \notin object ELSE Available(f)

FilesSettle == \A f \in Files : f \in strayed \/ Settled(f) \/ Responsible(f) # {}

FInv ==
  /\ FilesAreKept
  /\ \A r \in Requests : KnowsFiles(r)
  /\ UploadsAreAlone
  /\ FilesSettle

\* Resumes that a request may change belong to its candidate, or to one whose requests are
\* known to interfere.
Belongs(f, owners) == resume[f] # None => resume[f].owner \in owners

KnowsOwners(r) ==
  LET q == req[r] IN
  /\ q.at \in Choosing => Belongs(q.file, {q.owner} \cup raced)
  /\ q.at \in Removing \cup Deletion /\ q.then = "delete_row" => Belongs(q.file, {q.owner})
  /\ q.at \in {"insert_resume"} \cup Choosing \cup Removing \cup Deletion /\ q.other # None =>
       Belongs(q.other, {q.owner})

\* What a request has read of its candidate's resumes is still true, if none interferes.
KnowsDefault(r) ==
  LET q == req[r]
      c == req[r].owner
      f == req[r].file
  IN
  c # None /\ c \notin raced =>
    /\ q.at = "insert_resume" => IF q.other = None THEN Owned(c) = {} ELSE Defaults(c) = {q.other}
    /\ q.at \in Choosing =>
         f \in Owned(c) /\ IF q.other = None THEN Defaults(c) = {}
                           ELSE Defaults(c) = {q.other} /\ q.other # f
    /\ q.at = "next_find" => Defaults(c) = {f} /\ q.other = None
    /\ q.at = "next_set" \/ (q.at \in Deletion \cup {"delete_row"} /\ q.then = "delete_row") =>
         /\ f \in Owned(c)
         /\ IF q.other = None THEN Defaults(c) = {f} => Owned(c) = {f}
            ELSE Defaults(c) = {f} /\ q.other \in Owned(c) /\ q.other # f

ChangesAreAlone ==
  \A c \in Candidates : c \notin raced => \A q, r \in Changing(c) : q = r

DInv ==
  /\ OneDefault
  /\ ChangesAreAlone
  /\ \A r \in Requests : KnowsOwners(r) /\ KnowsDefault(r)

----------------------------------------------------------------------------
(* Types and local variables: the steps of one request *)

Awaits == {"put_object", "proposal_delete"} \cup Storing \cup Deletion \cup Choosing
          \cup Removing \cup RunAwaits

Alone(r) == \A q \in Requests \ {r} : req'[q] = req[q]

\* What a request is left with by a step of its own.
Moved(r) ==
  /\ req' \in [Requests -> Local] /\ Alone(r)
  /\ req'[r] = Idle \/ HasLocals(req'[r])

\* A request is given new locals.
LEMMA Becomes ==
  ASSUME TInv, NEW r \in Requests, NEW local \in Local, local = Idle \/ HasLocals(local),
         req' = [req EXCEPT ![r] = local]
  PROVE  Moved(r) /\ req'[r] = local
  BY DEF Moved, Alone, TInv, TypeOK

\* Idle requests are typed, and are at no await.
LEMMA IdleFacts ==
  /\ Idle \in Local /\ ~HasLocals(Idle)
  /\ Idle.at = "idle" /\ Idle.then = "idle" /\ Idle.file = None /\ Idle.owner = None
  /\ Idle.other = None /\ Idle.key = None /\ Idle.status = None
  BY DEF Idle, Local, HasLocals, Storing, Deletion, Choosing, Removing, RunAwaits

\* A request is either idle or has its locals.
LEMMA LocalsOf ==
  ASSUME TInv, NEW r \in Requests
  PROVE  /\ req[r] \in Local /\ req \in [Requests -> Local]
         /\ At(r, "idle") => req[r] = Idle
         /\ ~At(r, "idle") => HasLocals(req[r]) /\ req[r].at \in Awaits
  <1>1. req[r] = Idle \/ HasLocals(req[r])
    BY DEF TInv, LocalsStayTrue
  <1>2. req[r] \in Local /\ req \in [Requests -> Local]
    BY DEF TInv, TypeOK
  <1>3. HasLocals(req[r]) => req[r].at \in Awaits /\ req[r].at # "idle"
    BY DEF HasLocals, Awaits, Storing, Deletion, Choosing, Removing, RunAwaits
  <1>4. Idle.at = "idle"
    BY IdleFacts
  <1>5. QED
    BY <1>1, <1>2, <1>3, <1>4 DEF At

\* A request that is over has no locals.
LEMMA Returns ==
  ASSUME TInv, NEW r \in Requests, Goto(r, "idle")
  PROVE  req' = [req EXCEPT ![r] = Idle] /\ req'[r] = Idle /\ Moved(r)
  <1>1. req[r] \in Local /\ req \in [Requests -> Local]
    BY DEF TypeOK, TInv
  <1>2. DOMAIN req[r] = {"at", "file", "then", "owner", "other", "key", "status"}
    BY <1>1 DEF Local
  <1>3. [k \in DOMAIN req[r] |-> IF k \in {"at", "then"} THEN "idle" ELSE None] = Idle
    BY <1>2 DEF Idle
  <1>4. req' = [req EXCEPT ![r] = Idle]
    BY <1>3 DEF Goto
  <1>5. QED
    BY <1>4, Becomes, IdleFacts

\* A request that goes on keeps them.
LEMMA GoesOn ==
  ASSUME TInv, NEW r \in Requests, NEW label \in Awaits, Goto(r, label)
  PROVE  /\ req' \in [Requests -> Local] /\ Alone(r)
         /\ req'[r] = [req[r] EXCEPT !.at = label]
         /\ req'[r].at = label /\ req'[r].file = req[r].file /\ req'[r].then = req[r].then
         /\ req'[r].owner = req[r].owner /\ req'[r].other = req[r].other
         /\ req'[r].key = req[r].key /\ req'[r].status = req[r].status
  <1>1. req[r] \in Local /\ req \in [Requests -> Local]
    BY DEF TInv, TypeOK
  <1>2. label # "idle"
    BY DEF Awaits, Storing, Deletion, Choosing, Removing, RunAwaits
  <1>3. req' = [req EXCEPT ![r] = [req[r] EXCEPT !.at = label]]
    BY <1>2 DEF Goto
  <1>4. [req[r] EXCEPT !.at = label] \in Local
    <2>1. label \in {"idle", "proposal_delete"} \cup StorageAwaits \cup Transactions \cup RunAwaits
      BY DEF Awaits, StorageAwaits, Transactions, RunAwaits, Storing, Deletion, Choosing, Removing
    <2>2. QED
      BY <1>1, <2>1 DEF Local
  <1>5. QED
    BY <1>1, <1>3, <1>4 DEF Alone, Local

\* What the locals of a request say at each await.
LEMMA AtAwait ==
  ASSUME TInv, NEW r \in Requests, NEW label \in Awaits, At(r, label)
  PROVE  /\ HasLocals(req[r]) /\ req[r] \in Local /\ req \in [Requests -> Local]
         /\ req[r].at = label /\ ~At(r, "idle")
  <1>1. label # "idle"
    BY DEF Awaits, Storing, Deletion, Choosing, Removing, RunAwaits
  <1>2. QED
    BY <1>1, LocalsOf DEF At

\* A request that goes on to a label for which it has the locals.
LEMMA GoesWell ==
  ASSUME TInv, NEW r \in Requests, NEW label \in Awaits, Goto(r, label),
         ~At(r, "idle"),
         HasLocals(req[r]) => HasLocals([req[r] EXCEPT !.at = label])
  PROVE  Moved(r) /\ req'[r] = [req[r] EXCEPT !.at = label]
  BY GoesOn, LocalsOf DEF Moved

\* Routes begin with locals of their own.
LEMMA RoutesMove ==
  ASSUME TInv, NEW r \in Requests,
         ResumeRoutes(r) \/ SuggestionRoute(r)
         \/ \E f \in Files : FilesDelete(r, f) \/ \E k \in Keys : Extract(r, f, k)
  PROVE  Moved(r)
  <1>1. ASSUME NEW c \in Candidates, Upload(r, c)
        PROVE  Moved(r)
    <2> DEFINE l == [Idle EXCEPT !.at = "put_object", !.then = "default_find", !.owner = c]
    <2>1. l \in Local /\ HasLocals(l)
      BY ResumeAssumption DEF Idle, Local, StorageAwaits, HasLocals, Storing, Deletion, Choosing, Removing, RunAwaits, Awaits
    <2>2. req' = [req EXCEPT ![r] = l]
      BY <1>1 DEF Upload, BeginChange, Begin, Idle
    <2>3. QED
      BY <2>1, <2>2, Becomes
  <1>2. ASSUME NEW c \in Candidates, NEW f \in Files, SetDefault(r, c, f)
        PROVE  Moved(r)
    <2> DEFINE l1(d) == [Idle EXCEPT !.at = "default_unset", !.owner = c, !.file = f, !.other = d]
               l2    == [Idle EXCEPT !.at = "default_set", !.owner = c, !.file = f]
    <2>1. \A d \in Files : l1(d) \in Local /\ HasLocals(l1(d))
      BY DEF Idle, Local, Transactions, HasLocals, Storing, Deletion, Choosing, Removing, RunAwaits, Awaits
    <2>2. l2 \in Local /\ HasLocals(l2)
      BY DEF Idle, Local, Transactions, HasLocals, Storing, Deletion, Choosing, Removing, RunAwaits, Awaits
    <2>3. (\E d \in Files : req' = [req EXCEPT ![r] = l1(d)]) \/ req' = [req EXCEPT ![r] = l2]
      BY <1>2 DEF SetDefault, Begin, Defaults, Owned
    <2>4. QED
      BY <2>1, <2>2, <2>3, Becomes
  <1>3. ASSUME NEW f \in Files, DeleteResume(r, f)
        PROVE  Moved(r)
    <2> DEFINE c == resume[f].owner
               l1 == [Idle EXCEPT !.at = "next_find", !.file = f, !.then = "delete_row", !.owner = c]
               l2 == [Idle EXCEPT !.at = "delete_find", !.file = f, !.then = "delete_row", !.owner = c]
    <2>1. c \in Candidates
      BY <1>3 DEF DeleteResume, TInv, TypeOK, Row
    <2>2. l1 \in Local /\ HasLocals(l1)
      BY <2>1 DEF Idle, Local, Transactions, HasLocals, Storing, Deletion, Choosing, Removing, RunAwaits, Awaits
    <2>3. l2 \in Local /\ HasLocals(l2)
      BY <2>1 DEF Idle, Local, StorageAwaits, HasLocals, Storing, Deletion, Choosing, Removing, RunAwaits, Awaits
    <2>4. req' = [req EXCEPT ![r] = l1] \/ req' = [req EXCEPT ![r] = l2]
      BY <1>3 DEF DeleteResume, BeginChange, Begin, Idle
    <2>5. QED
      BY <2>2, <2>3, <2>4, Becomes
  <1>4. ASSUME NEW f \in Files, DeleteSuggestion(r, f)
        PROVE  Moved(r)
    <2> DEFINE l == [Idle EXCEPT !.at = "proposal_delete", !.other = f]
    <2>1. l \in Local /\ HasLocals(l)
      BY DEF Idle, Local, HasLocals, Storing, Deletion, Choosing, Removing, RunAwaits, Awaits
    <2>2. req' = [req EXCEPT ![r] = l]
      BY <1>4 DEF DeleteSuggestion, Begin
    <2>3. QED
      BY <2>1, <2>2, Becomes
  <1>5. ASSUME NEW f \in Files, FilesDelete(r, f)
        PROVE  Moved(r)
    <2> DEFINE l == [Idle EXCEPT !.at = "delete_find", !.file = f]
    <2>1. l \in Local /\ HasLocals(l)
      BY DEF Idle, Local, StorageAwaits, HasLocals, Storing, Deletion, Choosing, Removing, RunAwaits, Awaits
    <2>2. req' = [req EXCEPT ![r] = l]
      BY <1>5 DEF FilesDelete, Begin
    <2>3. QED
      BY <2>1, <2>2, Becomes
  <1>6. ASSUME NEW f \in Files, NEW k \in Keys, Extract(r, f, k)
        PROVE  Moved(r)
    <2> DEFINE l == [Idle EXCEPT !.at = "download", !.file = f, !.key = k]
    <2>1. l \in Local /\ HasLocals(l)
      BY DEF Idle, Local, HasLocals, Storing, Deletion, Choosing, Removing, RunAwaits, Awaits
    <2>2. req' = [req EXCEPT ![r] = l]
      BY <1>6 DEF Extract, Begin
    <2>3. QED
      BY <2>1, <2>2, Becomes
  <1>7. QED
    BY <1>1, <1>2, <1>3, <1>4, <1>5, <1>6 DEF ResumeRoutes, SuggestionRoute

\* Uploads have found a default or none, and delete the file again when they fail.
LEMMA UploadsMove ==
  ASSUME TInv, NEW r \in Requests, UploadStep(r)
  PROVE  Moved(r)
  <1>1. CASE DefaultFind(r)
    <2> DEFINE l(d) == [req[r] EXCEPT !.at = "insert_resume", !.other = d]
    <2>1. HasLocals(req[r]) /\ req[r] \in Local /\ req[r].at = "default_find"
      BY <1>1, AtAwait DEF DefaultFind, Awaits, Storing
    <2>2. \A d \in Files : l(d) \in Local
      BY <2>1 DEF Local, Transactions
    <2>3. \A d \in Files : HasLocals(l(d))
      BY <2>1 DEF Local, HasLocals, Storing, Deletion, Choosing, Removing, RunAwaits, Awaits
    <2>4. CASE \E d \in Files : req' = [req EXCEPT ![r].at = "insert_resume", ![r].other = d]
      <3>1. PICK d \in Files : req' = [req EXCEPT ![r].at = "insert_resume", ![r].other = d]
        BY <2>4
      <3>2. req' = [req EXCEPT ![r] = l(d)]
        BY <3>1, LocalsOf
      <3>3. QED
        BY <2>2, <2>3, <3>2, Becomes
    <2>5. CASE Goto(r, "insert_resume")
      <3>1. HasLocals([req[r] EXCEPT !.at = "insert_resume"])
        BY <2>1 DEF Local, HasLocals, Storing, Deletion, Choosing, Removing, RunAwaits, Awaits
      <3>2. "insert_resume" \in Awaits /\ ~At(r, "idle")
        BY <2>1 DEF Awaits, Storing, At
      <3>3. QED
        BY <2>5, <3>1, <3>2, GoesWell
    <2>6. QED
      BY <1>1, <2>4, <2>5 DEF DefaultFind, Defaults, Owned
  <1>2. CASE InsertResume(r)
    BY <1>2, Returns DEF InsertResume, Return
  <1>3. CASE FailInsert(r)
    <2> DEFINE l == [req[r] EXCEPT !.at = "delete_find", !.then = "idle", !.other = None]
    <2>1. HasLocals(req[r]) /\ req[r] \in Local /\ req[r].at \in {"default_find", "insert_resume"}
      BY <1>3, AtAwait DEF FailInsert, Awaits, Storing, At
    <2>2. l \in Local
      BY <2>1 DEF Local, StorageAwaits
    <2>3. HasLocals(l)
      BY <2>1, ResumeAssumption DEF Local, HasLocals, Storing, Deletion, Choosing, Removing, RunAwaits, Awaits
    <2>4. req' = [req EXCEPT ![r] = l]
      BY <1>3, LocalsOf DEF FailInsert
    <2>5. QED
      BY <2>2, <2>3, <2>4, Becomes
  <1>4. QED
    BY <1>1, <1>2, <1>3 DEF UploadStep

\* A step that only moves a request on.
LEMMA PlainMove ==
  ASSUME TInv, NEW r \in Requests, NEW from \in Awaits, At(r, from),
         NEW label \in Awaits \cup {"idle"}, Goto(r, label),
         label # "idle" /\ HasLocals(req[r]) => HasLocals([req[r] EXCEPT !.at = label])
  PROVE  /\ Moved(r)
         /\ req'[r] = IF label = "idle" THEN Idle ELSE [req[r] EXCEPT !.at = label]
  <1>1. ~At(r, "idle")
    BY AtAwait
  <1>2. CASE label = "idle"
    BY <1>2, Returns
  <1>3. CASE label \in Awaits /\ label # "idle"
    BY <1>1, <1>3, GoesWell
  <1>4. QED
    BY <1>2, <1>3

\* Changes of the default.
LEMMA DefaultsMove ==
  ASSUME TInv, NEW r \in Requests, DefaultStep(r)
  PROVE  Moved(r)
  <1>1. CASE DefaultUnset(r)
    <2>1. At(r, "default_unset") /\ Goto(r, "default_set")
      BY <1>1 DEF DefaultUnset
    <2>2. HasLocals(req[r]) /\ req[r] \in Local
      BY <2>1, AtAwait DEF Awaits, Choosing
    <2>3. HasLocals([req[r] EXCEPT !.at = "default_set"])
      BY <2>1, <2>2 DEF Local, At, HasLocals, Storing, Deletion, Choosing, Removing, RunAwaits, Awaits
    <2>4. QED
      BY <2>1, <2>3, PlainMove DEF Awaits, Choosing
  <1>2. CASE DefaultSet(r)
    BY <1>2, Returns DEF DefaultSet, Return
  <1>3. CASE NextFind(r)
    <2> DEFINE l(g) == [req[r] EXCEPT !.at = "next_set", !.other = g]
    <2>1. HasLocals(req[r]) /\ req[r] \in Local /\ req[r].at = "next_find"
      BY <1>3, AtAwait DEF NextFind, Awaits, Removing
    <2>2. \A g \in Files : l(g) \in Local
      BY <2>1 DEF Local, Transactions
    <2>3. \A g \in Files : HasLocals(l(g))
      BY <2>1 DEF Local, HasLocals, Storing, Deletion, Choosing, Removing, RunAwaits, Awaits
    <2>4. CASE \E g \in Files : req' = [req EXCEPT ![r].at = "next_set", ![r].other = g]
      <3>1. PICK g \in Files : req' = [req EXCEPT ![r].at = "next_set", ![r].other = g]
        BY <2>4
      <3>2. req' = [req EXCEPT ![r] = l(g)]
        BY <3>1, LocalsOf
      <3>3. QED
        BY <2>2, <2>3, <3>2, Becomes
    <2>5. CASE Goto(r, "delete_find")
      <3>1. HasLocals([req[r] EXCEPT !.at = "delete_find"])
        BY <2>1 DEF Local, HasLocals, Storing, Deletion, Choosing, Removing, RunAwaits, Awaits
      <3>2. QED
        BY <1>3, <2>5, <3>1, PlainMove DEF NextFind, Awaits, Removing, Deletion
    <2>6. QED
      BY <1>3, <2>4, <2>5 DEF NextFind, Owned
  <1>4. CASE NextSet(r)
    <2>1. At(r, "next_set") /\ Goto(r, "delete_find")
      BY <1>4 DEF NextSet
    <2>2. HasLocals(req[r]) /\ req[r] \in Local
      BY <2>1, AtAwait DEF Awaits, Removing
    <2>3. HasLocals([req[r] EXCEPT !.at = "delete_find"])
      BY <2>1, <2>2 DEF Local, At, HasLocals, Storing, Deletion, Choosing, Removing, RunAwaits, Awaits
    <2>4. QED
      BY <2>1, <2>3, PlainMove DEF Awaits, Removing, Deletion
  <1>5. CASE DeleteRow(r)
    BY <1>5, Returns DEF DeleteRow, Return
  <1>6. QED
    BY <1>1, <1>2, <1>3, <1>4, <1>5 DEF DefaultStep

\* A run goes on with a status.
LEMMA StatusMoves ==
  ASSUME TInv, NEW r \in Requests, req[r].at \in RunAwaits,
         NEW status \in {"processing", "completed", "failed"}, GotoStatus(r, status)
  PROVE  Moved(r) /\ req'[r] = [req[r] EXCEPT !.at = "status", !.status = status]
  <1> DEFINE l == [req[r] EXCEPT !.at = "status", !.status = status]
  <1>1. HasLocals(req[r]) /\ req[r] \in Local
    BY AtAwait DEF Awaits, At
  <1>2. l \in Local
    BY <1>1 DEF Local, RunAwaits, Statuses
  <1>3. HasLocals(l)
    BY <1>1 DEF Local, HasLocals, Storing, Deletion, Choosing, Removing, RunAwaits, Awaits
  <1>4. req' = [req EXCEPT ![r] = l]
    BY LocalsOf DEF GotoStatus
  <1>5. QED
    BY <1>2, <1>3, <1>4, Becomes

\* A run that is cut off deletes its key, if it can.
LEMMA RunFails ==
  ASSUME TInv, NEW r \in Requests, req[r].at \in RunAwaits, Goto(r, "key_del")
  PROVE  Moved(r) /\ req'[r] = [req[r] EXCEPT !.at = "key_del"]
  <1>1. HasLocals(req[r]) /\ req[r] \in Local
    BY AtAwait DEF Awaits, At
  <1>2. HasLocals([req[r] EXCEPT !.at = "key_del"])
    BY <1>1 DEF Local, HasLocals, Storing, Deletion, Choosing, Removing, RunAwaits, Awaits
  <1>3. QED
    BY <1>2, PlainMove DEF Awaits, RunAwaits, At

\* The runs of the AI service.
LEMMA RunsMove ==
  ASSUME TInv, NEW r \in Requests, RunStep(r)
  PROVE  Moved(r)
  <1>1. CASE Download(r)
    BY <1>1, StatusMoves DEF Download, RunAwaits, At
  <1>2. CASE StatusUpdate(r)
    <2>1. At(r, "status") /\ Goto(r, "audit")
      BY <1>2 DEF StatusUpdate
    <2>2. HasLocals(req[r]) /\ req[r] \in Local
      BY <2>1, AtAwait DEF Awaits, RunAwaits
    <2>3. HasLocals([req[r] EXCEPT !.at = "audit"])
      BY <2>1, <2>2 DEF Local, At, HasLocals, Storing, Deletion, Choosing, Removing, RunAwaits, Awaits
    <2>4. QED
      BY <2>1, <2>3, PlainMove DEF Awaits, RunAwaits
  <1>3. CASE Audit(r)
    <2>1. At(r, "audit")
      BY <1>3 DEF Audit
    <2>2. HasLocals(req[r]) /\ req[r] \in Local
      BY <2>1, AtAwait DEF Awaits, RunAwaits
    <2>3. HasLocals([req[r] EXCEPT !.at = "ask"])
      BY <2>1, <2>2 DEF Local, At, HasLocals, Storing, Deletion, Choosing, Removing, RunAwaits, Awaits
    <2>4. HasLocals([req[r] EXCEPT !.at = "key_del"])
      BY <2>1, <2>2 DEF Local, At, HasLocals, Storing, Deletion, Choosing, Removing, RunAwaits, Awaits
    <2>5. req[r].status \in {"processing", "completed", "failed"}
      BY <2>1, <2>2 DEF HasLocals, At
    <2>6. Goto(r, "ask") \/ Goto(r, "idle") \/ Goto(r, "key_del")
      BY <1>3, <2>5 DEF Audit, Return
    <2>7. QED
      BY <2>1, <2>3, <2>4, <2>6, PlainMove DEF Awaits, RunAwaits
  <1>4. CASE Ask(r)
    <2>1. At(r, "ask") /\ Goto(r, "propose")
      BY <1>4 DEF Ask
    <2>2. HasLocals(req[r]) /\ req[r] \in Local
      BY <2>1, AtAwait DEF Awaits, RunAwaits
    <2>3. HasLocals([req[r] EXCEPT !.at = "propose"])
      BY <2>1, <2>2 DEF Local, At, HasLocals, Storing, Deletion, Choosing, Removing, RunAwaits, Awaits
    <2>4. QED
      BY <2>1, <2>3, PlainMove DEF Awaits, RunAwaits
  <1>5. CASE Propose(r)
    BY <1>5, StatusMoves DEF Propose, RunAwaits, At
  <1>6. CASE KeyDel(r)
    BY <1>6, Returns DEF KeyDel, Return
  <1>7. CASE FailRun(r)
    <2>1. GotoStatus(r, "failed") \/ Goto(r, "idle") \/ Goto(r, "key_del")
      BY <1>7 DEF FailRun, Return
    <2>2. req[r].at \in RunAwaits
      BY <1>7 DEF FailRun
    <2>3. QED
      BY <2>1, <2>2, StatusMoves, Returns, RunFails
  <1>8. QED
    BY <1>1, <1>2, <1>3, <1>4, <1>5, <1>6, <1>7 DEF RunStep

\* The operations of StoredFiles: at its end an operation goes on at then.
LEMMA StorageMoves ==
  ASSUME TInv, NEW r \in Requests, StorageStep(r)
  PROVE  Moved(r)
  <1>1. ASSUME NEW f \in Files, PutObject(r, f)
        PROVE  Moved(r)
    <2> DEFINE l == [req[r] EXCEPT !.at = "insert_record", !.file = f]
    <2>1. HasLocals(req[r]) /\ req[r] \in Local /\ req[r].at = "put_object"
      BY <1>1, AtAwait DEF PutObject, Awaits
    <2>2. l \in Local
      BY <2>1 DEF Local, StorageAwaits
    <2>3. HasLocals(l)
      BY <2>1 DEF Local, HasLocals, Storing, Deletion, Choosing, Removing, RunAwaits, Awaits
    <2>4. req' = [req EXCEPT ![r] = l]
      BY <1>1, LocalsOf DEF PutObject
    <2>5. QED
      BY <2>2, <2>3, <2>4, Becomes
  <1>2. CASE InsertRecord(r)
    <2>1. At(r, "insert_record") /\ Goto(r, req[r].then)
      BY <1>2 DEF InsertRecord
    <2>2. HasLocals(req[r]) /\ req[r] \in Local
      BY <2>1, AtAwait DEF Awaits, Storing
    <2>3. req[r].then = "default_find"
      BY <2>1, <2>2 DEF HasLocals, At, Storing
    <2>4. HasLocals([req[r] EXCEPT !.at = "default_find"])
      BY <2>1, <2>2, <2>3 DEF Local, At, HasLocals, Storing, Deletion, Choosing, Removing, RunAwaits, Awaits
    <2>5. QED
      BY <2>1, <2>3, <2>4, PlainMove DEF Awaits, Storing
  <1>3. ASSUME NEW from \in Deletion, NEW label \in Deletion, At(r, from),
               Goto(r, label) \/ Goto(r, req[r].then)
        PROVE  Moved(r)
    <2>1. HasLocals(req[r]) /\ req[r] \in Local
      BY <1>3, AtAwait DEF Awaits
    <2>2. req[r].then \in {"idle", "delete_row"}
      BY <1>3, <2>1 DEF HasLocals, At
    <2>3. HasLocals([req[r] EXCEPT !.at = label])
      BY <1>3, <2>1 DEF Local, At, HasLocals, Storing, Deletion, Choosing, Removing, RunAwaits, Awaits
    <2>4. req[r].then = "delete_row" => HasLocals([req[r] EXCEPT !.at = "delete_row"])
      BY <1>3, <2>1 DEF Local, At, HasLocals, Storing, Deletion, Choosing, Removing, RunAwaits, Awaits
    <2>5. label \in Awaits /\ from \in Awaits /\ "delete_row" \in Awaits
      BY DEF Awaits, Removing
    <2>6. CASE Goto(r, label)
      BY <1>3, <2>3, <2>5, <2>6, PlainMove
    <2>7. CASE Goto(r, "idle")
      BY <2>7, Returns
    <2>8. CASE Goto(r, "delete_row") /\ req[r].then = "delete_row"
      BY <1>3, <2>4, <2>5, <2>8, PlainMove
    <2>9. QED
      BY <1>3, <2>2, <2>6, <2>7, <2>8
  <1>4. CASE DeleteFind(r)
    BY <1>3, <1>4 DEF DeleteFind, Deletion
  <1>5. CASE DeleteObject(r)
    BY <1>3, <1>5 DEF DeleteObject, Deletion
  <1>6. CASE DeleteSave(r)
    BY <1>3, <1>6 DEF DeleteSave, Deletion
  <1>7. CASE DeleteRemove(r)
    BY <1>3, <1>7 DEF DeleteRemove, Deletion
  <1>8. QED
    BY <1>1, <1>2, <1>4, <1>5, <1>6, <1>7 DEF StorageStep

\* The steps in which one request moves and the others stay where they are.
Solo(r) ==
  \/ ResumeRoutes(r) \/ SuggestionRoute(r)
  \/ \E f \in Files : FilesDelete(r, f) \/ \E k \in Keys : Extract(r, f, k)
  \/ UploadStep(r) \/ DefaultStep(r) \/ RunStep(r) \/ Fail(r) \/ Crash(r)
  \/ StorageStep(r) /\ UNCHANGED <<rows, held, history, proposals>>

\* Whatever a request does, its locals stay well-formed and those of the others stay the same.
LEMMA SoloMoves ==
  ASSUME TInv, NEW r \in Requests, Solo(r)
  PROVE  Moved(r)
  <1>1. CASE Fail(r) \/ Crash(r)
    BY <1>1, Returns DEF Fail, Crash, Return
  <1>2. QED
    BY <1>1, RoutesMove, UploadsMove, DefaultsMove, RunsMove, StorageMoves DEF Solo

\* A proposal that is deleted ends the requests that were about to delete it.
LEMMA DismissalMoves ==
  ASSUME TInv, NEW r \in Requests, ProposalDelete(r)
  PROVE  /\ req' \in [Requests -> Local]
         /\ \A q \in Requests : \/ req'[q] = req[q]
                                \/ req'[q] = Idle /\ At(q, "proposal_delete")
  <1>1. req' = [q \in Requests |->
                  IF At(q, "proposal_delete") /\ req[q].other = req[r].other THEN Idle ELSE req[q]]
    BY DEF ProposalDelete
  <1>2. QED
    BY <1>1, LocalsOf, IdleFacts

\* The cases of a step.
LEMMA StepCases ==
  ASSUME Next
  PROVE  \/ \E r \in Requests : Solo(r) \/ ProposalDelete(r)
         \/ Expire /\ UNCHANGED req
         \/ \E f \in Files, status \in Statuses \ {"failed"} :
              ServiceStatus(f, status) /\ UNCHANGED req
  <1>1. Expire => UNCHANGED req
    BY DEF Expire
  <1>2. \A f \in Files, status \in Statuses \ {"failed"} : ServiceStatus(f, status) => UNCHANGED req
    BY DEF ServiceStatus
  <1>3. QED
    BY <1>1, <1>2 DEF Next, Solo

----------------------------------------------------------------------------
(* Types and local variables: the tables *)

FilesOK == object \in SUBSET Files /\ record \in [Files -> Records]

RowsOK == resume \in [Files -> Row \cup {None}] /\ rowlock \in [Files -> Requests \cup {None}]

RestOK ==
  /\ held \in SUBSET (Files \X Keys) /\ outlived \in SUBSET (Files \X Keys)
  /\ raced \in SUBSET Candidates /\ strayed \in SUBSET Files /\ stuck \in SUBSET Files
  /\ proposed \in SUBSET Files /\ dismissed \in SUBSET Files

\* Objects and their rows keep their types.
LEMMA FilesType ==
  ASSUME TInv, Next
  PROVE  FilesOK'
  <1>0. FilesOK
    BY DEF TInv, TypeOK, FilesOK
  <1>1. ASSUME NEW r \in Requests, StorageStep(r)
        PROVE  FilesOK'
    <2>1. \A label \in Awaits : At(r, label) => HasLocals(req[r]) /\ req[r].at = label
      BY AtAwait
    <2>2. req[r].at \in {"insert_record"} \cup Deletion => req[r].file \in Files
      BY <2>1 DEF At, HasLocals, Storing, Deletion, Choosing, Removing, RunAwaits, Awaits
    <2>3. QED
      BY <1>0, <1>1, <2>2 DEF StorageStep, PutObject, InsertRecord, DeleteFind, DeleteObject,
        DeleteSave, DeleteRemove, FilesOK, Records, At, Deletion
  <1>2. ASSUME NEW r \in Requests, Solo(r), ~StorageStep(r)
        PROVE  UNCHANGED <<object, record>>
    BY <1>2 DEF Solo, ResumeRoutes, Upload, SetDefault, DeleteResume, SuggestionRoute,
      DeleteSuggestion, FilesDelete, Extract, UploadStep, DefaultFind, InsertResume, FailInsert,
      DefaultStep, DefaultUnset, DefaultSet, NextFind, NextSet, DeleteRow, RunStep, Download,
      StatusUpdate, Audit, Ask, Propose, KeyDel, FailRun, Fail, Crash
  <1>3. ASSUME NEW r \in Requests, ProposalDelete(r)
        PROVE  UNCHANGED <<object, record>>
    BY <1>3 DEF ProposalDelete
  <1>4. Expire => UNCHANGED <<object, record>>
    BY DEF Expire
  <1>5. \A f \in Files, status \in Statuses : ServiceStatus(f, status) => UNCHANGED <<object, record>>
    BY DEF ServiceStatus
  <1>6. QED
    BY <1>0, <1>1, <1>2, <1>3, <1>4, <1>5, StepCases DEF FilesOK

\* A row keeps its type when its default or its status changes.
LEMMA RowTypes ==
  /\ \A row \in Row, b \in BOOLEAN : [row EXCEPT !.default = b] \in Row
  /\ \A row \in Row, status \in Statuses : [row EXCEPT !.status = Shown(status)] \in Row
  /\ \A row \in Row : row.owner \in Candidates
  <1>1. \A row \in Row, b \in BOOLEAN : [row EXCEPT !.default = b] \in Row
    BY DEF Row
  <1>2. \A status \in Statuses : Shown(status) \in Statuses \ {"failed"}
    BY DEF Shown, Statuses
  <1>3. \A row \in Row, status \in Statuses : [row EXCEPT !.status = Shown(status)] \in Row
    BY <1>2 DEF Row
  <1>4. QED
    BY <1>1, <1>3 DEF Row

\* The steps that leave the rows of resumes and their locks alone, or only lock them.
LocksOnly(r) ==
  /\ UNCHANGED resume
  /\ \/ UNCHANGED rowlock
     \/ rowlock' = Unlocked(r)
     \/ \E g \in Files, lock \in {r, None} : rowlock' = [rowlock EXCEPT ![g] = lock]

\* What each step of a request does to the rows of resumes.
LEMMA RowChanges ==
  ASSUME TInv, NEW r \in Requests, Solo(r)
  PROVE  \/ InsertResume(r) \/ DefaultSet(r) \/ DeleteRow(r) \/ StatusUpdate(r)
         \/ LocksOnly(r)
  <1>1. CASE DefaultUnset(r) \/ NextSet(r)
    <2>1. \A label \in Awaits : At(r, label) => HasLocals(req[r]) /\ req[r].at = label
      BY AtAwait
    <2>2. req[r].at \in {"default_unset", "next_set"} => req[r].other \in Files
      BY <2>1 DEF At, HasLocals, Storing, Deletion, Choosing, Removing, RunAwaits, Awaits
    <2>3. QED
      BY <1>1, <2>2 DEF DefaultUnset, NextSet, At, LocksOnly
  <1>2. CASE ResumeRoutes(r) \/ SuggestionRoute(r)
             \/ \E f \in Files : FilesDelete(r, f) \/ \E k \in Keys : Extract(r, f, k)
    BY <1>2 DEF ResumeRoutes, Upload, SetDefault, DeleteResume, SuggestionRoute, DeleteSuggestion,
      FilesDelete, Extract, rows, LocksOnly
  <1>3. CASE DefaultFind(r) \/ FailInsert(r) \/ NextFind(r) \/ Download(r) \/ Audit(r) \/ Ask(r)
             \/ Propose(r) \/ KeyDel(r) \/ FailRun(r) \/ Fail(r) \/ Crash(r)
    BY <1>3 DEF DefaultFind, FailInsert, NextFind, Download, Audit, Ask, Propose, KeyDel, FailRun,
      Fail, Crash, rows, LocksOnly
  <1>4. CASE UNCHANGED rows
    BY <1>4 DEF rows, LocksOnly
  <1>5. QED
    BY <1>1, <1>2, <1>3, <1>4 DEF Solo, UploadStep, DefaultStep, RunStep

\* Rows of resumes and their locks keep their types.
LEMMA RowsType ==
  ASSUME TInv, Next
  PROVE  RowsOK'
  <1>0. RowsOK /\ TypeOK
    BY DEF TInv, TypeOK, RowsOK
  <1>1. ASSUME NEW r \in Requests
        PROVE  Unlocked(r) \in [Files -> Requests \cup {None}]
    BY <1>0 DEF RowsOK, Unlocked
  <1>2. ASSUME NEW r \in Requests, LocksOnly(r)
        PROVE  RowsOK'
    BY <1>0, <1>1, <1>2 DEF RowsOK, LocksOnly
  <1>3. ASSUME NEW r \in Requests, InsertResume(r)
        PROVE  RowsOK'
    <2>1. HasLocals(req[r]) /\ req[r] \in Local /\ req[r].at = "insert_resume"
      BY <1>3, AtAwait DEF InsertResume, Awaits, Storing
    <2>2. req[r].file \in Files /\ req[r].owner \in Candidates
      BY <2>1 DEF HasLocals, Storing, Deletion, Choosing, Removing, RunAwaits, Awaits
    <2>3. [owner |-> req[r].owner, default |-> req[r].other = None, status |-> "pending"] \in Row
      BY <2>2 DEF Row, Statuses
    <2>4. QED
      BY <1>0, <1>3, <2>3 DEF InsertResume, RowsOK
  <1>4. ASSUME NEW r \in Requests, DefaultSet(r) \/ DeleteRow(r)
        PROVE  RowsOK'
    <2>1. \A h \in Files : resume[h] # None => resume[h] \in Row
      BY <1>0 DEF RowsOK
    <2>2. \A h \in Files : resume[h] # None =>
            [resume[h] EXCEPT !.default = TRUE] \in Row /\ [resume[h] EXCEPT !.default = FALSE] \in Row
      BY <2>1, RowTypes
    <2>3. CASE DefaultSet(r)
      BY <1>0, <1>1, <2>1, <2>2, <2>3 DEF DefaultSet, RowsOK
    <2>4. CASE DeleteRow(r)
      BY <1>0, <1>1, <2>1, <2>2, <2>4 DEF DeleteRow, RowsOK
    <2>5. QED
      BY <1>4, <2>3, <2>4
  <1>5. ASSUME NEW f \in Files, NEW status \in Statuses, resume[f] # None,
               resume' = [resume EXCEPT ![f].status = Shown(status)], UNCHANGED rowlock
        PROVE  RowsOK'
    <2>1. resume[f] \in Row
      BY <1>0, <1>5 DEF RowsOK
    <2>2. [resume[f] EXCEPT !.status = Shown(status)] \in Row
      BY <2>1, RowTypes
    <2>3. resume' = [resume EXCEPT ![f] = [resume[f] EXCEPT !.status = Shown(status)]]
      BY <1>0, <1>5 DEF RowsOK
    <2>4. QED
      BY <1>0, <1>5, <2>2, <2>3 DEF RowsOK
  <1>6. ASSUME NEW r \in Requests, StatusUpdate(r)
        PROVE  RowsOK'
    <2>1. HasLocals(req[r]) /\ req[r] \in Local /\ req[r].at = "status"
      BY <1>6, AtAwait DEF StatusUpdate, Awaits, RunAwaits
    <2>2. req[r].file \in Files /\ req[r].status \in Statuses
      BY <2>1 DEF HasLocals, Storing, Deletion, Choosing, Removing, RunAwaits, Awaits, Statuses
    <2>3. QED
      BY <1>5, <1>6, <2>2 DEF StatusUpdate
  <1>7. ASSUME NEW f \in Files, NEW status \in Statuses, ServiceStatus(f, status)
        PROVE  RowsOK'
    BY <1>5, <1>7 DEF ServiceStatus
  <1>8. Expire \/ (\E r \in Requests : ProposalDelete(r)) => UNCHANGED rows
    BY DEF Expire, ProposalDelete
  <1>9. QED
    BY <1>0, <1>2, <1>3, <1>4, <1>6, <1>7, <1>8, StepCases, RowChanges DEF rows, RowsOK

\* Redis, the proposals and the history keep their types.
LEMMA RestType ==
  ASSUME TInv, Next
  PROVE  RestOK'
  <1>0. RestOK /\ TypeOK
    BY DEF TInv, TypeOK, RestOK
  <1>1. ASSUME NEW r \in Requests
        PROVE  /\ ~At(r, "idle") => req[r].at \in Awaits /\ HasLocals(req[r])
               /\ Halfway(r) \/ req[r].at \in RunAwaits \cup Storing => req[r].file \in Files
               /\ r \in Processing(req[r].file) => req[r].file \in Files
    <2>1. At(r, "idle") => req[r].at = "idle"
      BY DEF At
    <2>2. ~At(r, "idle") => req[r].at \in Awaits /\ HasLocals(req[r])
      BY LocalsOf
    <2>3. QED
      BY <2>1, <2>2 DEF Halfway, Processing, At, HasLocals, Storing, Deletion, Choosing, Removing, RunAwaits, Awaits
  <1>2. ASSUME NEW r \in Requests, Forget(r)
        PROVE  outlived' \in SUBSET (Files \X Keys)
    BY <1>0, <1>2 DEF Forget, RestOK
  <1>3. ASSUME NEW r \in Requests, ResumeRoutes(r) \/ SuggestionRoute(r)
             \/ \E f \in Files : FilesDelete(r, f) \/ \E k \in Keys : Extract(r, f, k)
        PROVE  RestOK'
    <2>1. \A f \in Files : resume[f] # None => resume[f].owner \in Candidates
      BY <1>0, RowTypes DEF TypeOK
    <2>2. CASE \E c \in Candidates : Upload(r, c)
      BY <1>0, <2>2 DEF Upload, BeginChange, proposals, RestOK
    <2>3. CASE \E c \in Candidates, f \in Files : SetDefault(r, c, f)
      BY <1>0, <2>3 DEF SetDefault, proposals, RestOK
    <2>4. CASE \E f \in Files : DeleteResume(r, f)
      BY <1>0, <2>1, <2>4 DEF DeleteResume, BeginChange, proposals, RestOK
    <2>5. ASSUME NEW f \in Files, DeleteSuggestion(r, f) \/ FilesDelete(r, f)
          PROVE  RestOK'
      BY <1>0, <2>5 DEF DeleteSuggestion, FilesDelete, history, proposals, RestOK
    <2>6. ASSUME NEW f \in Files, NEW k \in Keys, Extract(r, f, k)
          PROVE  RestOK'
      BY <1>0, <2>6 DEF Extract, history, proposals, RestOK
    <2>7. CASE ResumeRoutes(r)
      BY <2>2, <2>3, <2>4, <2>7 DEF ResumeRoutes
    <2>8. QED
      BY <1>3, <2>5, <2>6, <2>7 DEF SuggestionRoute
  <1>4. ASSUME NEW r \in Requests, UploadStep(r) \/ DefaultStep(r)
        PROVE  UNCHANGED <<held, history, proposals>>
    BY <1>4 DEF UploadStep, DefaultFind, InsertResume, FailInsert, DefaultStep, DefaultUnset,
      DefaultSet, NextFind, NextSet, DeleteRow
  <1>5. ASSUME NEW r \in Requests, RunStep(r)
        PROVE  RestOK'
    <2>1. CASE Download(r) \/ Ask(r)
      BY <1>0, <2>1 DEF Download, Ask, history, proposals, RestOK
    <2>2. CASE StatusUpdate(r)
      BY <1>0, <2>2 DEF StatusUpdate, proposals, RestOK
    <2>3. CASE Audit(r) \/ KeyDel(r)
      BY <1>0, <1>1, <1>2, <2>3 DEF Audit, KeyDel, proposals, RestOK, HasLocals, Storing, Deletion, Choosing, Removing, RunAwaits, Awaits, At
    <2>4. CASE Propose(r)
      BY <1>0, <1>1, <2>4 DEF Propose, history, RestOK, RunAwaits, At
    <2>5. CASE FailRun(r)
      BY <1>0, <1>1, <1>2, <2>5 DEF FailRun, proposals, RestOK
    <2>6. QED
      BY <1>5, <2>1, <2>2, <2>3, <2>4, <2>5 DEF RunStep
  <1>6. ASSUME NEW r \in Requests, Fail(r) \/ Crash(r)
        PROVE  RestOK'
    BY <1>0, <1>1, <1>2, <1>6 DEF Fail, Crash, Stray, proposals, RestOK, Storing
  <1>7. ASSUME NEW r \in Requests, ProposalDelete(r)
        PROVE  RestOK'
    <2>1. req[r].other \in Files
      BY <1>1, <1>7 DEF ProposalDelete, HasLocals, At
    <2>2. QED
      BY <1>0, <1>7, <2>1 DEF ProposalDelete, history, RestOK
  <1>8. Expire => RestOK'
    BY <1>0 DEF Expire, proposals, RestOK
  <1>9. \A f \in Files, status \in Statuses : ServiceStatus(f, status) => RestOK'
    BY <1>0 DEF ServiceStatus, RestOK
  <1>10. QED
    BY <1>0, <1>3, <1>4, <1>5, <1>6, <1>7, <1>8, <1>9, StepCases DEF Solo, history, proposals, RestOK

\* Types and locals are an inductive invariant.
LEMMA TypesAndLocals ==
  Spec => []TInv
  <1>1. Init => TInv
    BY IdleFacts DEF Init, TInv, TypeOK, LocalsStayTrue, Records
  <1>2. TInv /\ [Next]_vars => TInv'
    <2> SUFFICES ASSUME TInv, [Next]_vars
                 PROVE  TInv'
      OBVIOUS
    <2>1. CASE Next
      <3>1. ASSUME NEW r \in Requests, Solo(r)
            PROVE  req' \in [Requests -> Local] /\ LocalsStayTrue'
        BY <3>1, SoloMoves DEF Moved, Alone, TInv, LocalsStayTrue
      <3>2. ASSUME NEW r \in Requests, ProposalDelete(r)
            PROVE  req' \in [Requests -> Local] /\ LocalsStayTrue'
        BY <3>2, DismissalMoves DEF TInv, LocalsStayTrue
      <3>3. UNCHANGED req => req' \in [Requests -> Local] /\ LocalsStayTrue'
        BY DEF TInv, TypeOK, LocalsStayTrue
      <3>4. req' \in [Requests -> Local] /\ LocalsStayTrue'
        BY <2>1, <3>1, <3>2, <3>3, StepCases
      <3>5. FilesOK' /\ RowsOK' /\ RestOK'
        BY <2>1, FilesType, RowsType, RestType
      <3>6. QED
        BY <3>4, <3>5 DEF TInv, TypeOK, FilesOK, RowsOK, RestOK
    <2>2. CASE UNCHANGED vars
      BY <2>2 DEF vars, rows, history, proposals, TInv, TypeOK, LocalsStayTrue
    <2>3. QED
      BY <2>1, <2>2
  <1>3. QED
    BY <1>1, <1>2, PTL DEF Spec

\* Objects, rows, resumes, keys, proposals and requests are always well-formed.
THEOREM ResumeTypeCorrect == Spec => []TypeOK
  BY TypesAndLocals, PTL DEF TInv

----------------------------------------------------------------------------
(* Keys *)

\* The locals of a request after it goes to any label.
LEMMA GotoFields ==
  ASSUME TInv, NEW r \in Requests, NEW label, Goto(r, label)
  PROVE  IF label = "idle" THEN req'[r] = Idle
         ELSE /\ req'[r].at = label /\ req'[r].file = req[r].file /\ req'[r].then = req[r].then
              /\ req'[r].owner = req[r].owner /\ req'[r].other = req[r].other
              /\ req'[r].key = req[r].key /\ req'[r].status = req[r].status
  <1>1. req[r] \in Local /\ req \in [Requests -> Local]
    BY DEF TInv, TypeOK
  <1>2. CASE label = "idle"
    BY <1>2, Returns
  <1>3. CASE label # "idle"
    <2>1. req' = [req EXCEPT ![r] = [req[r] EXCEPT !.at = label]]
      BY <1>3 DEF Goto
    <2>2. QED
      BY <1>1, <1>3, <2>1 DEF Local
  <1>4. QED
    BY <1>2, <1>3

\* The steps that are neither of a run nor begin one.
Keyless(r) ==
  \/ ResumeRoutes(r) \/ SuggestionRoute(r) \/ (\E f \in Files : FilesDelete(r, f))
  \/ UploadStep(r) \/ DefaultStep(r) \/ Fail(r)
  \/ StorageStep(r) /\ UNCHANGED <<rows, held, history, proposals>>

\* They have no key, before or after, and leave those of the runs alone.
LEMMA KeylessSteps ==
  ASSUME TInv, NEW r \in Requests, Keyless(r)
  PROVE  /\ At(r, "idle") \/ req[r].key = None
         /\ req'[r] = Idle \/ req'[r].key = None
         /\ UNCHANGED <<held, outlived>>
  <1>0. req[r] \in Local /\ req \in [Requests -> Local] /\ (At(r, "idle") \/ HasLocals(req[r]))
    BY LocalsOf
  <1>1. ASSUME req[r].at \notin RunAwaits, ~At(r, "idle")
        PROVE  req[r].key = None
    BY <1>0, <1>1 DEF HasLocals
  <1>2. CASE ResumeRoutes(r) \/ SuggestionRoute(r) \/ (\E f \in Files : FilesDelete(r, f))
    <2>1. At(r, "idle") /\ req'[r].key = None
      <3>1. CASE \E c \in Candidates : Upload(r, c)
        BY <1>0, <3>1 DEF Upload, BeginChange, Begin, Idle
      <3>2. CASE \E c \in Candidates, f \in Files : SetDefault(r, c, f)
        <4>1. PICK c \in Candidates, f \in Files : SetDefault(r, c, f)
          BY <3>2
        <4>2. CASE \E d \in Defaults(c) \ {f} :
                     Begin(r, [Idle EXCEPT !.at = "default_unset", !.owner = c, !.file = f, !.other = d])
          BY <1>0, <4>2 DEF Begin, Idle
        <4>3. CASE Begin(r, [Idle EXCEPT !.at = "default_set", !.owner = c, !.file = f])
          BY <1>0, <4>3 DEF Begin, Idle
        <4>4. QED
          BY <4>1, <4>2, <4>3 DEF SetDefault
      <3>3. CASE \E f \in Files : DeleteResume(r, f)
        BY <1>0, <3>3 DEF DeleteResume, BeginChange, Begin, Idle
      <3>4. CASE \E f \in Files : DeleteSuggestion(r, f) \/ FilesDelete(r, f)
        BY <1>0, <3>4 DEF DeleteSuggestion, FilesDelete, Begin, Idle
      <3>5. QED
        BY <1>2, <3>1, <3>2, <3>3, <3>4 DEF ResumeRoutes, SuggestionRoute
    <2>2. UNCHANGED <<held, outlived>>
      BY <1>2 DEF ResumeRoutes, Upload, SetDefault, DeleteResume, SuggestionRoute,
        DeleteSuggestion, FilesDelete, history
    <2>3. QED
      BY <1>0, <2>1, <2>2
  <1>3. CASE UploadStep(r)
    <2>1. req[r].at \in {"default_find", "insert_resume"} /\ UNCHANGED <<held, outlived>>
      BY <1>3 DEF UploadStep, DefaultFind, InsertResume, FailInsert, At, history
    <2>2. req[r].key = None
      BY <1>1, <2>1 DEF RunAwaits, At
    <2>3. req'[r] = Idle \/ req'[r].key = req[r].key
      BY <1>0, <1>3, GotoFields DEF UploadStep, DefaultFind, InsertResume, FailInsert, Return, Local
    <2>4. QED
      BY <2>1, <2>2, <2>3
  <1>4. CASE DefaultStep(r)
    <2>1. req[r].at \in Choosing \cup Removing /\ UNCHANGED <<held, outlived>>
      BY <1>4 DEF DefaultStep, DefaultUnset, DefaultSet, NextFind, NextSet, DeleteRow, At,
        history, Choosing, Removing
    <2>2. req[r].key = None
      BY <1>1, <2>1 DEF RunAwaits, At, Choosing, Removing
    <2>3. req'[r] = Idle \/ req'[r].key = req[r].key
      BY <1>0, <1>4, GotoFields DEF DefaultStep, DefaultUnset, DefaultSet, NextFind, NextSet,
        DeleteRow, Return, Local
    <2>4. QED
      BY <2>1, <2>2, <2>3
  <1>5. CASE Fail(r)
    BY <1>1, <1>5, Returns DEF Fail, Return
  <1>6. CASE StorageStep(r) /\ UNCHANGED <<rows, held, history, proposals>>
    <2>1. req[r].at \in StorageAwaits
      BY <1>6 DEF StorageStep, PutObject, InsertRecord, DeleteFind, DeleteObject, DeleteSave,
        DeleteRemove, At, StorageAwaits
    <2>2. req[r].key = None
      BY <1>1, <2>1 DEF RunAwaits, At, StorageAwaits
    <2>3. req'[r] = Idle \/ req'[r].key = req[r].key
      <3>1. CASE \E f \in Files : PutObject(r, f)
        BY <1>0, <3>1 DEF PutObject, Local
      <3>2. CASE \E label \in StorageAwaits : Goto(r, label) \/ Goto(r, req[r].then)
        BY <3>2, GotoFields
      <3>3. QED
        BY <1>6, <3>1, <3>2 DEF StorageStep, InsertRecord, DeleteFind, DeleteObject,
          DeleteSave, DeleteRemove, StorageAwaits
    <2>4. QED
      BY <1>6, <2>2, <2>3 DEF history
  <1>7. QED
    BY <1>2, <1>3, <1>4, <1>5, <1>6 DEF Keyless

\* The runs under a key: others are not counted, and a run stays one until it is over.
LEMMA RunsUnderKeys ==
  ASSUME TInv, NEW r \in Requests, Moved(r), NEW f \in Files, NEW k \in Keys
  PROVE  /\ (At(r, "idle") \/ req[r].key = None) /\ (req'[r] = Idle \/ req'[r].key = None)
              => Runs(f, k)' = Runs(f, k)
         /\ ~At(r, "idle") /\ req'[r].at # "idle" /\ req'[r].file = req[r].file
              /\ req'[r].key = req[r].key => Runs(f, k)' = Runs(f, k)
         /\ req'[r] = Idle => Runs(f, k)' = Runs(f, k) \ {r}
  <1>1. k # None
    BY ResumeAssumption
  <1>2. \A q \in Requests \ {r} : req'[q] = req[q]
    BY DEF Moved, Alone
  <1>3. Idle.at = "idle" /\ Idle.key = None
    BY IdleFacts
  <1>4. QED
    BY <1>1, <1>2, <1>3 DEF Runs, At

\* A run that goes on, and one that is over and forgets its key.
RunGoesOn(r) ==
  /\ ~At(r, "idle") /\ req'[r].at # "idle" /\ req'[r].file = req[r].file /\ req'[r].key = req[r].key
  /\ UNCHANGED <<held, outlived>>

RunIsOver(r) ==
  /\ req'[r] = Idle /\ Forget(r) /\ req[r].file \in Files /\ req[r].key \in Keys
  /\ held' \in {held, held \ {<<req[r].file, req[r].key>>}}

\* Every step of a run either goes on with its file and its key, or ends it.
LEMMA RunSteps ==
  ASSUME TInv, NEW r \in Requests, RunStep(r) \/ (Crash(r) /\ req[r].key # None)
  PROVE  RunGoesOn(r) \/ RunIsOver(r)
  <1>0. req[r] \in Local /\ req \in [Requests -> Local]
    BY LocalsOf
  <1>1. ~At(r, "idle")
    BY DEF RunStep, Crash, Download, StatusUpdate, Audit, Ask, Propose, KeyDel, FailRun, At, RunAwaits
  <1>2. req[r].key # None => req[r].at \in RunAwaits
    BY <1>1, LocalsOf DEF HasLocals
  <1>3. req[r].at \in RunAwaits => req[r].file \in Files /\ req[r].key \in Keys
    BY <1>1, LocalsOf DEF HasLocals
  <1>4. ASSUME NEW label \in RunAwaits, Goto(r, label), UNCHANGED <<held, outlived>>
        PROVE  RunGoesOn(r)
    <2>1. label # "idle"
      BY DEF RunAwaits
    <2>2. QED
      BY <1>1, <1>4, <2>1, GotoFields DEF RunGoesOn
  <1>5. ASSUME NEW status, GotoStatus(r, status), UNCHANGED <<held, outlived>>
        PROVE  RunGoesOn(r)
    BY <1>0, <1>1, <1>5 DEF GotoStatus, Local, RunGoesOn
  <1>6. ASSUME Return(r), Forget(r), req[r].at \in RunAwaits,
               held' \in {held, held \ {<<req[r].file, req[r].key>>}}
        PROVE  RunIsOver(r)
    BY <1>3, <1>6, Returns DEF Return, RunIsOver
  <1>7. CASE Download(r) \/ Ask(r) \/ Propose(r) \/ StatusUpdate(r)
    <2>1. UNCHANGED <<held, outlived>>
      BY <1>7 DEF Download, Ask, Propose, StatusUpdate, history
    <2>2. Goto(r, "propose") \/ Goto(r, "audit") \/ \E status : GotoStatus(r, status)
      BY <1>7 DEF Download, Ask, Propose, StatusUpdate
    <2>3. QED
      BY <1>4, <1>5, <2>1, <2>2 DEF RunAwaits
  <1>8. CASE Audit(r)
    <2>1. At(r, "audit") /\ HasLocals(req[r]) /\ UNCHANGED held
      BY <1>1, <1>8, LocalsOf DEF Audit
    <2>2. req[r].status \in {"processing", "completed", "failed"} /\ req[r].at \in RunAwaits
      BY <2>1 DEF HasLocals, At, RunAwaits
    <2>3. \/ (Goto(r, "ask") \/ Goto(r, "key_del")) /\ UNCHANGED outlived
          \/ Return(r) /\ Forget(r)
      BY <1>8, <2>2 DEF Audit
    <2>4. QED
      BY <1>4, <1>6, <2>1, <2>2, <2>3 DEF RunAwaits
  <1>9. CASE KeyDel(r)
    BY <1>6, <1>9 DEF KeyDel, At, RunAwaits
  <1>10. CASE FailRun(r)
    <2>1. req[r].at \in RunAwaits /\ UNCHANGED held
      BY <1>10 DEF FailRun
    <2>2. \/ (Goto(r, "key_del") \/ GotoStatus(r, "failed")) /\ UNCHANGED outlived
          \/ Return(r) /\ Forget(r)
      BY <1>10 DEF FailRun
    <2>3. QED
      BY <1>4, <1>5, <1>6, <2>1, <2>2 DEF RunAwaits
  <1>11. CASE Crash(r) /\ req[r].key # None
    BY <1>2, <1>6, <1>11 DEF Crash
  <1>12. QED
    BY <1>7, <1>8, <1>9, <1>10, <1>11 DEF RunStep

\* A run that is over leaves its key to another only if the key had expired before.
LEMMA RunOver ==
  ASSUME TInv, OneRunPerKey, NEW r \in Requests, Moved(r), RunIsOver(r)
  PROVE  OneRunPerKey'
  <1>1. PICK g \in Files, l \in Keys : g = req[r].file /\ l = req[r].key
    BY DEF RunIsOver
  <1>2. \A f \in Files, k \in Keys : Runs(f, k)' = Runs(f, k) \ {r}
    BY RunsUnderKeys DEF RunIsOver
  <1>3. ASSUME NEW f \in Files, NEW k \in Keys, <<f, k>> # <<g, l>>, <<f, k>> \notin outlived'
        PROVE  \A p, q \in Runs(f, k)' : p = q /\ <<f, k>> \in held'
    <2>1. <<f, k>> \notin outlived /\ (<<f, k>> \in held => <<f, k>> \in held')
      BY <1>1, <1>3 DEF RunIsOver, Forget
    <2>2. QED
      BY <1>2, <2>1 DEF OneRunPerKey
  <1>4. ASSUME <<g, l>> \notin outlived'
        PROVE  Runs(g, l)' = {}
    <2>1. CASE Runs(g, l) = {r}
      BY <1>2, <2>1
    <2>2. CASE Runs(g, l) # {r}
      <3>1. <<g, l>> \notin outlived
        BY <1>1, <1>4, <2>2 DEF RunIsOver, Forget
      <3>2. \A p, q \in Runs(g, l) : p = q
        BY <3>1 DEF OneRunPerKey
      <3>3. r \in Runs(g, l) => Runs(g, l) = {r}
        BY <3>2
      <3>4. ~At(r, "idle") => r \in Runs(g, l)
        BY <1>1 DEF Runs
      <3>5. At(r, "idle") => FALSE
        BY <1>1, LocalsOf, IdleFacts, ResumeAssumption
      <3>6. QED
        BY <2>2, <3>3, <3>4, <3>5
    <2>3. QED
      BY <2>1, <2>2
  <1>5. QED
    BY <1>3, <1>4 DEF OneRunPerKey

\* Steps that change neither the runs nor the keys.
LEMMA KeysKept ==
  ASSUME OneRunPerKey, UNCHANGED <<held, outlived>>,
         \A f \in Files, k \in Keys : Runs(f, k)' = Runs(f, k)
  PROVE  OneRunPerKey'
  BY DEF OneRunPerKey

\* Extract sets a key that is not there, and so is the only run under it.
LEMMA RunBegins ==
  ASSUME TInv, OneRunPerKey, NEW r \in Requests, NEW g \in Files, NEW l \in Keys, Extract(r, g, l)
  PROVE  OneRunPerKey'
  <1>1. Moved(r)
    BY SoloMoves DEF Solo
  <1>2. req'[r].at = "download" /\ req'[r].file = g /\ req'[r].key = l /\ req[r].at = "idle"
    BY LocalsOf DEF Extract, Begin, Idle, At
  <1>3. \A f \in Files, k \in Keys :
          Runs(f, k)' = IF f = g /\ k = l THEN Runs(f, k) \cup {r} ELSE Runs(f, k)
    BY <1>1, <1>2 DEF Runs, At, Moved, Alone
  <1>4. <<g, l>> \notin held /\ held' = held \cup {<<g, l>>} /\ UNCHANGED outlived
    BY DEF Extract, history
  <1>5. <<g, l>> \notin outlived => Runs(g, l) = {}
    BY <1>4 DEF OneRunPerKey
  <1>6. QED
    BY <1>3, <1>4, <1>5 DEF OneRunPerKey

\* A key that expires while a run is going on is not relied on.
LEMMA KeyExpires ==
  ASSUME OneRunPerKey, Expire
  PROVE  OneRunPerKey'
  <1>1. PICK g \in Files, l \in Keys :
          /\ held' = held \ {<<g, l>>}
          /\ outlived' = outlived \cup (IF Runs(g, l) # {} THEN {<<g, l>>} ELSE {})
          /\ UNCHANGED req
    BY DEF Expire
  <1>2. \A f \in Files, k \in Keys : Runs(f, k)' = Runs(f, k)
    BY <1>1 DEF Runs, At
  <1>3. QED
    BY <1>1, <1>2 DEF OneRunPerKey

\* The key admits one run at a time, as long as it outlives its runs.
THEOREM KeyAdmitsOneRun == Spec => []OneRunPerKey
  <1>1. Init => OneRunPerKey
    BY IdleFacts DEF Init, OneRunPerKey, Runs, At
  <1>2. TInv /\ TInv' /\ OneRunPerKey /\ [Next]_vars => OneRunPerKey'
    <2> SUFFICES ASSUME TInv, TInv', OneRunPerKey, [Next]_vars
                 PROVE  OneRunPerKey'
      OBVIOUS
    <2>1. ASSUME NEW r \in Requests, Keyless(r) \/ (Crash(r) /\ req[r].key = None)
          PROVE  OneRunPerKey'
      <3>1. Moved(r)
        BY <2>1, SoloMoves DEF Solo, Keyless
      <3>2. /\ At(r, "idle") \/ req[r].key = None
            /\ req'[r] = Idle \/ req'[r].key = None
            /\ UNCHANGED <<held, outlived>>
        BY <2>1, KeylessSteps, Returns DEF Crash, Return
      <3>3. QED
        BY <3>1, <3>2, RunsUnderKeys, KeysKept
    <2>2. ASSUME NEW r \in Requests, RunStep(r) \/ (Crash(r) /\ req[r].key # None)
          PROVE  OneRunPerKey'
      <3>1. Moved(r)
        BY <2>2, SoloMoves DEF Solo
      <3>2. CASE RunGoesOn(r)
        BY <3>1, <3>2, RunsUnderKeys, KeysKept DEF RunGoesOn
      <3>3. CASE RunIsOver(r)
        BY <3>1, <3>3, RunOver
      <3>4. QED
        BY <2>2, <3>2, <3>3, RunSteps
    <2>3. ASSUME NEW r \in Requests, Solo(r)
          PROVE  OneRunPerKey'
      BY <2>1, <2>2, <2>3, RunBegins DEF Solo, Keyless
    <2>4. ASSUME NEW r \in Requests, ProposalDelete(r)
          PROVE  OneRunPerKey'
      <3>1. \A q \in Requests : At(q, "proposal_delete") => req[q].key = None
        BY AtAwait DEF HasLocals, Awaits, At, RunAwaits
      <3>2. \A f \in Files, k \in Keys : Runs(f, k)' = Runs(f, k)
        BY <2>4, <3>1, DismissalMoves, IdleFacts, ResumeAssumption DEF Runs, At
      <3>3. QED
        BY <2>4, <3>2, KeysKept DEF ProposalDelete, history
    <2>5. ASSUME UNCHANGED <<req, held, outlived>>
          PROVE  OneRunPerKey'
      BY <2>5 DEF OneRunPerKey, Runs, At
    <2>6. ASSUME NEW f \in Files, NEW status, ServiceStatus(f, status)
          PROVE  OneRunPerKey'
      BY <2>5, <2>6 DEF ServiceStatus
    <2>7. QED
      BY <2>3, <2>4, <2>5, <2>6, StepCases, KeyExpires DEF vars, history
  <1>3. QED
    BY <1>1, <1>2, TypesAndLocals, PTL DEF Spec

----------------------------------------------------------------------------
(* What a resume shows of its extraction *)

\* Rows that keep the status they have, or begin as PENDING.
StatusesKept ==
  \A f \in Files : resume'[f] # None =>
    \/ resume'[f].status = "pending"
    \/ resume[f] # None /\ resume'[f].status = resume[f].status

\* No step of a request but the report of a run changes a status.
LEMMA StatusesChange ==
  ASSUME TInv, NEW r \in Requests, Solo(r), ~StatusUpdate(r)
  PROVE  StatusesKept
  <1>1. resume \in [Files -> Row \cup {None}]
    BY DEF TInv, TypeOK
  <1>2. CASE InsertResume(r)
    BY <1>1, <1>2 DEF InsertResume, StatusesKept
  <1>3. CASE DefaultSet(r)
    <2>1. \A h \in Files : resume'[h] # None => resume[h] # None /\ resume'[h].status = resume[h].status
      BY <1>1, <1>3 DEF DefaultSet, Row
    <2>2. QED
      BY <2>1 DEF StatusesKept
  <1>4. CASE DeleteRow(r)
    <2>1. \A h \in Files : resume'[h] # None => resume[h] # None /\ resume'[h].status = resume[h].status
      BY <1>1, <1>4 DEF DeleteRow, Row
    <2>2. QED
      BY <2>1 DEF StatusesKept
  <1>5. CASE LocksOnly(r)
    BY <1>5 DEF LocksOnly, StatusesKept
  <1>6. QED
    BY <1>2, <1>3, <1>4, <1>5, RowChanges

\* A step of a request that does not leave a status unreported, or a proposal unsaved.
ReasonKept(r) ==
  /\ stuck \subseteq stuck'
  /\ proposed \cup dismissed \subseteq proposed' \cup dismissed'
  /\ \A f \in Files : r \in Processing(f) => r \in Processing(f)' \/ f \in stuck'
  /\ req'[r].at = "status" /\ req'[r].status = "completed" =>
       req'[r].file \in proposed' \cup dismissed'

\* If statuses stay and no run is forgotten, what a status says is still justified.
LEMMA ReasonsKept ==
  ASSUME SInv, NEW r \in Requests, Moved(r), StatusesKept, ReasonKept(r)
  PROVE  SInv'
  <1>1. \A q \in Requests \ {r} : req'[q] = req[q]
    BY DEF Moved, Alone
  <1>2. \A f \in Files : Processing(f) \ {r} \subseteq Processing(f)'
    BY <1>1 DEF Processing, At
  <1>3. ASSUME NEW f \in Files, Processing(f) # {} \/ f \in stuck
        PROVE  Processing(f)' # {} \/ f \in stuck'
    BY <1>2, <1>3 DEF ReasonKept
  <1>4. StatusHasAReason'
    BY <1>3 DEF SInv, StatusHasAReason, StatusesKept, ReasonKept
  <1>5. ProposalsAreSaved'
    BY <1>1 DEF SInv, ProposalsAreSaved, At, ReasonKept
  <1>6. QED
    BY <1>4, <1>5 DEF SInv

\* A request without a key says nothing of a status.
LEMMA OnlyRunsProcess ==
  ASSUME TInv, NEW r \in Requests, Moved(r)
  PROVE  /\ At(r, "idle") \/ req[r].key = None => \A f \in Files : r \notin Processing(f)
         /\ req'[r] = Idle \/ req'[r].key = None => req'[r].at # "status"
  <1>1. Idle.at = "idle" /\ None \notin Keys
    BY IdleFacts, ResumeAssumption
  <1>2. ~At(r, "idle") /\ req[r].key = None => req[r].at \notin RunAwaits
    BY <1>1, LocalsOf DEF HasLocals
  <1>3. req'[r] = Idle \/ req'[r].key = None => req'[r].at # "status"
    BY <1>1 DEF Moved, HasLocals, RunAwaits
  <1>4. QED
    BY <1>2, <1>3 DEF Processing, At, RunAwaits

\* The steps that are not of a run.
LEMMA KeylessReasons ==
  ASSUME TInv, SInv, NEW r \in Requests, Keyless(r) \/ (Crash(r) /\ req[r].key = None)
  PROVE  SInv'
  <1>1. Moved(r) /\ StatusesKept
    <2>1. Solo(r)
      BY DEF Solo, Keyless
    <2>2. ~StatusUpdate(r)
      <3>1. StatusUpdate(r) => HasLocals(req[r]) /\ req[r].key \in Keys /\ ~At(r, "idle")
        BY AtAwait DEF StatusUpdate, Awaits, RunAwaits, HasLocals, At
      <3>2. QED
        BY <3>1, KeylessSteps, ResumeAssumption
    <2>3. QED
      BY <2>1, <2>2, SoloMoves, StatusesChange
  <1>2. At(r, "idle") \/ req[r].key = None
    BY KeylessSteps
  <1>3. req'[r] = Idle \/ req'[r].key = None
    BY KeylessSteps, Returns DEF Crash, Return
  <1>4. stuck \subseteq stuck' /\ UNCHANGED proposals
    BY DEF Keyless, ResumeRoutes, Upload, SetDefault, DeleteResume, SuggestionRoute,
      DeleteSuggestion, FilesDelete, UploadStep, DefaultFind, InsertResume, FailInsert,
      DefaultStep, DefaultUnset, DefaultSet, NextFind, NextSet, DeleteRow, Fail, Crash, history
  <1>5. QED
    BY <1>1, <1>2, <1>3, <1>4, OnlyRunsProcess, ReasonsKept DEF proposals, ReasonKept

\* The locals of a run that goes on with a status.
LEMMA StatusFields ==
  ASSUME TInv, NEW r \in Requests, NEW status, GotoStatus(r, status)
  PROVE  /\ req'[r].at = "status" /\ req'[r].status = status /\ req'[r].file = req[r].file
  BY LocalsOf DEF GotoStatus, Local

\* The steps of a run but the one that writes a status.
LEMMA RunReasons ==
  ASSUME TInv, SInv, NEW r \in Requests, RunStep(r) \/ (Crash(r) /\ req[r].key # None), ~StatusUpdate(r)
  PROVE  SInv'
  <1>1. Moved(r) /\ StatusesKept
    BY SoloMoves, StatusesChange DEF Solo
  <1>2. ASSUME Download(r) PROVE ReasonKept(r)
    BY <1>2, StatusFields DEF ReasonKept, Download, Processing, At, history, proposals
  <1>3. ASSUME Audit(r) PROVE ReasonKept(r)
    <2>1. At(r, "audit") /\ HasLocals(req[r])
      BY <1>3, AtAwait DEF Audit, Awaits, RunAwaits
    <2>2. req[r].status \in {"processing", "completed", "failed"}
      BY <2>1 DEF HasLocals, At
    <2>3. UNCHANGED <<stuck, proposed, dismissed>>
      BY <1>3 DEF Audit, proposals
    <2>4. CASE req[r].status = "processing" /\ Goto(r, "ask")
      BY <2>1, <2>3, <2>4, GotoFields DEF ReasonKept, Processing, At
    <2>5. CASE req[r].status # "processing" /\ (Goto(r, "key_del") \/ Return(r))
      BY <2>1, <2>3, <2>5, GotoFields, Returns, IdleFacts DEF ReasonKept, Processing, At, Return
    <2>6. QED
      BY <1>3, <2>2, <2>4, <2>5 DEF Audit
  <1>4. ASSUME Ask(r) PROVE ReasonKept(r)
    BY <1>4, GotoFields DEF ReasonKept, Ask, Processing, At, history, proposals
  <1>5. ASSUME Propose(r) PROVE ReasonKept(r)
    BY <1>5, StatusFields DEF ReasonKept, Propose, Processing, At, history
  <1>6. ASSUME KeyDel(r) PROVE ReasonKept(r)
    BY <1>6, Returns, IdleFacts DEF ReasonKept, KeyDel, Return, Processing, At, proposals
  <1>7. ASSUME FailRun(r) PROVE ReasonKept(r)
    <2>1. req[r].at \in RunAwaits /\ UNCHANGED proposals
      BY <1>7 DEF FailRun
    <2>2. CASE GotoStatus(r, "failed") /\ UNCHANGED stuck
      BY <2>1, <2>2, StatusFields DEF ReasonKept, Processing, At, proposals
    <2>3. CASE At(r, "key_del") /\ Return(r) /\ UNCHANGED stuck
      BY <2>1, <2>3, Returns, IdleFacts DEF ReasonKept, Return, Processing, At, proposals
    <2>4. CASE /\ Goto(r, "key_del")
               /\ stuck' = stuck \cup (IF r \in Processing(req[r].file) THEN {req[r].file} ELSE {})
      <3>1. \A f \in Files : r \in Processing(f) => f = req[r].file
        BY DEF Processing
      <3>2. QED
        BY <2>1, <2>4, <3>1, GotoFields DEF ReasonKept, proposals
    <2>5. QED
      BY <1>7, <2>2, <2>3, <2>4 DEF FailRun
  <1>8. ASSUME Crash(r) PROVE ReasonKept(r)
    <2>1. \A f \in Files : r \in Processing(f) => f = req[r].file
      BY DEF Processing
    <2>2. QED
      BY <1>8, <2>1, Returns, IdleFacts DEF ReasonKept, Crash, Return, proposals
  <1>9. ReasonKept(r)
    BY <1>2, <1>3, <1>4, <1>5, <1>6, <1>7, <1>8 DEF RunStep
  <1>10. QED
    BY <1>1, <1>9, ReasonsKept

\* The status that a run writes: PROCESSING, which it goes on to report the end of, or an end.
LEMMA UpdateReasons ==
  ASSUME TInv, SInv, NEW r \in Requests, StatusUpdate(r)
  PROVE  SInv'
  <1>1. PICK f \in Files, status \in {"processing", "completed", "failed"} :
          req[r].file = f /\ req[r].status = status /\ At(r, "status")
    BY AtAwait DEF StatusUpdate, Awaits, RunAwaits, HasLocals, At
  <1>2. resume' = [resume EXCEPT ![f].status = Shown(status)] /\ resume[f] # None
    BY <1>1 DEF StatusUpdate
  <1>3. resume[f] \in Row /\ resume \in [Files -> Row \cup {None}]
    BY <1>2 DEF TInv, TypeOK
  <1>4. /\ \A g \in Files : g # f => resume'[g] = resume[g]
        /\ resume'[f].status = Shown(status)
    BY <1>2, <1>3 DEF Row
  <1>5. Moved(r) /\ req'[r].at = "audit" /\ req'[r].file = f /\ req'[r].status = status
    <2>1. Moved(r)
      BY SoloMoves DEF Solo, RunStep
    <2>2. Goto(r, "audit")
      BY DEF StatusUpdate
    <2>3. QED
      BY <1>1, <2>1, <2>2, GotoFields
  <1>6. \A q \in Requests \ {r} : req'[q] = req[q]
    BY <1>5 DEF Moved, Alone
  <1>7. \A g \in Files : g # f => Processing(g)' = Processing(g)
    BY <1>1, <1>5, <1>6 DEF Processing, At
  <1>8. UNCHANGED proposals /\ stuck' = IF status = "processing" THEN stuck ELSE stuck \ {f}
    BY <1>1 DEF StatusUpdate
  <1>9. status = "processing" => r \in Processing(f)'
    BY <1>5 DEF Processing, At
  <1>10. resume'[f].status = "processing" => status = "processing"
    BY <1>4 DEF Shown
  <1>11. resume'[f].status = "completed" => f \in proposed \cup dismissed
    BY <1>1, <1>4 DEF Shown, SInv, ProposalsAreSaved
  <1>12. StatusHasAReason'
    BY <1>4, <1>7, <1>8, <1>9, <1>10, <1>11 DEF SInv, StatusHasAReason, proposals
  <1>13. ProposalsAreSaved'
    BY <1>5, <1>6, <1>8 DEF SInv, ProposalsAreSaved, At, proposals
  <1>14. QED
    BY <1>12, <1>13 DEF SInv

\* The status that the AI service reports.
LEMMA ServiceReasons ==
  ASSUME TInv, SInv, NEW f \in Files, NEW status \in Statuses, ServiceStatus(f, status)
  PROVE  SInv'
  <1>1. resume' = [resume EXCEPT ![f].status = Shown(status)] /\ resume[f] # None
    BY DEF ServiceStatus
  <1>2. resume[f] \in Row /\ resume \in [Files -> Row \cup {None}]
    BY <1>1 DEF TInv, TypeOK
  <1>3. /\ \A g \in Files : g # f => resume'[g] = resume[g]
        /\ resume'[f].status = Shown(status)
    BY <1>1, <1>2 DEF Row
  <1>4. \A g \in Files : Processing(g)' = Processing(g)
    BY DEF ServiceStatus, Processing, At
  <1>5. /\ resume'[f].status = "processing" => f \in stuck'
        /\ resume'[f].status = "completed" => f \in dismissed'
    BY <1>3 DEF ServiceStatus, Shown
  <1>6. /\ \A g \in Files : g # f /\ g \in stuck => g \in stuck'
        /\ dismissed \subseteq dismissed' /\ UNCHANGED proposed
    BY DEF ServiceStatus
  <1>7. StatusHasAReason'
    BY <1>3, <1>4, <1>5, <1>6 DEF SInv, StatusHasAReason
  <1>8. ProposalsAreSaved'
    BY <1>6 DEF ServiceStatus, SInv, ProposalsAreSaved, At
  <1>9. QED
    BY <1>7, <1>8 DEF SInv

\* PROCESSING and COMPLETED have something behind them.
THEOREM StatusesAreJustified == Spec => []StatusHasAReason
  <1>1. Init => SInv
    BY IdleFacts DEF Init, SInv, StatusHasAReason, ProposalsAreSaved, At
  <1>2. TInv /\ TInv' /\ SInv /\ [Next]_vars => SInv'
    <2> SUFFICES ASSUME TInv, SInv, [Next]_vars
                 PROVE  SInv'
      OBVIOUS
    <2>1. ASSUME NEW r \in Requests, NEW f \in Files, NEW k \in Keys, Extract(r, f, k)
          PROVE  SInv'
      <3>1. Moved(r) /\ At(r, "idle") /\ StatusesKept
        BY <2>1, SoloMoves DEF Solo, Extract, Begin, StatusesKept, rows
      <3>2. req'[r].at = "download"
        BY <2>1, LocalsOf DEF Extract, Begin, Idle
      <3>3. ReasonKept(r)
        BY <2>1, <3>1, <3>2, OnlyRunsProcess DEF ReasonKept, Extract, history, proposals
      <3>4. QED
        BY <3>1, <3>3, ReasonsKept
    <2>2. ASSUME NEW r \in Requests, Solo(r)
          PROVE  SInv'
      BY <2>1, <2>2, KeylessReasons, RunReasons, UpdateReasons DEF Solo, Keyless
    <2>3. ASSUME NEW r \in Requests, ProposalDelete(r)
          PROVE  SInv'
      <3>1. \A q \in Requests : req'[q] = req[q] \/ (req'[q].at = "idle" /\ req[q].at = "proposal_delete")
        BY <2>3, DismissalMoves, IdleFacts DEF At
      <3>2. \A f \in Files : Processing(f)' = Processing(f)
        BY <3>1 DEF Processing, At
      <3>3. UNCHANGED <<resume, stuck>> /\ proposed \cup dismissed \subseteq proposed' \cup dismissed'
        BY <2>3 DEF ProposalDelete, rows, history
      <3>4. StatusHasAReason'
        BY <3>2, <3>3 DEF SInv, StatusHasAReason
      <3>5. ProposalsAreSaved'
        BY <3>1, <3>3 DEF SInv, ProposalsAreSaved, At
      <3>6. QED
        BY <3>4, <3>5 DEF SInv
    <2>4. ASSUME UNCHANGED <<req, resume, stuck, proposals>>
          PROVE  SInv'
      BY <2>4 DEF SInv, StatusHasAReason, ProposalsAreSaved, Processing, At, proposals
    <2>5. Expire => SInv'
      BY <2>4 DEF Expire, rows
    <2>6. CASE Next
      BY <2>2, <2>3, <2>5, <2>6, StepCases, ServiceReasons
    <2>7. CASE UNCHANGED vars
      BY <2>4, <2>7 DEF vars, rows, history
    <2>8. QED
      BY <2>6, <2>7
  <1>3. SInv => StatusHasAReason
    BY DEF SInv
  <1>4. QED
    BY <1>1, <1>2, <1>3, TypesAndLocals, PTL DEF Spec

----------------------------------------------------------------------------
(* Resumes and files *)

Same(f) ==
  /\ f \in object <=> f \in object'
  /\ record'[f] = record[f]
  /\ resume[f] = None <=> resume'[f] = None

\* Of the files that a step changes: nobody else uploads them, a row of files stays, and an
\* object is put only for a file nobody else works on.
ChangesWell(r, F) ==
  /\ \A f \in Files \ F : Same(f)
  /\ \A f \in F :
       /\ \A q \in Requests \ {r} : Uploading(req[q]) => req[q].file # f
       /\ record[f] # None => record'[f] # None
       /\ f \in object' \ object => \A q \in Requests \ {r} : ~At(q, "idle") => req[q].file # f
       /\ record'[f] # "failed"
       /\ record'[f] \in {"deleted", "gone"} => f \notin object'
       /\ resume'[f] # None => record'[f] # None
       /\ f \in strayed' \/ Settled(f)' \/ Responsible(f)' # {}

\* A request begins no work on a file that another uploads, and uploads one nobody works on.
StaysAway(r) ==
  /\ req'[r].at # "idle" => \A q \in Requests \ {r} : Uploading(req[q]) =>
       /\ req'[r].file = req[q].file => req'[r].key # None
       /\ req'[r].other = req[q].file => req'[r].at = "proposal_delete"
  /\ Uploading(req'[r]) =>
       /\ resume'[req'[r].file] = None
       /\ \A q \in Requests \ {r} : ~At(q, "idle") =>
            /\ req[q].file = req'[r].file => req[q].key # None
            /\ req[q].other = req'[r].file => At(q, "proposal_delete")

\* A request leaves a file behind only if that is known, or it is settled.
LeavesSettled(r) ==
  \A f \in Files : r \in Responsible(f) => r \in Responsible(f)' \/ f \in strayed' \/ Settled(f)'

\* These four make a good step.
LEMMA FilesStep ==
  ASSUME TInv, TInv', FInv, NEW r \in Requests, Moved(r), NEW F \in SUBSET Files,
         strayed \subseteq strayed', ChangesWell(r, F), KnowsFiles(r)', StaysAway(r), LeavesSettled(r)
  PROVE  FInv'
  <1>0. /\ \A q \in Requests \ {r} : req'[q] = req[q]
        /\ \A f \in Files \ F : Same(f)
    BY DEF Moved, Alone, ChangesWell
  <1>1. FilesAreKept'
    BY <1>0 DEF FInv, FilesAreKept, Same, ChangesWell
  <1>2. ASSUME NEW q \in Requests \ {r}
        PROVE  KnowsFiles(q)'
    <2>1. /\ KnowsFiles(q) /\ req'[q] = req[q] /\ req[q] \in Local
          /\ At(q, "idle") \/ HasLocals(req[q])
      BY <1>0, LocalsOf DEF FInv
    <2>2. \A f \in Files : record[f] # None => record'[f] # None
      BY <1>0 DEF ChangesWell, Same
    <2>3. \A f \in Files : ~At(q, "idle") /\ req[q].file = f /\ f \notin object => f \notin object'
      BY <1>0 DEF ChangesWell, Same
    <2>4. Uploading(req[q]) => Same(req[q].file)
      <3>1. Uploading(req[q]) => req[q].file \in Files
        BY <2>1 DEF Uploading, At, HasLocals, Storing, Deletion, Choosing, Removing, RunAwaits, Awaits
      <3>2. QED
        BY <1>0, <3>1 DEF ChangesWell
    <2>5. req[q].at # "idle" <=> ~At(q, "idle")
      BY DEF At
    <2>6. req[q].at \in Deletion \cup Removing \cup Choosing => req[q].file \in Files
      BY <2>1 DEF At, HasLocals, Storing, Deletion, Choosing, Removing, RunAwaits, Awaits
    <2>7. req[q].other # None => req[q].other \in Files
      BY <2>1 DEF Local
    <2>8. req[q].at \in Storing => Uploading(req[q])
      BY DEF Uploading
    <2>9. req[q].at \in Deletion \cup Removing \cup Choosing => record'[req[q].file] # None
      BY <2>1, <2>2, <2>6 DEF KnowsFiles
    <2>10. req[q].at \notin {"idle", "proposal_delete"} /\ req[q].other # None =>
             record'[req[q].other] # None
      BY <2>1, <2>2, <2>7 DEF KnowsFiles
    <2>11. req[q].at \in {"delete_save", "delete_remove", "delete_row"} => req[q].file \notin object'
      BY <2>1, <2>3, <2>5, <2>6 DEF KnowsFiles, Deletion, Removing
    <2>12. req[q].at \in Deletion /\ req[q].then = "idle" /\ req[q].owner = None =>
             req[q].file \in strayed'
      BY <2>1 DEF KnowsFiles
    <2>13. req[q].at \in Storing =>
             /\ req[q].file \in object'
             /\ record'[req[q].file] = IF At(q, "insert_record") THEN None ELSE "active"
      BY <2>1, <2>4, <2>8 DEF KnowsFiles, Same
    <2>14. Uploading(req[q]) =>
             /\ req[q].at \in {"delete_find", "delete_object"} =>
                  req[q].file \in object' /\ record'[req[q].file] = "active"
             /\ record'[req[q].file] # "gone"
      BY <2>1, <2>4 DEF KnowsFiles, Same
    <2>15. At(q, "insert_record")' = At(q, "insert_record")
      BY <2>1 DEF At
    <2>16. QED
      BY <2>1, <2>9, <2>10, <2>11, <2>12, <2>13, <2>14, <2>15 DEF KnowsFiles
  <1>3. ASSUME NEW p \in Requests, Uploading(req'[p]), p # r
        PROVE  /\ resume'[req'[p].file] = None
               /\ \A q \in Requests \ {p} : ~At(q, "idle")' =>
                    /\ req'[q].file = req'[p].file => req'[q].key # None
                    /\ req'[q].other = req'[p].file => At(q, "proposal_delete")'
    <2>1. req'[p] = req[p] /\ Uploading(req[p])
      BY <1>0, <1>3
    <2>2. /\ resume[req[p].file] = None
          /\ \A q \in Requests \ {p} : ~At(q, "idle") =>
               /\ req[q].file = req[p].file => req[q].key # None
               /\ req[q].other = req[p].file => At(q, "proposal_delete")
      BY <2>1 DEF FInv, UploadsAreAlone
    <2>3. req[p].file \in Files
      BY <2>1, LocalsOf DEF Uploading, At, HasLocals, Storing, Deletion, Choosing, Removing, RunAwaits, Awaits, Idle
    <2>4. Same(req[p].file)
      BY <1>0, <1>3, <2>1, <2>3 DEF ChangesWell
    <2>5. \A q \in Requests \ {p, r} : ~At(q, "idle")' =>
            /\ req'[q].file = req'[p].file => req'[q].key # None
            /\ req'[q].other = req'[p].file => At(q, "proposal_delete")'
      BY <1>0, <2>1, <2>2 DEF At
    <2>6. ~At(r, "idle")' =>
            /\ req'[r].file = req'[p].file => req'[r].key # None
            /\ req'[r].other = req'[p].file => At(r, "proposal_delete")'
      BY <1>3, <2>1 DEF StaysAway, At
    <2>7. QED
      BY <2>1, <2>2, <2>4, <2>5, <2>6 DEF Same
  <1>4. UploadsAreAlone'
    <2>1. ASSUME Uploading(req'[r])
          PROVE  /\ resume'[req'[r].file] = None
                 /\ \A q \in Requests \ {r} : ~At(q, "idle")' =>
                      /\ req'[q].file = req'[r].file => req'[q].key # None
                      /\ req'[q].other = req'[r].file => At(q, "proposal_delete")'
      BY <1>0, <2>1 DEF StaysAway, At
    <2>2. QED
      BY <1>3, <2>1 DEF UploadsAreAlone
  <1>5. ASSUME NEW f \in Files, f \notin F
        PROVE  f \in strayed' \/ Settled(f)' \/ Responsible(f)' # {}
    <2>1. Settled(f) => Settled(f)'
      BY <1>0, <1>5 DEF Same, Settled, Available
    <2>2. \A q \in Requests \ {r} : q \in Responsible(f) => q \in Responsible(f)'
      BY <1>0 DEF Responsible, Halfway
    <2>3. f \in strayed \/ Settled(f) \/ Responsible(f) # {}
      BY DEF FInv, FilesSettle
    <2>4. Responsible(f) \subseteq Requests
      BY DEF Responsible
    <2>5. QED
      BY <2>1, <2>2, <2>3, <2>4 DEF LeavesSettled
  <1>6. FilesSettle'
    BY <1>5 DEF FilesSettle, ChangesWell
  <1>7. QED
    BY <1>1, <1>2, <1>4, <1>6 DEF FInv

\* What a request works on is what it worked on before, or was found to have a resume or none
\* any more.
Familiar(r) ==
  /\ req'[r].at # "idle" /\ req'[r].key = None /\ req'[r].file \in Files =>
       \/ ~At(r, "idle") /\ req[r].file = req'[r].file /\ req[r].key = None
       \/ resume[req'[r].file] # None
       \/ record[req'[r].file] = "gone"
  /\ req'[r].at \notin {"idle", "proposal_delete"} /\ req'[r].other \in Files =>
       \/ req[r].at \notin {"idle", "proposal_delete"} /\ req[r].other = req'[r].other
       \/ resume[req'[r].other] # None
  /\ Uploading(req'[r]) =>
       Uploading(req[r]) /\ req'[r].file = req[r].file /\ resume'[req[r].file] = None

\* Such a request stays away from the uploads of others.
LEMMA FamiliarStaysAway ==
  ASSUME TInv, FInv, NEW r \in Requests, Familiar(r)
  PROVE  StaysAway(r)
  <1>1. ASSUME NEW q \in Requests \ {r}, Uploading(req[q]), req'[r].at # "idle"
        PROVE  /\ req'[r].file = req[q].file => req'[r].key # None
               /\ req'[r].other = req[q].file => req'[r].at = "proposal_delete"
    <2>1. /\ resume[req[q].file] = None
          /\ ~At(r, "idle") => /\ req[r].file = req[q].file => req[r].key # None
                               /\ req[r].other = req[q].file => At(r, "proposal_delete")
      BY <1>1 DEF FInv, UploadsAreAlone
    <2>2. record[req[q].file] # "gone"
      BY <1>1 DEF FInv, KnowsFiles
    <2>3. req[q].file \in Files
      BY <1>1, LocalsOf DEF Uploading, At, HasLocals, Storing, Deletion, Choosing, Removing, RunAwaits, Awaits, Idle
    <2>4. QED
      BY <1>1, <2>1, <2>2, <2>3 DEF Familiar, At
  <1>2. ASSUME Uploading(req'[r])
        PROVE  /\ resume'[req'[r].file] = None
               /\ \A q \in Requests \ {r} : ~At(q, "idle") =>
                    /\ req[q].file = req'[r].file => req[q].key # None
                    /\ req[q].other = req'[r].file => At(q, "proposal_delete")
    BY <1>2 DEF Familiar, FInv, UploadsAreAlone
  <1>3. QED
    BY <1>1, <1>2 DEF StaysAway

\* A step that changes no file and the resume of none.
LEMMA LocalStep ==
  ASSUME TInv, TInv', FInv, NEW r \in Requests, Moved(r), strayed \subseteq strayed',
         \A f \in Files : Same(f), KnowsFiles(r)', Familiar(r), LeavesSettled(r)
  PROVE  FInv'
  <1>1. ChangesWell(r, {})
    BY DEF ChangesWell
  <1>2. QED
    BY <1>1, FilesStep, FamiliarStaysAway

\* A request that is over knows nothing.
LEMMA IdleKnows ==
  ASSUME NEW r \in Requests, req'[r] = Idle
  PROVE  KnowsFiles(r)' /\ Familiar(r)
  <1>1. Idle.at = "idle"
    BY IdleFacts
  <1>2. req'[r].at = "idle" /\ ~Uploading(req'[r])
    BY <1>1 DEF Uploading, Storing, Deletion
  <1>3. QED
    BY <1>2 DEF KnowsFiles, Familiar, Storing, Deletion, Choosing, Removing

\* The steps that leave the bucket, files, and which resumes there are.
LEMMA SameFiles ==
  ASSUME TInv, NEW r \in Requests, Solo(r), ~StorageStep(r), ~InsertResume(r), ~DeleteRow(r)
  PROVE  \A f \in Files : Same(f)
  <1>1. UNCHANGED <<object, record>>
    BY DEF Solo, ResumeRoutes, Upload, SetDefault, DeleteResume, SuggestionRoute,
      DeleteSuggestion, FilesDelete, Extract, UploadStep, DefaultFind, InsertResume, FailInsert,
      DefaultStep, DefaultUnset, DefaultSet, NextFind, NextSet, DeleteRow, RunStep, Download,
      StatusUpdate, Audit, Ask, Propose, KeyDel, FailRun, Fail, Crash
  <1>2. resume \in [Files -> Row \cup {None}]
    BY DEF TInv, TypeOK
  <1>3. \A row \in Row : row # None
    BY NoneIsNoRow
  <1>4. ASSUME DefaultSet(r)
        PROVE  \A f \in Files : resume[f] = None <=> resume'[f] = None
    <2>1. \A f \in Files : resume[f] # None =>
            [resume[f] EXCEPT !.default = TRUE] \in Row /\ [resume[f] EXCEPT !.default = FALSE] \in Row
      BY <1>2, RowTypes
    <2>2. QED
      BY <1>2, <1>3, <1>4, <2>1 DEF DefaultSet
  <1>5. ASSUME StatusUpdate(r)
        PROVE  \A f \in Files : resume[f] = None <=> resume'[f] = None
    <2>1. PICK f \in Files : /\ resume[f] # None /\ req[r].status \in Statuses
                             /\ resume' = [resume EXCEPT ![f].status = Shown(req[r].status)]
      BY <1>5, AtAwait DEF StatusUpdate, At, HasLocals, Storing, Deletion, Choosing, Removing, RunAwaits, Awaits, Statuses
    <2>2. [resume[f] EXCEPT !.status = Shown(req[r].status)] \in Row
      BY <1>2, <2>1, RowTypes
    <2>3. resume' = [resume EXCEPT ![f] = [resume[f] EXCEPT !.status = Shown(req[r].status)]]
      BY <1>2, <2>1
    <2>4. QED
      BY <1>2, <1>3, <2>1, <2>2, <2>3
  <1>6. \A f \in Files : resume[f] = None <=> resume'[f] = None
    BY <1>4, <1>5, RowChanges DEF LocksOnly
  <1>7. QED
    BY <1>1, <1>6 DEF Same

\* Idle requests are responsible for nothing.
LEMMA IdleLeaves ==
  ASSUME NEW r \in Requests, At(r, "idle")
  PROVE  LeavesSettled(r)
  BY DEF LeavesSettled, Responsible, Halfway, At, Storing

\* Routes begin with files that have a resume, or do not delete or upload.
LEMMA RoutesKnowFiles ==
  ASSUME TInv, FInv, NEW r \in Requests,
         ResumeRoutes(r) \/ SuggestionRoute(r)
         \/ \E f \in Files : FilesDelete(r, f) \/ \E k \in Keys : Extract(r, f, k)
  PROVE  KnowsFiles(r)' /\ Familiar(r) /\ LeavesSettled(r) /\ strayed \subseteq strayed'
  <1>0. /\ req \in [Requests -> Local]
        /\ \A f \in Files : resume[f] # None => record[f] # None
        /\ None \notin Files /\ None \notin Keys /\ None \notin Candidates
    BY ResumeAssumption DEF TInv, TypeOK, FInv, FilesAreKept
  <1>1. ASSUME NEW c \in Candidates, Upload(r, c)
        PROVE  /\ KnowsFiles(r)' /\ Familiar(r) /\ At(r, "idle") /\ strayed \subseteq strayed'
    <2>1. req'[r].at = "put_object" /\ req'[r].file = None /\ req'[r].other = None
      BY <1>0, <1>1 DEF Upload, BeginChange, Begin, Idle
    <2>2. ~Uploading(req'[r])
      BY <2>1 DEF Uploading, Storing, Deletion
    <2>3. KnowsFiles(r)' /\ Familiar(r)
      BY <1>0, <2>1, <2>2 DEF KnowsFiles, Familiar, Storing, Deletion, Choosing, Removing
    <2>4. QED
      BY <1>1, <2>3 DEF Upload, BeginChange, Begin
  <1>2. ASSUME NEW c \in Candidates, NEW f \in Files, SetDefault(r, c, f)
        PROVE  /\ KnowsFiles(r)' /\ Familiar(r) /\ At(r, "idle") /\ strayed \subseteq strayed'
    <2>1. /\ req'[r].at \in Choosing /\ req'[r].file = f /\ req'[r].key = None
          /\ req'[r].other = None \/ (req'[r].other \in Files /\ resume[req'[r].other] # None)
      <3>1. CASE \E d \in Defaults(c) \ {f} :
                   Begin(r, [Idle EXCEPT !.at = "default_unset", !.owner = c, !.file = f, !.other = d])
        BY <1>0, <3>1 DEF Begin, Idle, Choosing, Defaults, Owned
      <3>2. CASE Begin(r, [Idle EXCEPT !.at = "default_set", !.owner = c, !.file = f])
        BY <1>0, <3>2 DEF Begin, Idle, Choosing
      <3>3. QED
        BY <1>2, <3>1, <3>2 DEF SetDefault
    <2>2. ~Uploading(req'[r])
      BY <2>1 DEF Uploading, Storing, Deletion, Choosing
    <2>3. (resume[f] # None \/ record[f] = "gone") /\ UNCHANGED <<record, strayed>> /\ At(r, "idle")
      BY <1>2 DEF SetDefault, Begin
    <2>4. record[f] # None
      BY <1>0, <2>3, NoneIsNoStatus
    <2>5. req'[r].other # None => record[req'[r].other] # None
      BY <1>0, <2>1
    <2>6. KnowsFiles(r)'
      BY <2>1, <2>2, <2>3, <2>4, <2>5 DEF KnowsFiles, Storing, Deletion, Choosing, Removing
    <2>7. Familiar(r)
      BY <1>0, <2>1, <2>2, <2>3 DEF Familiar
    <2>8. QED
      BY <2>3, <2>6, <2>7
  <1>3. ASSUME NEW f \in Files, DeleteResume(r, f)
        PROVE  /\ KnowsFiles(r)' /\ Familiar(r) /\ At(r, "idle") /\ strayed \subseteq strayed'
    <2>1. /\ req'[r].at \in {"next_find", "delete_find"} /\ req'[r].file = f /\ req'[r].key = None
          /\ req'[r].other = None /\ req'[r].then = "delete_row"
      BY <1>0, <1>3 DEF DeleteResume, BeginChange, Begin, Idle
    <2>2. ~Uploading(req'[r])
      BY <2>1 DEF Uploading, Storing
    <2>3. resume[f] # None /\ UNCHANGED <<record, strayed>> /\ At(r, "idle")
      BY <1>3 DEF DeleteResume, BeginChange, Begin
    <2>4. KnowsFiles(r)'
      BY <1>0, <2>1, <2>2, <2>3 DEF KnowsFiles, Storing, Deletion, Choosing, Removing
    <2>5. Familiar(r)
      BY <1>0, <2>1, <2>2, <2>3 DEF Familiar
    <2>6. QED
      BY <2>3, <2>4, <2>5
  <1>4. ASSUME NEW f \in Files, DeleteSuggestion(r, f)
        PROVE  /\ KnowsFiles(r)' /\ Familiar(r) /\ At(r, "idle") /\ strayed \subseteq strayed'
    <2>1. req'[r].at = "proposal_delete" /\ req'[r].file = None
      BY <1>0, <1>4 DEF DeleteSuggestion, Begin, Idle
    <2>2. ~Uploading(req'[r])
      BY <2>1 DEF Uploading, Storing, Deletion
    <2>3. KnowsFiles(r)' /\ Familiar(r)
      BY <1>0, <2>1, <2>2 DEF KnowsFiles, Familiar, Storing, Deletion, Choosing, Removing
    <2>4. QED
      BY <1>4, <2>3 DEF DeleteSuggestion, Begin, history
  <1>5. ASSUME NEW f \in Files, FilesDelete(r, f)
        PROVE  /\ KnowsFiles(r)' /\ Familiar(r) /\ At(r, "idle") /\ strayed \subseteq strayed'
    <2>1. /\ req'[r].at = "delete_find" /\ req'[r].file = f /\ req'[r].key = None
          /\ req'[r].other = None /\ req'[r].then = "idle" /\ req'[r].owner = None
      BY <1>0, <1>5 DEF FilesDelete, Begin, Idle
    <2>2. ~Uploading(req'[r])
      BY <2>1 DEF Uploading, Storing
    <2>3. /\ resume[f] # None /\ UNCHANGED record /\ At(r, "idle")
          /\ strayed' = strayed \cup {f}
      BY <1>5 DEF FilesDelete, Begin
    <2>4. KnowsFiles(r)'
      BY <1>0, <2>1, <2>2, <2>3 DEF KnowsFiles, Storing, Deletion, Choosing, Removing
    <2>5. Familiar(r)
      BY <1>0, <2>1, <2>2, <2>3 DEF Familiar
    <2>6. QED
      BY <2>3, <2>4, <2>5
  <1>6. ASSUME NEW f \in Files, NEW k \in Keys, Extract(r, f, k)
        PROVE  /\ KnowsFiles(r)' /\ Familiar(r) /\ At(r, "idle") /\ strayed \subseteq strayed'
    <2>1. req'[r].at = "download" /\ req'[r].key = k /\ req'[r].other = None
      BY <1>0, <1>6 DEF Extract, Begin, Idle
    <2>2. ~Uploading(req'[r])
      BY <2>1 DEF Uploading, Storing, Deletion
    <2>3. KnowsFiles(r)' /\ Familiar(r)
      BY <1>0, <2>1, <2>2 DEF KnowsFiles, Familiar, Storing, Deletion, Choosing, Removing
    <2>4. QED
      BY <1>6, <2>3 DEF Extract, Begin, history
  <1>7. CASE ResumeRoutes(r)
    BY <1>1, <1>2, <1>3, <1>7, IdleLeaves DEF ResumeRoutes
  <1>8. QED
    BY <1>4, <1>5, <1>6, <1>7, IdleLeaves DEF SuggestionRoute

\* A request that keeps its files, and neither begins nor ends an upload.
LEMMA SameLocals ==
  ASSUME TInv, FInv, NEW r \in Requests, req[r].at \in Awaits \ {"proposal_delete"},
         req'[r].file = req[r].file, req'[r].key = req[r].key,
         req'[r].other \in {None, req[r].other}
                           \cup {f \in Files : resume[f] # None},
         Uploading(req'[r]) => Uploading(req[r]) /\ resume'[req[r].file] = None
  PROVE  Familiar(r)
  <1>1. ~At(r, "idle") /\ None \notin Files
    BY ResumeAssumption DEF At, HasLocals, Storing, Deletion, Choosing, Removing, RunAwaits, Awaits
  <1>2. QED
    BY <1>1 DEF Familiar, At

\* What a request that stays where it was, but for its label and another resume, still knows.
LEMMA StillKnows ==
  ASSUME TInv, FInv, NEW r \in Requests, req[r].at \in Awaits \ {"proposal_delete"},
         UNCHANGED record, strayed \subseteq strayed',
         req'[r].file = req[r].file, req'[r].then = req[r].then, req'[r].owner = req[r].owner,
         req'[r].other = req[r].other \/ resume[req'[r].other] # None,
         req'[r].other \in Files \cup {None},
         req'[r].at \in Choosing \cup Removing \cup Deletion,
         req'[r].at \in {"delete_save", "delete_remove", "delete_row"} => req[r].file \notin object',
         req[r].at \in Choosing \cup Removing \cup Deletion,
         req'[r].at \in Deletion /\ req[r].then = "idle" => req[r].at \in Deletion,
         Uploading(req'[r]) /\ req'[r].at \in {"delete_find", "delete_object"} =>
            req[r].at \in {"delete_find", "delete_object"} /\ UNCHANGED object
  PROVE  KnowsFiles(r)'
  <1>1. KnowsFiles(r)
    BY DEF FInv
  <1>2. req'[r].at \notin Storing /\ req'[r].at # "idle" /\ req[r].at \notin {"idle", "proposal_delete"}
    BY DEF Storing, Choosing, Removing, Deletion
  <1>3. Uploading(req'[r]) => Uploading(req[r])
    BY <1>2 DEF Uploading
  <1>4. \A f \in Files : resume[f] # None => record[f] # None
    BY DEF FInv, FilesAreKept
  <1>5. req'[r].other # None => record[req'[r].other] # None
    BY <1>1, <1>2, <1>4 DEF KnowsFiles
  <1>6. record[req[r].file] # None
    BY <1>1 DEF KnowsFiles
  <1>7. req'[r].at \in Deletion /\ req'[r].then = "idle" /\ req'[r].owner = None => req[r].file \in strayed'
    BY <1>1 DEF KnowsFiles
  <1>8. Uploading(req'[r]) => record[req[r].file] # "gone"
    BY <1>1, <1>3 DEF KnowsFiles
  <1>9. Uploading(req'[r]) /\ req'[r].at \in {"delete_find", "delete_object"} =>
          req[r].file \in object' /\ record[req[r].file] = "active"
    BY <1>1, <1>3 DEF KnowsFiles
  <1>10. QED
    BY <1>2, <1>5, <1>6, <1>7, <1>8, <1>9 DEF KnowsFiles

\* The steps of a candidate's requests that change no file.
LEMMA DefaultsKnowFiles ==
  ASSUME TInv, TInv', FInv, NEW r \in Requests,
         DefaultUnset(r) \/ DefaultSet(r) \/ NextFind(r) \/ NextSet(r)
  PROVE  FInv'
  <1>1. Moved(r) /\ \A f \in Files : Same(f)
    <2>1. Solo(r) /\ ~StorageStep(r) /\ ~InsertResume(r) /\ ~DeleteRow(r)
      BY DEF Solo, DefaultStep, StorageStep, PutObject, InsertRecord, DeleteFind, DeleteObject,
        DeleteSave, DeleteRemove, InsertResume, DeleteRow, DefaultUnset, DefaultSet, NextFind,
        NextSet, At
    <2>2. QED
      BY <2>1, SoloMoves, SameFiles
  <1>2. /\ req[r] \in Local /\ req \in [Requests -> Local] /\ UNCHANGED <<record, object, strayed>>
        /\ HasLocals(req[r]) /\ req[r].at \in Awaits \ {"proposal_delete"}
        /\ req[r].at \in Choosing \cup Removing
    BY LocalsOf DEF DefaultUnset, DefaultSet, NextFind, NextSet, At, history, HasLocals, Storing, Deletion, Choosing, Removing, RunAwaits, Awaits
  <1>3. LeavesSettled(r) \/ At(r, "delete_row")
    BY <1>2 DEF LeavesSettled, Responsible, Halfway, At, Choosing, Removing, Storing
  <1>4. LeavesSettled(r)
    BY <1>3 DEF DefaultUnset, DefaultSet, NextFind, NextSet, At
  <1>5. CASE DefaultSet(r)
    BY <1>1, <1>2, <1>4, <1>5, Returns, IdleKnows, LocalStep DEF DefaultSet, Return
  <1>6. CASE DefaultUnset(r) \/ NextFind(r) \/ NextSet(r)
    <2>1. /\ req'[r].at \in {"default_set", "next_set", "delete_find"}
          /\ req'[r].file = req[r].file /\ req'[r].then = req[r].then /\ req'[r].owner = req[r].owner
          /\ req'[r].key = req[r].key
          /\ req'[r].other = req[r].other \/ (req'[r].other \in Files /\ resume[req'[r].other] # None)
          /\ req'[r].at = "delete_find" => req[r].at \in Removing
      <3>1. CASE DefaultUnset(r)
        BY <3>1, GotoFields DEF DefaultUnset
      <3>2. CASE NextSet(r)
        BY <3>2, GotoFields DEF NextSet, Removing, At
      <3>3. CASE NextFind(r)
        <4>1. CASE Goto(r, "delete_find")
          BY <3>3, <4>1, GotoFields DEF NextFind, Removing, At
        <4>2. CASE \E g \in Files : resume[g] # None
                     /\ req' = [req EXCEPT ![r].at = "next_set", ![r].other = g]
          BY <1>2, <4>2 DEF Local
        <4>3. QED
          BY <3>3, <4>1, <4>2 DEF NextFind, Owned
      <3>4. QED
        BY <1>6, <3>1, <3>2, <3>3
    <2>2. req[r].at \in Removing => req[r].then = "delete_row"
      BY <1>2 DEF HasLocals
    <2>3. ~Uploading(req'[r])
      BY <2>1, <2>2 DEF Uploading, Storing, Deletion
    <2>4. req[r].other \in Files \cup {None}
      BY <1>2 DEF Local
    <2>5. KnowsFiles(r)'
      BY <1>2, <2>1, <2>2, <2>3, <2>4, StillKnows DEF Choosing, Removing, Deletion
    <2>6. Familiar(r)
      BY <1>2, <2>1, <2>3, SameLocals
    <2>7. QED
      BY <1>1, <1>2, <1>4, <2>5, <2>6, LocalStep
  <1>7. QED
    BY <1>5, <1>6

\* The steps of an upload after its file has been stored.
LEMMA UploadsKnowFiles ==
  ASSUME TInv, TInv', FInv, NEW r \in Requests, DefaultFind(r) \/ FailInsert(r)
  PROVE  FInv'
  <1>1. Moved(r) /\ \A f \in Files : Same(f)
    <2>1. Solo(r) /\ ~StorageStep(r) /\ ~DeleteRow(r)
      BY DEF Solo, UploadStep, StorageStep, PutObject, InsertRecord, DeleteFind, DeleteObject,
        DeleteSave, DeleteRemove, DeleteRow, DefaultFind, FailInsert, At
    <2>2. UNCHANGED <<object, record, resume>>
      BY DEF DefaultFind, FailInsert, rows
    <2>3. QED
      BY <2>1, <2>2, SoloMoves DEF Same
  <1>2. /\ req[r] \in Local /\ req \in [Requests -> Local]
        /\ UNCHANGED <<record, object, resume, strayed>>
        /\ HasLocals(req[r]) /\ req[r].at \in {"default_find", "insert_resume"}
    BY LocalsOf DEF DefaultFind, FailInsert, At, history, rows, HasLocals, Storing, Deletion, Choosing, Removing, RunAwaits, Awaits, Idle
  <1>3. /\ KnowsFiles(r) /\ Uploading(req[r]) /\ resume[req[r].file] = None
        /\ req[r].file \in Files /\ req[r].owner \in Candidates
    BY <1>2 DEF FInv, UploadsAreAlone, Uploading, Storing, HasLocals
  <1>4. req[r].file \in object /\ record[req[r].file] = "active"
    BY <1>2, <1>3 DEF KnowsFiles, Storing, At
  <1>5. /\ req'[r].file = req[r].file /\ req'[r].owner = req[r].owner /\ req'[r].key = req[r].key
        /\ \/ /\ req'[r].at = "insert_resume"
              /\ req'[r].other = req[r].other \/ (req'[r].other \in Files /\ resume[req'[r].other] # None)
           \/ req'[r].at = "delete_find" /\ req'[r].then = "idle" /\ req'[r].other = None
    <2>1. CASE DefaultFind(r)
      <3>1. CASE Goto(r, "insert_resume")
        BY <3>1, GotoFields
      <3>2. CASE \E d \in Files : resume[d] # None
                   /\ req' = [req EXCEPT ![r].at = "insert_resume", ![r].other = d]
        BY <1>2, <3>2 DEF Local
      <3>3. QED
        BY <2>1, <3>1, <3>2 DEF DefaultFind, Defaults, Owned
    <2>2. CASE FailInsert(r)
      BY <1>2, <2>2 DEF FailInsert, Local
    <2>3. QED
      BY <2>1, <2>2
  <1>6. \A f \in Files : resume[f] # None => record[f] # None
    BY DEF FInv, FilesAreKept
  <1>7. req'[r].other # None => record[req'[r].other] # None
    BY <1>2, <1>3, <1>5, <1>6 DEF KnowsFiles
  <1>8. KnowsFiles(r)'
    BY <1>2, <1>3, <1>4, <1>5, <1>7, ResumeAssumption, NoneIsNoStatus
    DEF KnowsFiles, At, Storing, Deletion, Choosing, Removing, Uploading
  <1>9. Familiar(r)
    BY <1>2, <1>3, <1>5, SameLocals DEF Awaits, Storing
  <1>10. LeavesSettled(r)
    BY <1>2, <1>5 DEF LeavesSettled, Responsible, Halfway, Storing
  <1>11. QED
    BY <1>1, <1>2, <1>8, <1>9, <1>10, LocalStep

\* Runs change no file, and are not responsible for one.
LEMMA RunsKnowFiles ==
  ASSUME TInv, TInv', FInv, NEW r \in Requests, RunStep(r)
  PROVE  FInv'
  <1>1. req[r].at \in RunAwaits
    BY DEF RunStep, Download, StatusUpdate, Audit, Ask, Propose, KeyDel, FailRun, At, RunAwaits
  <1>2. Moved(r) /\ \A f \in Files : Same(f)
    <2>1. Solo(r) /\ ~StorageStep(r) /\ ~InsertResume(r) /\ ~DeleteRow(r)
      BY <1>1 DEF Solo, StorageStep, PutObject, InsertRecord, DeleteFind, DeleteObject,
        DeleteSave, DeleteRemove, InsertResume, DeleteRow, RunAwaits, At
    <2>2. QED
      BY <2>1, SoloMoves, SameFiles
  <1>3. UNCHANGED <<strayed, record>>
    BY DEF RunStep, Download, StatusUpdate, Audit, Ask, Propose, KeyDel, FailRun, history
  <1>4. /\ req[r] \in Local /\ req \in [Requests -> Local]
        /\ HasLocals(req[r]) /\ req[r].at \in Awaits \ {"proposal_delete"} /\ KnowsFiles(r)
    BY <1>1, LocalsOf DEF At, HasLocals, Storing, Deletion, Choosing, Removing, RunAwaits, Awaits, FInv, Idle
  <1>5. LeavesSettled(r)
    BY <1>1 DEF LeavesSettled, Responsible, Halfway, RunAwaits, Storing
  <1>6. \/ req'[r] = Idle
        \/ /\ req'[r].at \in RunAwaits /\ req'[r].file = req[r].file /\ req'[r].key = req[r].key
           /\ req'[r].other = req[r].other
    <2>1. \A status : GotoStatus(r, status) => /\ req'[r].at = "status" /\ req'[r].file = req[r].file
                                               /\ req'[r].key = req[r].key /\ req'[r].other = req[r].other
      BY <1>4 DEF GotoStatus, Local
    <2>2. \A label \in RunAwaits : label # "idle"
      BY DEF RunAwaits
    <2>3. \/ \E status : GotoStatus(r, status)
          \/ \E label \in RunAwaits : Goto(r, label)
          \/ Goto(r, "idle")
      <3>1. Audit(r) => \E label \in RunAwaits \cup {"idle"} : Goto(r, label)
        <4>1. At(r, "audit") => req[r].status \in {"processing", "completed", "failed"}
          BY <1>4 DEF HasLocals, At
        <4>2. QED
          BY <4>1 DEF Audit, Return, RunAwaits
      <3>2. QED
        BY <3>1 DEF RunStep, Download, StatusUpdate, Ask, Propose, KeyDel, FailRun, Return, RunAwaits
    <2>4. QED
      BY <2>1, <2>2, <2>3, GotoFields DEF RunAwaits
  <1>7. CASE req'[r] = Idle
    BY <1>2, <1>3, <1>5, <1>7, IdleKnows, LocalStep
  <1>8. CASE req'[r].at \in RunAwaits /\ req'[r].file = req[r].file /\ req'[r].key = req[r].key
             /\ req'[r].other = req[r].other
    <2>1. req'[r].at \notin Storing \cup Deletion \cup Choosing \cup Removing \cup {"idle", "proposal_delete"}
      BY <1>8 DEF RunAwaits, Storing, Deletion, Choosing, Removing
    <2>2. ~Uploading(req'[r])
      BY <2>1 DEF Uploading
    <2>3. req'[r].other # None => record[req'[r].other] # None
      BY <1>1, <1>4, <1>8 DEF KnowsFiles, RunAwaits
    <2>4. KnowsFiles(r)'
      BY <1>3, <2>1, <2>2, <2>3 DEF KnowsFiles, Removing, Deletion
    <2>5. Familiar(r)
      BY <1>4, <1>8, <2>2, SameLocals
    <2>6. QED
      BY <1>2, <1>3, <1>5, <2>4, <2>5, LocalStep
  <1>9. QED
    BY <1>6, <1>7, <1>8

\* A request that is cut off is recorded, if it is responsible for a file.
LEMMA FailuresKnowFiles ==
  ASSUME TInv, TInv', FInv, NEW r \in Requests, Fail(r) \/ Crash(r)
  PROVE  FInv'
  <1>1. Moved(r) /\ req'[r] = Idle
    BY SoloMoves, Returns DEF Solo, Fail, Crash, Return
  <1>2. UNCHANGED <<object, record, resume>> /\ strayed \subseteq strayed'
    BY DEF Fail, Crash, Stray
  <1>3. LeavesSettled(r)
    <2>1. ASSUME NEW f \in Files, r \in Responsible(f)
          PROVE  f \in strayed'
      BY <2>1 DEF Responsible, Fail, Crash, Stray, Storing, Halfway
    <2>2. QED
      BY <2>1 DEF LeavesSettled
  <1>4. \A f \in Files : Same(f)
    BY <1>2 DEF Same
  <1>5. QED
    BY <1>1, <1>2, <1>3, <1>4, IdleKnows, LocalStep

\* What a request that deletes a file has locals for, and knows of it.
LEMMA DeletionFacts ==
  ASSUME TInv, FInv, NEW r \in Requests, req[r].at \in Deletion
  PROVE  /\ HasLocals(req[r]) /\ req[r] \in Local /\ req[r].file \in Files /\ KnowsFiles(r)
         /\ req[r].at \in Awaits \ {"proposal_delete"} /\ req[r].key = None
         /\ req[r].then \in {"idle", "delete_row"} /\ record[req[r].file] # None
         /\ req[r].then = "delete_row" => req[r].owner \in Candidates
         /\ req[r].then = "idle" => req[r].other = None
         /\ \A q \in Requests \ {r} : Uploading(req[q]) => req[q].file # req[r].file
  <1>1. HasLocals(req[r]) /\ req[r] \in Local /\ ~At(r, "idle")
    BY LocalsOf DEF At, Deletion, Idle
  <1>2. /\ req[r].file \in Files /\ req[r].key = None /\ req[r].then \in {"idle", "delete_row"}
        /\ req[r].then = "delete_row" => req[r].owner \in Candidates
        /\ req[r].then = "idle" => req[r].other = None
    BY <1>1 DEF HasLocals, Deletion, RunAwaits
  <1>3. KnowsFiles(r)
    BY DEF FInv
  <1>4. \A q \in Requests \ {r} : Uploading(req[q]) => req[q].file # req[r].file
    BY <1>1, <1>2 DEF FInv, UploadsAreAlone
  <1>5. req[r].at \in Awaits \ {"proposal_delete"}
    BY DEF Awaits, Deletion
  <1>6. record[req[r].file] # None
    BY <1>3 DEF KnowsFiles
  <1>7. QED
    BY <1>1, <1>2, <1>3, <1>4, <1>5, <1>6

\* deleteFile goes on to its next step or back to its caller with the file it was given.
LEMMA DeletionKnows ==
  ASSUME TInv, TInv', FInv, NEW r \in Requests, Moved(r), req[r].at \in Deletion,
         NEW label \in Deletion \cup {"idle", "delete_row"}, Goto(r, label),
         label \in {"idle", "delete_row"} => label = req[r].then,
         UNCHANGED <<resume, strayed>>,
         \A f \in Files : record[f] # None => record'[f] # None,
         label \in {"delete_save", "delete_remove", "delete_row"} => req[r].file \notin object',
         label \in Deletion /\ Uploading(req[r]) => record'[req[r].file] # "gone",
         label \in {"delete_find", "delete_object"} /\ Uploading(req[r]) =>
            req[r].file \in object' /\ record'[req[r].file] = "active"
  PROVE  KnowsFiles(r)' /\ Familiar(r)
  <1>1. CASE label = "idle"
    BY <1>1, Returns, IdleKnows
  <1>2. CASE label # "idle"
    <2>1. /\ req'[r].at = label /\ req'[r].file = req[r].file /\ req'[r].then = req[r].then
          /\ req'[r].owner = req[r].owner /\ req'[r].other = req[r].other /\ req'[r].key = req[r].key
      BY <1>2, GotoFields
    <2>2. /\ HasLocals(req[r]) /\ req[r] \in Local /\ req[r].file \in Files /\ KnowsFiles(r)
          /\ req[r].at \in Awaits \ {"proposal_delete"} /\ record[req[r].file] # None
      BY DeletionFacts
    <2>3. Uploading(req'[r]) => Uploading(req[r]) /\ label \in Deletion
      BY <2>1 DEF Uploading, Deletion, Storing
    <2>4. Uploading(req[r]) => resume[req[r].file] = None
      BY DEF FInv, UploadsAreAlone
    <2>5. Familiar(r)
      BY <2>1, <2>2, <2>3, <2>4, SameLocals
    <2>6. label \notin Storing \cup Choosing /\ req[r].at \notin {"idle", "proposal_delete"}
      BY DEF Storing, Choosing, Deletion
    <2>7. req'[r].other # None => record'[req'[r].other] # None
      BY <2>1, <2>2, <2>6 DEF KnowsFiles, Local
    <2>8. req'[r].at \in Deletion /\ req'[r].then = "idle" /\ req'[r].owner = None =>
            req'[r].file \in strayed'
      BY <2>1, <2>2 DEF KnowsFiles
    <2>9. KnowsFiles(r)'
      BY <2>1, <2>2, <2>3, <2>6, <2>7, <2>8 DEF KnowsFiles
    <2>10. QED
      BY <2>5, <2>9
  <1>3. QED
    BY <1>1, <1>2

\* deleteFile finds the row: a file that is not found has no object, and no upload has it.
LEMMA FindsWell ==
  ASSUME TInv, TInv', FInv, NEW r \in Requests, DeleteFind(r), UNCHANGED <<rows, history>>
  PROVE  FInv'
  <1>1. req[r].at = "delete_find" /\ req[r].at \in Deletion /\ UNCHANGED <<object, record, resume, strayed>>
    BY DEF DeleteFind, At, Deletion, rows, history
  <1>2. /\ HasLocals(req[r]) /\ req[r] \in Local /\ req[r].file \in Files /\ KnowsFiles(r)
        /\ req[r].then \in {"idle", "delete_row"} /\ record[req[r].file] # None
    BY <1>1, DeletionFacts
  <1>3. Moved(r)
    BY StorageMoves DEF StorageStep
  <1>4. PICK label \in {"delete_object", "idle", "delete_row"} :
          /\ Goto(r, label)
          /\ label = IF Found(req[r].file) THEN "delete_object" ELSE req[r].then
    BY <1>2 DEF DeleteFind
  <1>5. label # "delete_object" => record[req[r].file] = "gone" /\ req[r].file \notin object
    BY <1>2, <1>4 DEF Found, TInv, TypeOK, Records, FInv, FilesAreKept
  <1>6. Uploading(req[r]) => label = "delete_object" /\ req[r].file \in object /\ record[req[r].file] = "active"
    BY <1>1, <1>2, <1>5 DEF KnowsFiles
  <1>7. KnowsFiles(r)' /\ Familiar(r)
    BY <1>1, <1>2, <1>3, <1>4, <1>5, <1>6, DeletionKnows DEF Deletion
  <1>8. \A f \in Files : Same(f)
    BY <1>1 DEF Same
  <1>9. LeavesSettled(r)
    <2>1. ASSUME NEW f \in Files, r \in Responsible(f)
          PROVE  f = req[r].file /\ req[r].then = "idle"
      BY <1>1, <2>1 DEF Responsible, Halfway, Storing
    <2>2. CASE label = "delete_object"
      <3>1. req'[r].at = "delete_object" /\ req'[r].then = req[r].then /\ req'[r].file = req[r].file
        BY <1>4, <2>2, GotoFields
      <3>2. QED
        BY <2>1, <3>1 DEF LeavesSettled, Responsible, Halfway
    <2>3. CASE label # "delete_object"
      <3>1. ASSUME req[r].then = "idle"
            PROVE  req[r].file \in strayed
        <4>1. req[r].owner = None
          BY <1>1, <1>6, <2>3, <3>1 DEF Uploading
        <4>2. QED
          BY <1>1, <1>2, <3>1, <4>1 DEF KnowsFiles
      <3>2. QED
        BY <1>1, <2>1, <3>1 DEF LeavesSettled
    <2>4. QED
      BY <2>2, <2>3
  <1>10. QED
    BY <1>1, <1>3, <1>7, <1>8, <1>9, LocalStep

\* A request goes on deleting its file, of which it changes the object or the row.
LEMMA DeletesWell ==
  ASSUME TInv, TInv', FInv, NEW r \in Requests, DeleteObject(r) \/ DeleteSave(r),
         UNCHANGED <<rows, history>>
  PROVE  FInv'
  <1>1. req[r].at \in Deletion
    BY DEF DeleteObject, DeleteSave, At, Deletion
  <1>2. /\ req[r] \in Local /\ req[r].file \in Files /\ KnowsFiles(r) /\ record[req[r].file] # None
        /\ \A q \in Requests \ {r} : Uploading(req[q]) => req[q].file # req[r].file
        /\ UNCHANGED <<resume, strayed>> /\ record \in [Files -> Records]
    BY <1>1, DeletionFacts DEF rows, history, TInv, TypeOK
  <1>3. Moved(r)
    BY StorageMoves DEF StorageStep
  <1>4. PICK f \in Files : f = req[r].file
    BY <1>2
  <1>5. PICK label \in {"delete_save", "delete_remove"} :
          /\ Goto(r, label) /\ f \notin object'
          /\ \A g \in Files \ {f} : Same(g)
          /\ record'[f] \in {record[f], "deleted"}
    <2>1. CASE DeleteObject(r)
      <3>1. Goto(r, "delete_save") /\ object' = object \ {f} /\ UNCHANGED record
        BY <1>1, <1>4, <2>1 DEF DeleteObject, At, Deletion
      <3>2. QED
        BY <1>2, <3>1 DEF Same
    <2>2. CASE DeleteSave(r)
      <3>1. At(r, "delete_save") /\ Goto(r, "delete_remove") /\ UNCHANGED object
            /\ record' = [record EXCEPT ![f] = "deleted"]
        BY <1>4, <2>2 DEF DeleteSave
      <3>2. f \notin object
        BY <1>2, <1>4, <3>1 DEF KnowsFiles, At
      <3>3. QED
        BY <1>2, <3>1, <3>2 DEF Same
    <2>3. QED
      BY <2>1, <2>2
  <1>6. /\ \A g \in Files : record[g] # None => record'[g] # None
        /\ record[f] # "failed" /\ record[f] # None
        /\ Uploading(req[r]) => record[f] # "gone"
    BY <1>2, <1>4, <1>5, NoneIsNoStatus DEF Same, KnowsFiles, FInv, FilesAreKept
  <1>7. KnowsFiles(r)' /\ Familiar(r)
    BY <1>1, <1>2, <1>3, <1>4, <1>5, <1>6, DeletionKnows DEF Deletion
  <1>8. req'[r].at = label /\ req'[r].file = f
    BY <1>4, <1>5, GotoFields
  <1>9. r \in Responsible(f)'
    BY <1>8 DEF Responsible, Halfway
  <1>10. ChangesWell(r, {f})
    BY <1>2, <1>4, <1>5, <1>6, <1>9 DEF ChangesWell
  <1>11. LeavesSettled(r)
    BY <1>4, <1>9 DEF LeavesSettled, Responsible
  <1>12. QED
    BY <1>2, <1>3, <1>7, <1>10, <1>11, FilesStep, FamiliarStaysAway

\* The deletion of a file is over: its resume is deleted next, or it had none, or none any more.
LEMMA RemovesWell ==
  ASSUME TInv, TInv', FInv, NEW r \in Requests, DeleteRemove(r), UNCHANGED <<rows, history>>
  PROVE  FInv'
  <1>1. req[r].at = "delete_remove" /\ req[r].at \in Deletion
    BY DEF DeleteRemove, At, Deletion
  <1>2. /\ req[r] \in Local /\ req[r].file \in Files /\ KnowsFiles(r) /\ record[req[r].file] # None
        /\ \A q \in Requests \ {r} : Uploading(req[q]) => req[q].file # req[r].file
        /\ req[r].then \in {"idle", "delete_row"}
        /\ UNCHANGED <<resume, strayed, object>> /\ record \in [Files -> Records]
    BY <1>1, DeletionFacts DEF rows, history, TInv, TypeOK, DeleteRemove
  <1>3. Moved(r)
    BY StorageMoves DEF StorageStep
  <1>4. PICK f \in Files : f = req[r].file
    BY <1>2
  <1>5. PICK label \in {"idle", "delete_row"} : label = req[r].then /\ Goto(r, label)
    BY <1>2 DEF DeleteRemove
  <1>6. f \notin object /\ record' = [record EXCEPT ![f] = "gone"]
    BY <1>1, <1>2, <1>4 DEF KnowsFiles, DeleteRemove
  <1>7. \A g \in Files \ {f} : Same(g)
    BY <1>2, <1>6 DEF Same
  <1>8. \A g \in Files : record[g] # None => record'[g] # None
    BY <1>2, <1>6, NoneIsNoStatus
  <1>9. KnowsFiles(r)' /\ Familiar(r)
    BY <1>1, <1>2, <1>3, <1>4, <1>5, <1>6, <1>8, DeletionKnows DEF Deletion
  <1>10. f \in strayed' \/ Settled(f)' \/ r \in Responsible(f)'
    <2>1. CASE label = "delete_row"
      <3>1. req'[r].at = "delete_row" /\ req'[r].file = f
        BY <1>4, <1>5, <2>1, GotoFields
      <3>2. QED
        BY <3>1 DEF Responsible, Halfway
    <2>2. CASE label = "idle" /\ req[r].owner = None
      BY <1>1, <1>2, <1>4, <1>5, <2>2 DEF KnowsFiles
    <2>3. CASE label = "idle" /\ req[r].owner # None
      <3>1. Uploading(req[r])
        BY <1>1, <1>5, <2>3 DEF Uploading
      <3>2. resume[f] = None
        BY <1>4, <3>1 DEF FInv, UploadsAreAlone
      <3>3. QED
        BY <1>2, <1>6, <3>2 DEF Settled
    <2>4. QED
      BY <2>1, <2>2, <2>3
  <1>11. ChangesWell(r, {f})
    BY <1>2, <1>4, <1>6, <1>7, <1>8, <1>10 DEF ChangesWell
  <1>12. LeavesSettled(r)
    BY <1>4, <1>10 DEF LeavesSettled, Responsible
  <1>13. QED
    BY <1>2, <1>3, <1>9, <1>11, <1>12, FilesStep, FamiliarStaysAway

\* A file is put under a key of its own, and from then on its request is responsible for it.
LEMMA PutsWell ==
  ASSUME TInv, TInv', FInv, NEW r \in Requests, NEW f \in Files, PutObject(r, f),
         UNCHANGED <<rows, history>>
  PROVE  FInv'
  <1>1. /\ At(r, "put_object") /\ record[f] = None /\ f \notin object
        /\ \A q \in Requests : ~At(q, "idle") => req[q].file # f
        /\ object' = object \cup {f} /\ UNCHANGED <<record, resume, strayed>>
    BY DEF PutObject, rows, history
  <1>2. HasLocals(req[r]) /\ req[r] \in Local /\ req \in [Requests -> Local]
    BY <1>1, AtAwait DEF Awaits
  <1>3. req[r].other = None /\ req[r].key = None
    BY <1>1, <1>2 DEF HasLocals, At, RunAwaits
  <1>4. Moved(r)
    BY StorageMoves DEF StorageStep
  <1>5. req'[r].at = "insert_record" /\ req'[r].file = f /\ req'[r].other = None /\ req'[r].key = None
    BY <1>2, <1>3 DEF PutObject, Local
  <1>6. resume[f] = None
    BY <1>1 DEF FInv, FilesAreKept
  <1>7. KnowsFiles(r)'
    BY <1>1, <1>5, NoneIsNoStatus DEF KnowsFiles, At, Storing, Deletion, Choosing, Removing, Uploading
  <1>8. StaysAway(r)
    <2>1. \A q \in Requests : ~At(q, "idle") /\ req[q].other = f => At(q, "proposal_delete")
      <3>1. ASSUME NEW q \in Requests, ~At(q, "idle"), req[q].other = f, ~At(q, "proposal_delete")
            PROVE  FALSE
        <4>1. KnowsFiles(q) /\ f # None
          BY ResumeAssumption DEF FInv
        <4>2. QED
          BY <1>1, <3>1, <4>1 DEF KnowsFiles, At
      <3>2. QED
        BY <3>1
    <2>2. \A q \in Requests \ {r} : Uploading(req[q]) => ~At(q, "idle") /\ req[q].file \in Files
      BY LocalsOf DEF Uploading, At, HasLocals, Storing, Deletion, Choosing, Removing, RunAwaits, Awaits, Idle
    <2>3. QED
      BY <1>1, <1>5, <1>6, <2>1, <2>2, ResumeAssumption DEF StaysAway
  <1>9. r \in Responsible(f)'
    BY <1>5 DEF Responsible, Halfway
  <1>10. ChangesWell(r, {f})
    <2>1. \A g \in Files \ {f} : Same(g)
      BY <1>1 DEF Same
    <2>2. \A q \in Requests \ {r} : Uploading(req[q]) => req[q].file # f
      BY <1>1 DEF Uploading, At, Storing, Deletion
    <2>3. QED
      BY <1>1, <1>6, <1>9, <2>1, <2>2, NoneIsNoStatus DEF ChangesWell
  <1>11. LeavesSettled(r)
    BY <1>1 DEF LeavesSettled, Responsible, Halfway, At, Storing
  <1>12. QED
    BY <1>1, <1>4, <1>7, <1>8, <1>10, <1>11, FilesStep

\* The row of files is inserted for a file that only its request knows.
LEMMA InsertsWell ==
  ASSUME TInv, TInv', FInv, NEW r \in Requests, InsertRecord(r), UNCHANGED <<rows, history>>
  PROVE  FInv'
  <1>1. PICK f \in Files : f = req[r].file
    BY AtAwait DEF InsertRecord, At, HasLocals, Storing, Deletion, Choosing, Removing, RunAwaits, Awaits
  <1>2. HasLocals(req[r]) /\ req[r] \in Local /\ At(r, "insert_record")
    BY AtAwait DEF InsertRecord, Awaits, Storing
  <1>3. req[r].then = "default_find" /\ req[r].other = None /\ req[r].key = None
    BY <1>2 DEF HasLocals, Storing, Deletion, Choosing, Removing, RunAwaits, Awaits, At
  <1>4. /\ UNCHANGED <<object, resume, strayed>>
        /\ record' = [record EXCEPT ![f] = "active"] /\ record \in [Files -> Records]
        /\ Goto(r, "default_find")
    BY <1>1, <1>3 DEF InsertRecord, rows, history, TInv, TypeOK
  <1>5. Moved(r)
    BY StorageMoves DEF StorageStep
  <1>6. req'[r].at = "default_find" /\ req'[r].file = f /\ req'[r].other = None /\ req'[r].key = None
    BY <1>1, <1>3, <1>4, GotoFields
  <1>7. Uploading(req[r]) /\ f \in object /\ resume[f] = None
    BY <1>1, <1>2 DEF FInv, KnowsFiles, UploadsAreAlone, Uploading, At, Storing
  <1>8. \A q \in Requests \ {r} : Uploading(req[q]) => req[q].file # f
    BY <1>1, <1>2, <1>3 DEF FInv, UploadsAreAlone, At
  <1>9. KnowsFiles(r)'
    BY <1>4, <1>6, <1>7 DEF KnowsFiles, At, Storing, Deletion, Choosing, Removing, Uploading
  <1>10. Familiar(r)
    BY <1>1, <1>2, <1>3, <1>4, <1>6, <1>7, SameLocals DEF Awaits, Storing, At
  <1>11. r \in Responsible(f)'
    BY <1>6 DEF Responsible, Storing
  <1>12. ChangesWell(r, {f})
    <2>1. \A g \in Files \ {f} : Same(g)
      BY <1>4 DEF Same
    <2>2. QED
      BY <1>4, <1>7, <1>8, <1>11, <2>1, NoneIsNoStatus DEF ChangesWell
  <1>13. LeavesSettled(r)
    BY <1>1, <1>11 DEF LeavesSettled, Responsible
  <1>14. QED
    BY <1>4, <1>5, <1>9, <1>10, <1>12, <1>13, FilesStep, FamiliarStaysAway

\* The resume comes to its file, or goes after it.
LEMMA SettlesWell ==
  ASSUME TInv, TInv', FInv, NEW r \in Requests, InsertResume(r) \/ DeleteRow(r)
  PROVE  FInv'
  <1>1. /\ HasLocals(req[r]) /\ req[r] \in Local /\ req[r].at \in {"insert_resume", "delete_row"}
        /\ KnowsFiles(r) /\ resume \in [Files -> Row \cup {None}]
    BY AtAwait DEF InsertResume, DeleteRow, Awaits, Storing, Removing, At, FInv, TInv, TypeOK
  <1>2. PICK f \in Files : f = req[r].file
    BY <1>1 DEF HasLocals, Storing, Deletion, Choosing, Removing, RunAwaits, Awaits
  <1>3. Moved(r) /\ req'[r] = Idle
    BY SoloMoves, Returns DEF Solo, UploadStep, DefaultStep, InsertResume, DeleteRow, Return
  <1>4. UNCHANGED <<object, record, strayed>>
    BY DEF InsertResume, DeleteRow, history
  <1>5. /\ \A g \in Files \ {f} : Same(g)
        /\ Settled(f)'
        /\ resume'[f] # None => record[f] # None
    <2>1. CASE InsertResume(r)
      <3>1. /\ \A g \in Files \ {f} : resume'[g] = resume[g]
            /\ resume'[f] \in Row
        BY <1>1, <1>2, <2>1 DEF InsertResume, HasLocals, Storing, Deletion, Choosing, Removing, RunAwaits, Awaits, Row, Statuses
      <3>2. f \in object /\ record[f] = "active"
        BY <1>1, <1>2, <2>1 DEF InsertResume, KnowsFiles, At, Storing
      <3>3. QED
        BY <1>4, <3>1, <3>2, NoneIsNoRow, NoneIsNoStatus DEF Same, Settled, Available
    <2>2. CASE DeleteRow(r)
      <3>1. \A g \in Files : resume[g] # None => [resume[g] EXCEPT !.default = TRUE] \in Row
        BY <1>1, RowTypes
      <3>2. /\ \A g \in Files \ {f} : resume[g] = None <=> resume'[g] = None
            /\ resume'[f] = None
        BY <1>1, <1>2, <2>2, <3>1, NoneIsNoRow DEF DeleteRow
      <3>3. f \notin object
        BY <1>1, <1>2, <2>2 DEF DeleteRow, KnowsFiles, At
      <3>4. QED
        BY <1>4, <3>2, <3>3 DEF Same, Settled
    <2>3. QED
      BY <2>1, <2>2
  <1>6. \A q \in Requests \ {r} : Uploading(req[q]) => req[q].file # f
    BY <1>1, <1>2 DEF FInv, UploadsAreAlone, HasLocals, At, RunAwaits
  <1>7. ChangesWell(r, {f})
    BY <1>4, <1>5, <1>6 DEF ChangesWell, FInv, FilesAreKept
  <1>8. LeavesSettled(r)
    BY <1>2, <1>5 DEF LeavesSettled, Responsible
  <1>9. QED
    BY <1>3, <1>4, <1>7, <1>8, IdleKnows, FilesStep, FamiliarStaysAway

\* Every file is settled, given up, or in the hands of a request.
LEMMA FilesInvariant == Spec => []FInv
  <1>1. Init => FInv
    BY IdleFacts, NoneIsNoStatus DEF Init, FInv, FilesAreKept, KnowsFiles, UploadsAreAlone, FilesSettle, Settled,
      Uploading, At, Storing, Deletion, Choosing, Removing
  <1>2. TInv /\ TInv' /\ FInv /\ [Next]_vars => FInv'
    <2> SUFFICES ASSUME TInv, TInv', FInv, [Next]_vars
                 PROVE  FInv'
      OBVIOUS
    <2>1. ASSUME NEW r \in Requests,
                 ResumeRoutes(r) \/ SuggestionRoute(r)
                 \/ \E f \in Files : FilesDelete(r, f) \/ \E k \in Keys : Extract(r, f, k)
          PROVE  FInv'
      <3>1. KnowsFiles(r)' /\ Familiar(r) /\ LeavesSettled(r) /\ strayed \subseteq strayed'
        BY <2>1, RoutesKnowFiles
      <3>2. Moved(r)
        BY <2>1, RoutesMove
      <3>3. \A f \in Files : Same(f)
        BY <2>1 DEF Same, ResumeRoutes, Upload, SetDefault, DeleteResume, SuggestionRoute,
          DeleteSuggestion, FilesDelete, Extract, rows
      <3>4. QED
        BY <3>1, <3>2, <3>3, LocalStep
    <2>2. ASSUME NEW r \in Requests, StorageStep(r) /\ UNCHANGED <<rows, held, history, proposals>>
          PROVE  FInv'
      BY <2>2, PutsWell, InsertsWell, FindsWell, DeletesWell, RemovesWell DEF StorageStep
    <2>3. ASSUME NEW r \in Requests, Solo(r)
          PROVE  FInv'
      BY <2>1, <2>2, <2>3, UploadsKnowFiles, SettlesWell, DefaultsKnowFiles, RunsKnowFiles,
         FailuresKnowFiles DEF Solo, UploadStep, DefaultStep
    <2>4. ASSUME NEW r \in Requests, ProposalDelete(r)
          PROVE  FInv'
      <3>1. UNCHANGED <<object, record, resume, strayed>>
        BY <2>4 DEF ProposalDelete, rows, history
      <3>2. \A q \in Requests : req'[q] = req[q]
                                 \/ (req'[q].at = "idle" /\ req[q].at = "proposal_delete" /\ req'[q] = Idle)
        BY <2>4, DismissalMoves, IdleFacts DEF At
      <3>3. \A q \in Requests : Uploading(req'[q]) => req'[q] = req[q]
        BY <3>2 DEF Uploading, Storing, Deletion
      <3>4. ASSUME NEW q \in Requests
            PROVE  KnowsFiles(q)'
        <4>1. CASE req'[q] = Idle
          BY <4>1, IdleKnows
        <4>2. CASE req'[q] = req[q]
          BY <3>1, <4>2 DEF FInv, KnowsFiles, At
        <4>3. QED
          BY <3>2, <4>1, <4>2
      <3>5. UploadsAreAlone'
        BY <3>1, <3>2, <3>3 DEF FInv, UploadsAreAlone, At
      <3>6. \A f \in Files : Responsible(f)' = Responsible(f)
        BY <3>2 DEF Responsible, Halfway, Storing
      <3>7. FilesAreKept' /\ FilesSettle'
        BY <3>1, <3>6 DEF FInv, FilesAreKept, FilesSettle, Settled, Available
      <3>8. QED
        BY <3>4, <3>5, <3>7 DEF FInv
    <2>5. ASSUME UNCHANGED <<req, object, record, strayed>>,
                 \A f \in Files : resume[f] = None <=> resume'[f] = None
          PROVE  FInv'
      <3>1. \A f \in Files : Responsible(f)' = Responsible(f)
        BY <2>5 DEF Responsible, Halfway
      <3>2. FilesAreKept' /\ FilesSettle'
        BY <2>5, <3>1 DEF FInv, FilesAreKept, FilesSettle, Settled, Available
      <3>3. \A q \in Requests : KnowsFiles(q)'
        BY <2>5 DEF FInv, KnowsFiles, At
      <3>4. \A q \in Requests : Uploading(req[q]) => req[q].file \in Files
        BY LocalsOf DEF Uploading, At, HasLocals, Storing, Deletion, Choosing, Removing, RunAwaits, Awaits, Idle
      <3>5. UploadsAreAlone'
        BY <2>5, <3>4 DEF FInv, UploadsAreAlone, At
      <3>6. QED
        BY <3>2, <3>3, <3>5 DEF FInv
    <2>6. Expire => FInv'
      BY <2>5 DEF Expire, rows
    <2>7. ASSUME NEW f \in Files, NEW status \in Statuses, ServiceStatus(f, status)
          PROVE  FInv'
      <3>1. resume \in [Files -> Row \cup {None}] /\ resume[f] # None
        BY <2>7 DEF ServiceStatus, TInv, TypeOK
      <3>2. resume' = [resume EXCEPT ![f] = [resume[f] EXCEPT !.status = Shown(status)]]
        BY <2>7, <3>1 DEF ServiceStatus
      <3>3. [resume[f] EXCEPT !.status = Shown(status)] \in Row
        BY <3>1, RowTypes
      <3>4. QED
        BY <2>5, <2>7, <3>1, <3>2, <3>3, NoneIsNoRow DEF ServiceStatus
    <2>8. CASE Next
      BY <2>3, <2>4, <2>6, <2>7, <2>8, StepCases
    <2>9. CASE UNCHANGED vars
      BY <2>5, <2>9 DEF vars, rows, history
    <2>10. QED
      BY <2>8, <2>9
  <1>3. QED
    BY <1>1, <1>2, TypesAndLocals, PTL DEF Spec

\* A resume has its file and a file in the bucket its resume, whatever requests of all kinds do
\* in between and wherever they fail, except for the files known to be stray (/files deletes,
\* requests that ended half-way).
THEOREM FilesComeAndGoTogether == Spec => []FilesMatchResumes
  <1>1. TInv /\ FInv => FilesMatchResumes
    <2> SUFFICES ASSUME TInv, FInv, NEW f \in Files
                 PROVE  \/ f \in strayed
                        \/ \E r \in Requests : ~At(r, "idle") /\ req[r].file = f /\ req[r].key = None
                        \/ resume[f] # None /\ Available(f)
                        \/ resume[f] = None /\ f \notin object
      BY DEF FilesMatchResumes
    <2>1. ASSUME NEW r \in Responsible(f)
          PROVE  ~At(r, "idle") /\ req[r].file = f /\ req[r].key = None /\ r \in Requests
      BY LocalsOf DEF Responsible, Halfway, At, HasLocals, Storing, Deletion, Choosing, Removing, RunAwaits, Awaits
    <2>2. f \in strayed \/ Settled(f) \/ Responsible(f) # {}
      BY DEF FInv, FilesSettle
    <2>3. QED
      BY <2>1, <2>2 DEF Settled
  <1>2. QED
    BY <1>1, FilesInvariant, TypesAndLocals, PTL

----------------------------------------------------------------------------
(* The default *)

Kept(c) == Owned(c)' = Owned(c) /\ Defaults(c)' = Defaults(c)

\* A row that is written has the default it is given, and keeps its owner.
LEMMA RowFields ==
  ASSUME NEW row \in Row
  PROVE  /\ \A b \in BOOLEAN : /\ [row EXCEPT !.default = b].default = b
                               /\ [row EXCEPT !.default = b].owner = row.owner
                               /\ [row EXCEPT !.default = b] # None
         /\ \A s \in Statuses : /\ [row EXCEPT !.status = Shown(s)].default = row.default
                                /\ [row EXCEPT !.status = Shown(s)].owner = row.owner
                                /\ [row EXCEPT !.status = Shown(s)] # None
  <1>1. /\ \A b \in BOOLEAN : [row EXCEPT !.default = b] \in Row
        /\ \A s \in Statuses : [row EXCEPT !.status = Shown(s)] \in Row
    BY RowTypes
  <1>2. /\ \A b \in BOOLEAN : [row EXCEPT !.default = b] # None
        /\ \A s \in Statuses : [row EXCEPT !.status = Shown(s)] # None
    BY <1>1, NoneIsNoRow
  <1>3. \A b \in BOOLEAN : /\ [row EXCEPT !.default = b].default = b
                           /\ [row EXCEPT !.default = b].owner = row.owner
    BY DEF Row
  <1>4. \A s \in Statuses : /\ [row EXCEPT !.status = Shown(s)].default = row.default
                            /\ [row EXCEPT !.status = Shown(s)].owner = row.owner
    BY DEF Row
  <1>5. QED
    BY <1>2, <1>3, <1>4

\* The resumes and the defaults of candidates after an insert ...
LEMMA InsertDefaults ==
  ASSUME TInv, FInv, NEW r \in Requests, InsertResume(r), NEW c \in Candidates
  PROVE  /\ req[r].file \in Files /\ resume[req[r].file] = None
         /\ \A f \in Files : f # req[r].file => resume'[f] = resume[f]
         /\ resume'[req[r].file].owner = req[r].owner
         /\ Owned(c)' = IF c = req[r].owner THEN Owned(c) \cup {req[r].file} ELSE Owned(c)
         /\ Defaults(c)' = IF c = req[r].owner /\ req[r].other = None
                           THEN Defaults(c) \cup {req[r].file} ELSE Defaults(c)
  <1> DEFINE row == [owner |-> req[r].owner, default |-> req[r].other = None, status |-> "pending"]
  <1>1. HasLocals(req[r]) /\ req[r].at = "insert_resume"
    BY AtAwait DEF InsertResume, Awaits, Storing
  <1>2. PICK f \in Files, o \in Candidates : f = req[r].file /\ o = req[r].owner
    BY <1>1 DEF HasLocals, Storing, Deletion, Choosing, Removing, RunAwaits, Awaits
  <1>3. resume[f] = None
    BY <1>1, <1>2 DEF FInv, UploadsAreAlone, Uploading, Storing
  <1>4. resume \in [Files -> Row \cup {None}]
    BY DEF TInv, TypeOK
  <1>5. PICK b \in BOOLEAN : b = (req[r].other = None)
    OBVIOUS
  <1>6. [owner |-> o, default |-> b, status |-> "pending"] \in Row
    BY DEF Row, Statuses
  <1>7. resume' = [resume EXCEPT ![f] = [owner |-> o, default |-> b, status |-> "pending"]]
    BY <1>2, <1>5 DEF InsertResume
  <1>8. /\ \A g \in Files : g # f => resume'[g] = resume[g]
        /\ resume'[f] # None /\ resume'[f].owner = o /\ resume'[f].default = b
    BY <1>4, <1>6, <1>7, NoneIsNoRow
  <1>9. Owned(c)' = IF c = o THEN Owned(c) \cup {f} ELSE Owned(c)
    BY <1>3, <1>8 DEF Owned
  <1>10. f \notin Owned(c)
    BY <1>3 DEF Owned
  <1>11. Defaults(c)' = IF c = o /\ b THEN Defaults(c) \cup {f} ELSE Defaults(c)
    BY <1>8, <1>9, <1>10 DEF Defaults, Owned
  <1>12. QED
    BY <1>2, <1>3, <1>5, <1>8, <1>9, <1>11

\* ... after a setDefault ...
LEMMA SetDefaults ==
  ASSUME TInv, NEW r \in Requests, DefaultSet(r), NEW c \in Candidates
  PROVE  /\ \A f \in Files : resume'[f] # None => resume[f] # None /\ resume'[f].owner = resume[f].owner
         /\ Owned(c)' = Owned(c)
         /\ Defaults(c)' = (Defaults(c) \ {req[r].other}) \cup ({req[r].file} \cap Owned(c))
  <1>1. resume \in [Files -> Row \cup {None}]
    BY DEF TInv, TypeOK
  <1>2. PICK f, d : f = req[r].file /\ d = req[r].other
    OBVIOUS
  <1>3. ASSUME NEW g \in Files, resume[g] # None
        PROVE  /\ [resume[g] EXCEPT !.default = TRUE].default = TRUE
               /\ [resume[g] EXCEPT !.default = FALSE].default = FALSE
               /\ [resume[g] EXCEPT !.default = TRUE].owner = resume[g].owner
               /\ [resume[g] EXCEPT !.default = FALSE].owner = resume[g].owner
               /\ [resume[g] EXCEPT !.default = TRUE] # None
               /\ [resume[g] EXCEPT !.default = FALSE] # None
    <2>1. resume[g] \in Row /\ TRUE \in BOOLEAN /\ FALSE \in BOOLEAN
      BY <1>1, <1>3
    <2>2. QED
      BY <2>1, RowFields, Zenon
  <1>4. \A g \in Files :
          resume'[g] = IF resume[g] = None THEN None
                       ELSE IF g = f THEN [resume[g] EXCEPT !.default = TRUE]
                       ELSE IF g = d THEN [resume[g] EXCEPT !.default = FALSE] ELSE resume[g]
    BY <1>2 DEF DefaultSet
  <1>5. \A g \in Files : /\ resume'[g] = None <=> resume[g] = None
                         /\ resume[g] # None => resume'[g].owner = resume[g].owner
    BY <1>3, <1>4
  <1>6. \A g \in Files : resume[g] # None =>
          (resume'[g].default <=> g = f \/ (g # d /\ resume[g].default))
    BY <1>3, <1>4
  <1>7. Owned(c)' = Owned(c)
    BY <1>5 DEF Owned
  <1>8. \A g \in Owned(c) : g \in Files /\ resume[g] # None
    BY DEF Owned
  <1>9. Defaults(c)' = (Defaults(c) \ {d}) \cup ({f} \cap Owned(c))
    BY <1>6, <1>7, <1>8 DEF Defaults
  <1>10. QED
    BY <1>2, <1>5, <1>7, <1>9

\* ... and after a delete.
LEMMA DeleteDefaults ==
  ASSUME TInv, NEW r \in Requests, DeleteRow(r), NEW c \in Candidates
  PROVE  /\ \A f \in Files : resume'[f] # None => resume[f] # None /\ resume'[f].owner = resume[f].owner
         /\ Owned(c)' = Owned(c) \ {req[r].file}
         /\ Defaults(c)' = (Defaults(c) \cup ({req[r].other} \cap Owned(c))) \ {req[r].file}
  <1>1. resume \in [Files -> Row \cup {None}]
    BY DEF TInv, TypeOK
  <1>2. PICK f, d : f = req[r].file /\ d = req[r].other
    OBVIOUS
  <1>3. \A g \in Files : resume[g] # None =>
          /\ [resume[g] EXCEPT !.default = TRUE].default = TRUE
          /\ [resume[g] EXCEPT !.default = TRUE].owner = resume[g].owner
          /\ [resume[g] EXCEPT !.default = TRUE] # None
    BY <1>1, RowFields
  <1>4. \A g \in Files :
          resume'[g] = IF g = f \/ resume[g] = None THEN None
                       ELSE IF g = d THEN [resume[g] EXCEPT !.default = TRUE] ELSE resume[g]
    BY <1>2 DEF DeleteRow
  <1>5. \A g \in Files : /\ resume'[g] = None <=> (g = f \/ resume[g] = None)
                         /\ resume[g] # None /\ g # f => resume'[g].owner = resume[g].owner
    BY <1>3, <1>4
  <1>6. \A g \in Files : resume[g] # None /\ g # f =>
          (resume'[g].default <=> g = d \/ resume[g].default)
    BY <1>3, <1>4
  <1>7. Owned(c)' = Owned(c) \ {f}
    BY <1>5 DEF Owned
  <1>8. \A g \in Owned(c) : g \in Files /\ resume[g] # None
    BY DEF Owned
  <1>9. Defaults(c)' = (Defaults(c) \cup ({d} \cap Owned(c))) \ {f}
    BY <1>6, <1>7, <1>8 DEF Defaults
  <1>10. QED
    BY <1>2, <1>5, <1>7, <1>9

\* A status is not a default.
LEMMA StatusDefaults ==
  ASSUME TInv, NEW f \in Files, NEW status \in Statuses, resume[f] # None,
         resume' = [resume EXCEPT ![f].status = Shown(status)]
  PROVE  /\ \A g \in Files : resume'[g] # None => resume[g] # None /\ resume'[g].owner = resume[g].owner
         /\ \A c \in Candidates : Kept(c)
  <1>1. resume \in [Files -> Row \cup {None}] /\ resume[f] \in Row
    BY DEF TInv, TypeOK
  <1>2. resume' = [resume EXCEPT ![f] = [resume[f] EXCEPT !.status = Shown(status)]]
    BY <1>1
  <1>3. /\ [resume[f] EXCEPT !.status = Shown(status)] # None
        /\ [resume[f] EXCEPT !.status = Shown(status)].default = resume[f].default
        /\ [resume[f] EXCEPT !.status = Shown(status)].owner = resume[f].owner
    BY <1>1, RowFields
  <1>4. \A g \in Files : /\ resume'[g] = None <=> resume[g] = None
                         /\ resume[g] # None => /\ resume'[g].owner = resume[g].owner
                                                /\ resume'[g].default = resume[g].default
    BY <1>1, <1>2, <1>3
  <1>5. \A c \in Candidates : Owned(c)' = Owned(c)
    BY <1>4 DEF Owned
  <1>6. \A c \in Candidates : Defaults(c)' = Defaults(c)
    BY <1>4, <1>5 DEF Defaults, Owned
  <1>7. QED
    BY <1>4, <1>5, <1>6 DEF Kept

OneAt(c) == IF Owned(c) = {} THEN Defaults(c) = {} ELSE \E f \in Files : Defaults(c) = {f}

\* A step that changes the resumes of no candidate but its own, whose only request it is, or of
\* one whose requests are known to interfere.
ChangesOwn(r) ==
  \A c \in Candidates : c \notin raced' =>
    \/ Kept(c)
    \/ ~At(r, "idle") /\ req[r].owner = c /\ OneAt(c)'

\* A row keeps its owner, and is inserted for a file nobody else works on.
KeepsOwners(r) ==
  \A f \in Files : resume'[f] # None =>
    \/ resume[f] # None /\ resume'[f].owner = resume[f].owner
    \/ \A q \in Requests \ {r} : ~At(q, "idle") =>
         /\ req[q].file = f => req[q].key # None
         /\ req[q].other = f => At(q, "proposal_delete")

\* A request begins to change the default of its candidate alone, unless that is recorded.
BeginsAlone(r) ==
  req'[r].at # "idle" /\ req'[r].owner \in Candidates =>
    \/ ~At(r, "idle") /\ req[r].owner = req'[r].owner
    \/ Changing(req'[r].owner) = {}
    \/ req'[r].owner \in raced'

\* These make a good step.
LEMMA DefaultsStep ==
  ASSUME TInv, TInv', DInv, NEW r \in Requests, Moved(r), raced \subseteq raced',
         ChangesOwn(r), KeepsOwners(r), BeginsAlone(r), KnowsOwners(r)', KnowsDefault(r)'
  PROVE  DInv'
  <1>1. \A q \in Requests \ {r} : req'[q] = req[q]
    BY DEF Moved, Alone
  <1>2. ASSUME NEW q \in Requests \ {r}
        PROVE  KnowsOwners(q)'
    <2>1. KnowsOwners(q) /\ req'[q] = req[q] /\ req[q] \in Local
          /\ (At(q, "idle") \/ HasLocals(req[q]))
      BY <1>1, LocalsOf DEF DInv
    <2>2. ASSUME NEW f \in Files, NEW owners, Belongs(f, owners), ~At(q, "idle"),
                 \/ req[q].file = f /\ req[q].key = None
                 \/ req[q].other = f /\ ~At(q, "proposal_delete")
          PROVE  resume'[f] # None => resume'[f].owner \in owners
      BY <2>2 DEF KeepsOwners, Belongs
    <2>3. req[q].at \in Choosing \cup Removing \cup Deletion =>
            req[q].file \in Files /\ req[q].key = None /\ ~At(q, "idle")
      BY <2>1 DEF At, HasLocals, Storing, Deletion, Choosing, Removing, RunAwaits, Awaits
    <2>4. req[q].other # None => req[q].other \in Files
      BY <2>1 DEF Local
    <2>5. req[q].at \in Choosing =>
            (resume'[req[q].file] # None => resume'[req[q].file].owner \in {req[q].owner} \cup raced')
      BY <2>1, <2>2, <2>3 DEF KnowsOwners
    <2>6. req[q].at \in Removing \cup Deletion /\ req[q].then = "delete_row" =>
            (resume'[req[q].file] # None => resume'[req[q].file].owner \in {req[q].owner})
      BY <2>1, <2>2, <2>3 DEF KnowsOwners
    <2>7. req[q].at \in {"insert_resume"} \cup Choosing \cup Removing \cup Deletion /\ req[q].other # None =>
            (resume'[req[q].other] # None => resume'[req[q].other].owner \in {req[q].owner})
      <3>1. req[q].at \in {"insert_resume"} \cup Choosing \cup Removing \cup Deletion =>
              ~At(q, "idle") /\ ~At(q, "proposal_delete")
        BY DEF At, Choosing, Removing, Deletion
      <3>2. QED
        BY <2>1, <2>2, <2>4, <3>1 DEF KnowsOwners
    <2>8. QED
      BY <2>1, <2>5, <2>6, <2>7 DEF KnowsOwners, Belongs
  <1>3. ASSUME NEW q \in Requests \ {r}
        PROVE  KnowsDefault(q)'
    <2>1. KnowsDefault(q) /\ req'[q] = req[q] /\ req[q] \in Local
      BY <1>1, LocalsOf DEF DInv
    <2>2. CASE At(q, "idle") \/ req[q].owner = None \/ req[q].owner \in raced'
      BY <2>1, <2>2 DEF KnowsDefault, At, Choosing, Deletion
    <2>3. CASE ~At(q, "idle") /\ req[q].owner # None /\ req[q].owner \notin raced'
      <3>1. PICK c \in Candidates : c = req[q].owner
        BY <2>1, <2>3 DEF Local
      <3>2. q \in Changing(c) /\ c \notin raced
        BY <2>3, <3>1 DEF Changing
      <3>3. r \notin Changing(c)
        BY <3>2 DEF DInv, ChangesAreAlone
      <3>4. Kept(c)
        BY <2>3, <3>1, <3>3 DEF ChangesOwn, Changing
      <3>5. QED
        BY <2>1, <3>1, <3>2, <3>4 DEF KnowsDefault, Kept
    <2>4. QED
      BY <2>2, <2>3
  <1>4. ASSUME NEW c \in Candidates, c \notin raced'
        PROVE  \A p, q \in Changing(c)' : p = q
    <2>1. \A p, q \in Changing(c) : p = q
      BY <1>4 DEF DInv, ChangesAreAlone
    <2>2. \A q \in Requests \ {r} : q \in Changing(c)' => q \in Changing(c)
      BY <1>1 DEF Changing, At
    <2>3. r \in Changing(c)' => r \in Changing(c) \/ Changing(c) = {}
      BY <1>4 DEF Changing, BeginsAlone, At
    <2>4. Changing(c)' \subseteq Requests
      BY DEF Changing
    <2>5. QED
      BY <2>1, <2>2, <2>3, <2>4
  <1>5. ASSUME NEW c \in Candidates, c \notin raced'
        PROVE  OneAt(c)'
    <2>1. OneAt(c)
      BY <1>5 DEF DInv, OneDefault, OneAt
    <2>2. QED
      BY <1>5, <2>1 DEF ChangesOwn, OneAt, Kept
  <1>6. OneDefault' /\ ChangesAreAlone'
    BY <1>4, <1>5 DEF OneDefault, ChangesAreAlone, OneAt
  <1>7. QED
    BY <1>2, <1>3, <1>6 DEF DInv

Deciding == {"insert_resume"} \cup Choosing \cup Removing \cup Deletion

\* A request that decides nothing about a default knows nothing of one.
LEMMA ElsewhereKnows ==
  ASSUME NEW r \in Requests, req'[r].at \notin Deciding
  PROVE  KnowsOwners(r)' /\ KnowsDefault(r)'
  BY DEF Deciding, KnowsOwners, KnowsDefault, Choosing, Removing, Deletion

\* A step that leaves the owners and the defaults of all resumes.
LEMMA QuietStep ==
  ASSUME TInv, TInv', DInv, NEW r \in Requests, Moved(r), raced \subseteq raced',
         UNCHANGED resume, BeginsAlone(r), KnowsOwners(r)', KnowsDefault(r)'
  PROVE  DInv'
  <1>1. ChangesOwn(r)
    BY DEF ChangesOwn, Kept, Owned, Defaults
  <1>2. KeepsOwners(r)
    BY DEF KeepsOwners
  <1>3. QED
    BY <1>1, <1>2, DefaultsStep

\* A request that is over, or has nothing to do with a candidate.
LEMMA OverBegins ==
  ASSUME TInv, NEW r \in Requests, req'[r] = Idle \/ req'[r].owner = None
         \/ (~At(r, "idle") /\ req'[r].owner = req[r].owner)
  PROVE  BeginsAlone(r)
  BY IdleFacts, ResumeAssumption DEF BeginsAlone

\* setDefault takes the default of a candidate whose requests do not interfere.
LEMMA SetDefaultKnows ==
  ASSUME TInv, TInv', DInv, NEW r \in Requests, NEW c \in Candidates, NEW f \in Files, SetDefault(r, c, f)
  PROVE  DInv'
  <1>1. /\ req \in [Requests -> Local] /\ UNCHANGED resume /\ At(r, "idle")
        /\ raced' = raced \cup (IF Changing(c) # {} \/ f \notin Owned(c) THEN {c} ELSE {})
                          \cup {d \in Candidates \ {c} : f \in Owned(d)}
        /\ resume \in [Files -> Row \cup {None}]
    BY DEF SetDefault, rows, Begin, TInv, TypeOK
  <1>2. /\ req'[r].at \in Choosing /\ req'[r].file = f /\ req'[r].owner = c
        /\ IF req'[r].other = None THEN Defaults(c) = {}
           ELSE req'[r].other \in Defaults(c) /\ req'[r].other # f
    <2>1. CASE \E d \in Defaults(c) \ {f} :
                 Begin(r, [Idle EXCEPT !.at = "default_unset", !.owner = c, !.file = f, !.other = d])
      <3>1. PICK d \in Defaults(c) \ {f} :
              Begin(r, [Idle EXCEPT !.at = "default_unset", !.owner = c, !.file = f, !.other = d])
        BY <2>1
      <3>2. d # None
        BY <3>1, ResumeAssumption DEF Defaults, Owned
      <3>3. QED
        BY <1>1, <3>1, <3>2 DEF Begin, Idle, Choosing
    <2>2. CASE Defaults(c) = {}
               /\ Begin(r, [Idle EXCEPT !.at = "default_set", !.owner = c, !.file = f])
      BY <1>1, <2>2 DEF Begin, Idle, Choosing
    <2>3. QED
      BY <2>1, <2>2 DEF SetDefault
  <1>3. Moved(r)
    BY SoloMoves DEF Solo, ResumeRoutes
  <1>4. BeginsAlone(r)
    BY <1>1, <1>2 DEF BeginsAlone
  <1>5. resume[f] # None => resume[f].owner \in {c} \cup raced'
    <2>1. resume[f] # None => resume[f].owner \in Candidates
      BY <1>1, RowTypes
    <2>2. QED
      BY <1>1, <2>1 DEF Owned
  <1>6. \A d \in Defaults(c) : resume[d].owner = c
    BY DEF Defaults, Owned
  <1>7. KnowsOwners(r)'
    BY <1>1, <1>2, <1>5, <1>6 DEF KnowsOwners, Belongs, Choosing, Removing, Deletion
  <1>8. ASSUME c \notin raced'
        PROVE  /\ f \in Owned(c)
               /\ IF req'[r].other = None THEN Defaults(c) = {}
                  ELSE Defaults(c) = {req'[r].other} /\ req'[r].other # f
    <2>1. f \in Owned(c) /\ c \notin raced
      BY <1>1, <1>8
    <2>2. \E d \in Files : Defaults(c) = {d}
      BY <2>1 DEF DInv, OneDefault
    <2>3. QED
      BY <1>2, <2>1, <2>2
  <1>9. Owned(c)' = Owned(c) /\ Defaults(c)' = Defaults(c)
    BY <1>1 DEF Owned, Defaults
  <1>10. KnowsDefault(r)'
    BY <1>2, <1>8, <1>9 DEF KnowsDefault, Choosing, Deletion
  <1>11. QED
    BY <1>1, <1>3, <1>4, <1>7, <1>10, QuietStep

\* deleteResume knows whether the resume is the default.
LEMMA DeleteResumeKnows ==
  ASSUME TInv, TInv', DInv, NEW r \in Requests, NEW f \in Files, DeleteResume(r, f)
  PROVE  DInv'
  <1>1. /\ req \in [Requests -> Local] /\ UNCHANGED resume /\ At(r, "idle") /\ resume[f] # None
        /\ resume \in [Files -> Row \cup {None}]
    BY DEF DeleteResume, rows, BeginChange, Begin, TInv, TypeOK
  <1>2. PICK c \in Candidates : c = resume[f].owner
    BY <1>1, RowTypes
  <1>3. /\ raced' = raced \cup (IF Changing(c) # {} THEN {c} ELSE {})
        /\ req'[r].at = IF resume[f].default THEN "next_find" ELSE "delete_find"
        /\ req'[r].file = f /\ req'[r].owner = c /\ req'[r].then = "delete_row" /\ req'[r].other = None
    BY <1>1, <1>2 DEF DeleteResume, BeginChange, Begin, Idle
  <1>4. Moved(r)
    BY SoloMoves DEF Solo, ResumeRoutes
  <1>5. BeginsAlone(r)
    BY <1>3 DEF BeginsAlone
  <1>6. KnowsOwners(r)'
    BY <1>1, <1>2, <1>3 DEF KnowsOwners, Belongs, Choosing, Removing, Deletion
  <1>7. f \in Owned(c) /\ (f \in Defaults(c) <=> resume[f].default)
    BY <1>1, <1>2 DEF Defaults, Owned
  <1>8. c \notin raced' => \E d \in Files : Defaults(c) = {d}
    BY <1>3, <1>7 DEF DInv, OneDefault
  <1>9. Owned(c)' = Owned(c) /\ Defaults(c)' = Defaults(c)
    BY <1>1 DEF Owned, Defaults
  <1>10. c \notin raced' =>
           /\ req'[r].at = "next_find" => Defaults(c) = {f}
           /\ req'[r].at # "next_find" => Defaults(c) # {f}
    BY <1>3, <1>7, <1>8
  <1>11. KnowsDefault(r)'
    BY <1>3, <1>7, <1>9, <1>10 DEF KnowsDefault, Choosing, Deletion
  <1>12. QED
    BY <1>1, <1>3, <1>4, <1>5, <1>6, <1>11, QuietStep

\* The routes.
LEMMA RoutesKnowDefaults ==
  ASSUME TInv, TInv', DInv, NEW r \in Requests,
         ResumeRoutes(r) \/ SuggestionRoute(r)
         \/ \E f \in Files : FilesDelete(r, f) \/ \E k \in Keys : Extract(r, f, k)
  PROVE  DInv'
  <1>1. Moved(r) /\ req \in [Requests -> Local] /\ Idle.owner = None
    BY RoutesMove, IdleFacts DEF TInv, TypeOK
  <1>2. ASSUME NEW c \in Candidates, Upload(r, c)
        PROVE  DInv'
    <2>1. /\ req'[r].at = "put_object" /\ req'[r].owner = c
          /\ raced' = raced \cup (IF Changing(c) # {} THEN {c} ELSE {}) /\ UNCHANGED resume
      BY <1>1, <1>2 DEF Upload, BeginChange, Begin, Idle, rows
    <2>2. BeginsAlone(r)
      BY <2>1 DEF BeginsAlone
    <2>3. KnowsOwners(r)' /\ KnowsDefault(r)'
      BY <2>1, ElsewhereKnows DEF Deciding, Choosing, Removing, Deletion
    <2>4. QED
      BY <1>1, <2>1, <2>2, <2>3, QuietStep
  <1>3. ASSUME NEW f \in Files, DeleteSuggestion(r, f)
        PROVE  DInv'
    <2>1. req'[r].at = "proposal_delete" /\ req'[r].owner = None /\ UNCHANGED <<resume, raced>>
      BY <1>1, <1>3 DEF DeleteSuggestion, Begin, Idle, rows, history
    <2>2. KnowsOwners(r)' /\ KnowsDefault(r)'
      BY <2>1, ElsewhereKnows DEF Deciding, Choosing, Removing, Deletion
    <2>3. QED
      BY <1>1, <2>1, <2>2, OverBegins, QuietStep
  <1>4. ASSUME NEW f \in Files, FilesDelete(r, f)
        PROVE  DInv'
    <2>1. /\ req'[r].at = "delete_find" /\ req'[r].owner = None /\ req'[r].then = "idle"
          /\ req'[r].other = None /\ UNCHANGED <<resume, raced>>
      BY <1>1, <1>4 DEF FilesDelete, Begin, Idle, rows
    <2>2. KnowsOwners(r)' /\ KnowsDefault(r)'
      BY <2>1 DEF KnowsOwners, KnowsDefault, Choosing, Removing
    <2>3. QED
      BY <1>1, <2>1, <2>2, OverBegins, QuietStep
  <1>5. ASSUME NEW f \in Files, NEW k \in Keys, Extract(r, f, k)
        PROVE  DInv'
    <2>1. req'[r].at = "download" /\ req'[r].owner = None /\ UNCHANGED <<resume, raced>>
      BY <1>1, <1>5 DEF Extract, Begin, Idle, rows, history
    <2>2. KnowsOwners(r)' /\ KnowsDefault(r)'
      BY <2>1, ElsewhereKnows DEF Deciding, Choosing, Removing, Deletion
    <2>3. QED
      BY <1>1, <2>1, <2>2, OverBegins, QuietStep
  <1>6. CASE ResumeRoutes(r)
    BY <1>2, <1>6, SetDefaultKnows, DeleteResumeKnows DEF ResumeRoutes
  <1>7. QED
    BY <1>3, <1>4, <1>5, <1>6 DEF SuggestionRoute

\* An upload has found the only default, or that there is no resume.
LEMMA DefaultFindKnows ==
  ASSUME TInv, TInv', DInv, NEW r \in Requests, DefaultFind(r)
  PROVE  DInv'
  <1>1. HasLocals(req[r]) /\ req[r] \in Local /\ req[r].at = "default_find" /\ req \in [Requests -> Local]
    BY AtAwait DEF DefaultFind, Awaits, Storing
  <1>2. PICK c \in Candidates : c = req[r].owner
    BY <1>1 DEF HasLocals, Storing, Deletion, Choosing, Removing, RunAwaits, Awaits
  <1>3. Moved(r) /\ UNCHANGED <<resume, raced>>
    BY SoloMoves DEF Solo, UploadStep, DefaultFind, rows, history
  <1>4. /\ req'[r].at = "insert_resume" /\ req'[r].owner = c
        /\ IF req'[r].other = None THEN Defaults(c) = {} ELSE req'[r].other \in Defaults(c)
    <2>1. CASE Defaults(c) = {} /\ Goto(r, "insert_resume")
      <3>1. req[r].other = None
        BY <1>1 DEF HasLocals
      <3>2. QED
        BY <1>2, <2>1, <3>1, GotoFields
    <2>2. CASE \E d \in Defaults(c) : req' = [req EXCEPT ![r].at = "insert_resume", ![r].other = d]
      <3>1. PICK d \in Defaults(c) : req' = [req EXCEPT ![r].at = "insert_resume", ![r].other = d]
        BY <2>2
      <3>2. d # None
        BY ResumeAssumption DEF Defaults, Owned
      <3>3. QED
        BY <1>1, <1>2, <3>1, <3>2 DEF Local
    <2>3. QED
      BY <1>2, <2>1, <2>2 DEF DefaultFind
  <1>5. BeginsAlone(r)
    BY <1>1, <1>2, <1>4, OverBegins DEF At
  <1>6. \A d \in Defaults(c) : resume[d].owner = c
    BY DEF Defaults, Owned
  <1>7. KnowsOwners(r)'
    BY <1>3, <1>4, <1>6 DEF KnowsOwners, Belongs, Choosing, Removing, Deletion
  <1>8. c \notin raced => IF Owned(c) = {} THEN Defaults(c) = {} ELSE \E f \in Files : Defaults(c) = {f}
    BY DEF DInv, OneDefault
  <1>9. Owned(c)' = Owned(c) /\ Defaults(c)' = Defaults(c)
    BY <1>3 DEF Owned, Defaults
  <1>10. c \notin raced => IF req'[r].other = None THEN Owned(c) = {} ELSE Defaults(c) = {req'[r].other}
    BY <1>4, <1>8
  <1>11. KnowsDefault(r)'
    BY <1>3, <1>4, <1>9, <1>10 DEF KnowsDefault, Choosing, Deletion
  <1>12. QED
    BY <1>3, <1>5, <1>7, <1>11, QuietStep

\* The resume that is inserted is the default of a candidate who had none.
LEMMA InsertKnows ==
  ASSUME TInv, TInv', FInv, DInv, NEW r \in Requests, InsertResume(r)
  PROVE  DInv'
  <1>1. HasLocals(req[r]) /\ req[r] \in Local /\ req[r].at = "insert_resume" /\ ~At(r, "idle")
    BY AtAwait DEF InsertResume, Awaits, Storing
  <1>2. PICK c \in Candidates, f \in Files : c = req[r].owner /\ f = req[r].file
    BY <1>1 DEF HasLocals, Storing, Deletion, Choosing, Removing, RunAwaits, Awaits
  <1>3. Moved(r) /\ req'[r] = Idle /\ UNCHANGED raced
    BY SoloMoves, Returns DEF Solo, UploadStep, InsertResume, Return, history
  <1>4. \A d \in Candidates :
          /\ Owned(d)' = IF d = c THEN Owned(d) \cup {f} ELSE Owned(d)
          /\ Defaults(d)' = IF d = c /\ req[r].other = None THEN Defaults(d) \cup {f} ELSE Defaults(d)
    BY <1>2, InsertDefaults
  <1>5. c \notin raced => IF req[r].other = None THEN Owned(c) = {}
                          ELSE Defaults(c) = {req[r].other} /\ req[r].other \in Files
    <2>1. KnowsDefault(r) /\ req[r].other \in Files \cup {None} /\ c # None
      BY <1>1, ResumeAssumption DEF DInv, Local
    <2>2. QED
      BY <1>1, <1>2, <2>1 DEF KnowsDefault
  <1>6. Defaults(c) \subseteq Owned(c)
    BY DEF Defaults
  <1>7. c \notin raced => OneAt(c)'
    BY <1>2, <1>4, <1>5, <1>6 DEF OneAt
  <1>8. ChangesOwn(r)
    BY <1>1, <1>2, <1>3, <1>4, <1>7 DEF ChangesOwn, Kept
  <1>9. KeepsOwners(r)
    <2>1. \A g \in Files : g # f => resume'[g] = resume[g]
      BY <1>2, InsertDefaults
    <2>2. \A q \in Requests \ {r} : ~At(q, "idle") =>
            /\ req[q].file = f => req[q].key # None
            /\ req[q].other = f => At(q, "proposal_delete")
      BY <1>1, <1>2 DEF FInv, UploadsAreAlone, Uploading, Storing
    <2>3. QED
      BY <2>1, <2>2 DEF KeepsOwners
  <1>10. KnowsOwners(r)' /\ KnowsDefault(r)'
    BY <1>3, ElsewhereKnows, IdleFacts DEF Deciding, Choosing, Removing, Deletion
  <1>11. QED
    BY <1>3, <1>8, <1>9, <1>10, OverBegins, DefaultsStep

\* An upload that fails has nothing to do with the default any more.
LEMMA FailInsertKnows ==
  ASSUME TInv, TInv', DInv, NEW r \in Requests, FailInsert(r)
  PROVE  DInv'
  <1>1. req \in [Requests -> Local] /\ req[r] \in Local /\ ~At(r, "idle")
    BY LocalsOf DEF FailInsert, At
  <1>2. Moved(r) /\ UNCHANGED <<resume, raced>>
    BY SoloMoves DEF Solo, UploadStep, FailInsert, rows, history
  <1>3. /\ req'[r].at = "delete_find" /\ req'[r].then = "idle" /\ req'[r].other = None
        /\ req'[r].owner = req[r].owner
    BY <1>1 DEF FailInsert, Local
  <1>4. KnowsOwners(r)' /\ KnowsDefault(r)'
    BY <1>3 DEF KnowsOwners, KnowsDefault, Choosing, Removing
  <1>5. QED
    BY <1>1, <1>2, <1>3, <1>4, OverBegins, QuietStep

\* The old default and the chosen resume are both of the candidate.
LEMMA ChoosesWell ==
  ASSUME TInv, TInv', DInv, NEW r \in Requests, DefaultUnset(r) \/ DefaultSet(r)
  PROVE  DInv'
  <1>1. /\ HasLocals(req[r]) /\ req[r] \in Local /\ req[r].at \in Choosing /\ ~At(r, "idle")
    BY AtAwait DEF DefaultUnset, DefaultSet, Awaits, Choosing, At
  <1>2. PICK c \in Candidates, f \in Files : c = req[r].owner /\ f = req[r].file
    BY <1>1 DEF HasLocals
  <1>3. Moved(r) /\ UNCHANGED raced
    BY SoloMoves DEF Solo, DefaultStep, DefaultUnset, DefaultSet, history
  <1>4. KnowsOwners(r) /\ KnowsDefault(r) /\ c # None
    BY ResumeAssumption DEF DInv
  <1>5. CASE DefaultUnset(r)
    <2>1. UNCHANGED resume /\ Goto(r, "default_set")
      BY <1>5 DEF DefaultUnset
    <2>2. /\ req'[r].at = "default_set" /\ req'[r].file = f /\ req'[r].owner = c
          /\ req'[r].other = req[r].other
      BY <1>2, <2>1, GotoFields
    <2>3. KnowsOwners(r)'
      BY <1>1, <1>2, <1>3, <1>4, <2>1, <2>2 DEF KnowsOwners, Belongs, Choosing, Removing, Deletion
    <2>4. Owned(c)' = Owned(c) /\ Defaults(c)' = Defaults(c)
      BY <2>1 DEF Owned, Defaults
    <2>5. KnowsDefault(r)'
      BY <1>1, <1>2, <1>3, <1>4, <2>2, <2>4 DEF KnowsDefault, Choosing, Deletion
    <2>6. BeginsAlone(r)
      BY <1>1, <1>2, <2>2, OverBegins
    <2>7. QED
      BY <1>3, <2>1, <2>3, <2>5, <2>6, QuietStep
  <1>6. CASE DefaultSet(r)
    <2>1. req'[r] = Idle
      BY <1>6, Returns DEF DefaultSet, Return
    <2>2. /\ \A g \in Files : resume'[g] # None => resume[g] # None /\ resume'[g].owner = resume[g].owner
          /\ \A d \in Candidates :
               /\ Owned(d)' = Owned(d)
               /\ Defaults(d)' = (Defaults(d) \ {req[r].other}) \cup ({f} \cap Owned(d))
      BY <1>2, <1>6, SetDefaults
    <2>3. \A d \in Candidates : d # c /\ d \notin raced => f \notin Owned(d) /\ req[r].other \notin Owned(d)
      <3>1. ASSUME NEW d \in Candidates, d # c, d \notin raced
            PROVE  f \notin Owned(d) /\ req[r].other \notin Owned(d)
        <4>1. resume[f] # None => resume[f].owner \in {c} \cup raced
          BY <1>1, <1>2, <1>4 DEF KnowsOwners, Belongs
        <4>2. req[r].other # None /\ resume[req[r].other] # None => resume[req[r].other].owner = c
          BY <1>1, <1>2, <1>4 DEF KnowsOwners, Belongs
        <4>3. QED
          BY <3>1, <4>1, <4>2, ResumeAssumption DEF Owned
      <3>2. QED
        BY <3>1
    <2>4. \A d \in Candidates : d # c /\ d \notin raced => Kept(d)
      BY <2>2, <2>3 DEF Kept, Defaults
    <2>5. c \notin raced => OneAt(c)'
      <3>1. c \notin raced => /\ f \in Owned(c)
                              /\ IF req[r].other = None THEN Defaults(c) = {}
                                 ELSE Defaults(c) = {req[r].other}
        BY <1>1, <1>2, <1>4 DEF KnowsDefault
      <3>2. QED
        BY <1>2, <2>2, <3>1 DEF OneAt
    <2>6. ChangesOwn(r)
      BY <1>1, <1>2, <1>3, <2>4, <2>5 DEF ChangesOwn
    <2>7. KeepsOwners(r)
      BY <2>2 DEF KeepsOwners
    <2>8. KnowsOwners(r)' /\ KnowsDefault(r)'
      BY <2>1, ElsewhereKnows, IdleFacts DEF Deciding, Choosing, Removing, Deletion
    <2>9. QED
      BY <1>3, <2>1, <2>6, <2>7, <2>8, OverBegins, DefaultsStep
  <1>7. QED
    BY <1>5, <1>6

\* deleteResume has found another resume of the candidate, or that there is none.
LEMMA NextFindKnows ==
  ASSUME TInv, TInv', DInv, NEW r \in Requests, NextFind(r)
  PROVE  DInv'
  <1>1. HasLocals(req[r]) /\ req[r] \in Local /\ req[r].at = "next_find" /\ req \in [Requests -> Local]
    BY AtAwait DEF NextFind, Awaits, Removing
  <1>2. PICK c \in Candidates, f \in Files : c = req[r].owner /\ f = req[r].file
    BY <1>1 DEF HasLocals, Storing, Deletion, Choosing, Removing, RunAwaits, Awaits
  <1>3. Moved(r) /\ UNCHANGED <<resume, raced>>
    BY SoloMoves DEF Solo, DefaultStep, NextFind, rows, history
  <1>4. KnowsOwners(r) /\ KnowsDefault(r) /\ req[r].then = "delete_row" /\ c # None
    BY <1>1, ResumeAssumption DEF DInv, HasLocals, Removing
  <1>5. c \notin raced => Defaults(c) = {f} /\ req[r].other = None
    BY <1>1, <1>2, <1>4 DEF KnowsDefault
  <1>6. Belongs(f, {c})
    BY <1>1, <1>2, <1>4 DEF KnowsOwners, Removing
  <1>7. /\ req'[r].file = f /\ req'[r].owner = c /\ req'[r].then = "delete_row"
        /\ \/ req'[r].at = "next_set" /\ req'[r].other \in Owned(c) \ {f}
           \/ req'[r].at = "delete_find" /\ req'[r].other = req[r].other /\ Owned(c) \subseteq {f}
    <2>1. CASE Owned(c) \subseteq {f} /\ Goto(r, "delete_find")
      BY <1>2, <1>4, <2>1, GotoFields
    <2>2. CASE \E g \in Owned(c) \ {f} : req' = [req EXCEPT ![r].at = "next_set", ![r].other = g]
      BY <1>1, <1>2, <1>4, <2>2 DEF Local
    <2>3. QED
      BY <1>2, <2>1, <2>2 DEF NextFind
  <1>8. BeginsAlone(r)
    BY <1>1, <1>2, <1>7, OverBegins DEF At
  <1>9. \A g \in Owned(c) : resume[g].owner = c
    BY DEF Owned
  <1>10. req[r].other # None => Belongs(req[r].other, {c})
    BY <1>1, <1>2, <1>4 DEF KnowsOwners, Removing
  <1>11. KnowsOwners(r)'
    BY <1>3, <1>6, <1>7, <1>9, <1>10 DEF KnowsOwners, Belongs, Choosing, Removing, Deletion
  <1>12. Owned(c)' = Owned(c) /\ Defaults(c)' = Defaults(c) /\ Defaults(c) \subseteq Owned(c)
    BY <1>3 DEF Owned, Defaults
  <1>13. c \notin raced =>
           /\ f \in Owned(c) /\ Defaults(c) = {f}
           /\ req'[r].other = None => Owned(c) = {f}
           /\ req'[r].other # None => req'[r].other \in Owned(c) /\ req'[r].other # f
    <2>1. \A g \in Owned(c) : g # None
      BY ResumeAssumption DEF Owned
    <2>2. QED
      BY <1>5, <1>7, <1>12, <2>1
  <1>14. KnowsDefault(r)'
    BY <1>3, <1>7, <1>12, <1>13 DEF KnowsDefault, Choosing, Deletion
  <1>15. QED
    BY <1>3, <1>8, <1>11, <1>14, QuietStep

\* A request that deletes goes on with what it knows.
LEMMA DeletionGoesOn ==
  ASSUME TInv, TInv', DInv, NEW r \in Requests, Moved(r), UNCHANGED <<resume, raced>>,
         req[r].at \in Deletion \cup {"next_set"},
         NEW label \in Deletion \cup {"idle", "delete_row"}, Goto(r, label),
         label \in {"idle", "delete_row"} => label = req[r].then
  PROVE  DInv'
  <1>1. HasLocals(req[r]) /\ req[r] \in Local /\ ~At(r, "idle")
    BY LocalsOf DEF At, Deletion, Idle
  <1>2. KnowsOwners(r) /\ KnowsDefault(r)
    BY DEF DInv
  <1>3. CASE label = "idle"
    <2>1. req'[r] = Idle
      BY <1>3, Returns
    <2>2. KnowsOwners(r)' /\ KnowsDefault(r)'
      BY <2>1, ElsewhereKnows, IdleFacts DEF Deciding, Choosing, Removing, Deletion
    <2>3. QED
      BY <2>1, <2>2, OverBegins, QuietStep
  <1>4. CASE label # "idle"
    <2>1. /\ req'[r].at = label /\ req'[r].file = req[r].file /\ req'[r].then = req[r].then
          /\ req'[r].owner = req[r].owner /\ req'[r].other = req[r].other
      BY <1>4, GotoFields
    <2>2. /\ req[r].at = "next_set" => req[r].then = "delete_row"
          /\ req[r].at \in Deletion => req[r].then \in {"idle", "delete_row"}
          /\ req[r].at \in Deletion /\ req[r].then = "idle" => req[r].other = None
      BY <1>1 DEF HasLocals, Removing
    <2>3. req[r].at \in Removing \cup Deletion /\ label \in Removing \cup Deletion
          /\ label \notin {"insert_resume", "next_find", "next_set"} \cup Choosing
          /\ req[r].at \notin Choosing
      BY <1>4 DEF Removing, Deletion, Choosing
    <2>4. /\ req[r].then = "delete_row" => Belongs(req[r].file, {req[r].owner})
          /\ req[r].other # None => Belongs(req[r].other, {req[r].owner})
      BY <1>2, <2>3 DEF KnowsOwners
    <2>5. KnowsOwners(r)'
      BY <2>1, <2>3, <2>4 DEF KnowsOwners, Belongs
    <2>6. \A c \in Candidates : Owned(c)' = Owned(c) /\ Defaults(c)' = Defaults(c)
      BY DEF Owned, Defaults
    <2>7. req[r].owner # None => req[r].owner \in Candidates
      BY <1>1 DEF Local
    <2>8. label \in Deletion \cup {"delete_row"}
      BY <1>4
    <2>9. KnowsDefault(r)'
      <3>1. SUFFICES ASSUME req[r].owner # None, req[r].owner \notin raced, req[r].then = "delete_row"
                     PROVE  /\ req[r].file \in Owned(req[r].owner)
                            /\ IF req[r].other = None
                               THEN Defaults(req[r].owner) = {req[r].file} => Owned(req[r].owner) = {req[r].file}
                               ELSE /\ Defaults(req[r].owner) = {req[r].file}
                                    /\ req[r].other \in Owned(req[r].owner) /\ req[r].other # req[r].file
        BY <2>1, <2>3, <2>6, <2>7, <2>8 DEF KnowsDefault
      <3>2. req[r].at = "next_set" \/ req[r].at \in Deletion \cup {"delete_row"}
        OBVIOUS
      <3>3. QED
        BY <1>2, <3>1, <3>2 DEF KnowsDefault
    <2>10. BeginsAlone(r)
      BY <1>1, <2>1, OverBegins
    <2>11. QED
      BY <2>5, <2>9, <2>10, QuietStep
  <1>5. QED
    BY <1>3, <1>4

\* The steps of StoredFiles.
LEMMA StorageKnowsDefaults ==
  ASSUME TInv, TInv', DInv, NEW r \in Requests, StorageStep(r), UNCHANGED <<rows, history>>
  PROVE  DInv'
  <1>1. Moved(r) /\ UNCHANGED <<resume, raced>>
    BY StorageMoves DEF rows, history
  <1>2. ASSUME NEW label \in {"insert_record", "default_find"}, req'[r].at = label,
               req'[r].owner = req[r].owner, ~At(r, "idle")
        PROVE  DInv'
    <2>1. KnowsOwners(r)' /\ KnowsDefault(r)'
      BY <1>2, ElsewhereKnows DEF Deciding, Choosing, Removing, Deletion
    <2>2. QED
      BY <1>1, <1>2, <2>1, OverBegins, QuietStep
  <1>3. ASSUME NEW f \in Files, PutObject(r, f)
        PROVE  DInv'
    <2>1. req'[r].at = "insert_record" /\ req'[r].owner = req[r].owner /\ ~At(r, "idle")
      BY <1>3, LocalsOf DEF PutObject, Local, At
    <2>2. QED
      BY <1>2, <2>1
  <1>4. CASE InsertRecord(r)
    <2>1. At(r, "insert_record") /\ HasLocals(req[r])
      BY <1>4, AtAwait DEF InsertRecord, Awaits, Storing
    <2>2. req[r].then = "default_find"
      BY <2>1 DEF HasLocals, At
    <2>3. Goto(r, "default_find") /\ ~At(r, "idle")
      BY <1>4, <2>1, <2>2 DEF InsertRecord, At
    <2>4. QED
      BY <1>2, <2>3, GotoFields
  <1>5. ASSUME req[r].at \in Deletion, NEW label \in Deletion, Goto(r, label) \/ Goto(r, req[r].then)
        PROVE  DInv'
    <2>1. req[r].then \in {"idle", "delete_row"}
      BY <1>5, LocalsOf DEF At, HasLocals, Deletion, Idle
    <2>2. QED
      BY <1>1, <1>5, <2>1, DeletionGoesOn DEF Deletion
  <1>6. CASE DeleteFind(r) \/ DeleteObject(r) \/ DeleteSave(r) \/ DeleteRemove(r)
    <2>1. /\ req[r].at \in Deletion
          /\ \E label \in Deletion : Goto(r, label) \/ Goto(r, req[r].then)
      BY <1>6 DEF DeleteFind, DeleteObject, DeleteSave, DeleteRemove, At, Deletion
    <2>2. QED
      BY <1>5, <2>1
  <1>7. QED
    BY <1>3, <1>4, <1>6 DEF StorageStep

\* The resume that is deleted was not the default, or the last one, or another becomes the default.
LEMMA DeleteRowKnows ==
  ASSUME TInv, TInv', DInv, NEW r \in Requests, DeleteRow(r)
  PROVE  DInv'
  <1>1. HasLocals(req[r]) /\ req[r] \in Local /\ req[r].at = "delete_row" /\ ~At(r, "idle")
    BY AtAwait DEF DeleteRow, Awaits, Removing
  <1>2. PICK c \in Candidates, f \in Files : c = req[r].owner /\ f = req[r].file
    BY <1>1 DEF HasLocals, Storing, Deletion, Choosing, Removing, RunAwaits, Awaits
  <1>3. Moved(r) /\ req'[r] = Idle /\ UNCHANGED raced
    BY SoloMoves, Returns DEF Solo, DefaultStep, DeleteRow, Return, history
  <1>4. KnowsOwners(r) /\ KnowsDefault(r) /\ req[r].then = "delete_row" /\ c # None
    BY <1>1, ResumeAssumption DEF DInv, HasLocals, Removing
  <1>5. /\ \A g \in Files : resume'[g] # None => resume[g] # None /\ resume'[g].owner = resume[g].owner
        /\ \A d \in Candidates :
             /\ Owned(d)' = Owned(d) \ {f}
             /\ Defaults(d)' = (Defaults(d) \cup ({req[r].other} \cap Owned(d))) \ {f}
    BY <1>2, DeleteDefaults
  <1>6. ASSUME NEW d \in Candidates, d # c
        PROVE  f \notin Owned(d) /\ req[r].other \notin Owned(d)
    <2>1. resume[f] # None => resume[f].owner = c
      BY <1>1, <1>2, <1>4 DEF KnowsOwners, Belongs, Removing
    <2>2. req[r].other # None /\ resume[req[r].other] # None => resume[req[r].other].owner = c
      BY <1>1, <1>2, <1>4 DEF KnowsOwners, Belongs, Removing
    <2>3. QED
      BY <1>6, <2>1, <2>2, ResumeAssumption DEF Owned
  <1>7. ASSUME NEW d \in Candidates, d # c
        PROVE  Kept(d)
    <2>1. Defaults(d) \subseteq Owned(d) /\ f \notin Owned(d) /\ req[r].other \notin Owned(d)
      BY <1>6, <1>7 DEF Defaults
    <2>2. Owned(d)' = Owned(d) \ {f}
      BY <1>5
    <2>3. Owned(d)' = Owned(d)
      BY <2>1, <2>2
    <2>4. Defaults(d)' = (Defaults(d) \cup ({req[r].other} \cap Owned(d))) \ {f}
      BY <1>5
    <2>5. Defaults(d)' = Defaults(d)
      BY <2>1, <2>4
    <2>6. QED
      BY <2>3, <2>5 DEF Kept
  <1>8. c \notin raced => OneAt(c)'
    <2>1. c \notin raced => /\ f \in Owned(c)
                            /\ IF req[r].other = None THEN Defaults(c) = {f} => Owned(c) = {f}
                               ELSE Defaults(c) = {f} /\ req[r].other \in Owned(c) /\ req[r].other # f
      BY <1>1, <1>2, <1>4 DEF KnowsDefault
    <2>2. c \notin raced /\ f \in Owned(c) => \E g \in Files : Defaults(c) = {g}
      BY DEF DInv, OneDefault
    <2>3. Defaults(c) \subseteq Owned(c) /\ \A g \in Owned(c) : g \in Files /\ g # None
      BY ResumeAssumption DEF Defaults, Owned
    <2>4. CASE req[r].other = None
      <3>1. Defaults(c)' = Defaults(c) \ {f} /\ Owned(c)' = Owned(c) \ {f}
        BY <1>5, <2>3, <2>4
      <3>2. QED
        BY <2>1, <2>2, <2>3, <2>4, <3>1 DEF OneAt
    <2>5. CASE req[r].other # None
      <3>1. c \notin raced => Defaults(c)' = {req[r].other} /\ Owned(c)' # {} /\ req[r].other \in Files
        BY <1>5, <2>1, <2>3, <2>5
      <3>2. QED
        BY <3>1 DEF OneAt
    <2>6. QED
      BY <2>4, <2>5
  <1>9. ChangesOwn(r)
    BY <1>1, <1>2, <1>3, <1>7, <1>8 DEF ChangesOwn
  <1>10. KeepsOwners(r)
    BY <1>5 DEF KeepsOwners
  <1>11. KnowsOwners(r)' /\ KnowsDefault(r)'
    BY <1>3, ElsewhereKnows, IdleFacts DEF Deciding, Choosing, Removing, Deletion
  <1>12. QED
    BY <1>3, <1>9, <1>10, <1>11, OverBegins, DefaultsStep

\* Runs and requests that are cut off change no default.
LEMMA OthersKnowDefaults ==
  ASSUME TInv, TInv', DInv, NEW r \in Requests, RunStep(r) \/ Fail(r) \/ Crash(r)
  PROVE  DInv'
  <1>1. Moved(r)
    BY SoloMoves DEF Solo
  <1>2. UNCHANGED raced
    BY DEF RunStep, Download, StatusUpdate, Audit, Ask, Propose, KeyDel, FailRun, Fail, Crash, history
  <1>3. req'[r] = Idle \/ req'[r].at \in RunAwaits
    <2>1. CASE Fail(r) \/ Crash(r)
      BY <2>1, Returns DEF Fail, Crash, Return
    <2>2. CASE RunStep(r)
      <3>1. CASE RunIsOver(r)
        BY <3>1 DEF RunIsOver
      <3>2. CASE RunGoesOn(r)
        <4>1. req[r].key \in Keys
          BY <2>2, LocalsOf DEF RunStep, Download, StatusUpdate, Audit, Ask, Propose, KeyDel, FailRun,
            At, HasLocals, RunAwaits, Idle
        <4>2. req'[r].key # None /\ req'[r].at # "idle"
          BY <3>2, <4>1, ResumeAssumption DEF RunGoesOn
        <4>3. QED
          BY <1>1, <4>2 DEF Moved, HasLocals
      <3>3. QED
        BY <2>2, <3>1, <3>2, RunSteps
    <2>3. QED
      BY <2>1, <2>2
  <1>4. req'[r].at \notin Deciding /\ (req'[r] = Idle \/ req'[r].owner = None)
    BY <1>1, <1>3, IdleFacts DEF Deciding, Choosing, Removing, Deletion, RunAwaits, Moved, HasLocals
  <1>5. KnowsOwners(r)' /\ KnowsDefault(r)' /\ BeginsAlone(r)
    BY <1>4, ElsewhereKnows, OverBegins
  <1>6. CASE StatusUpdate(r)
    <2>1. PICK f \in Files, status \in Statuses :
            resume[f] # None /\ resume' = [resume EXCEPT ![f].status = Shown(status)]
      BY <1>6, AtAwait DEF StatusUpdate, At, HasLocals, Storing, Deletion, Choosing, Removing, RunAwaits, Awaits, Statuses
    <2>2. ChangesOwn(r) /\ KeepsOwners(r)
      BY <2>1, StatusDefaults DEF ChangesOwn, KeepsOwners
    <2>3. QED
      BY <1>1, <1>2, <1>5, <2>2, DefaultsStep
  <1>7. CASE ~StatusUpdate(r)
    <2>1. UNCHANGED resume
      BY <1>7 DEF RunStep, Download, Audit, Ask, Propose, KeyDel, FailRun, Fail, Crash, rows
    <2>2. QED
      BY <1>1, <1>2, <1>5, <2>1, QuietStep
  <1>8. QED
    BY <1>6, <1>7

\* The steps that are of no candidate's request leave what the others know.
LEMMA DefaultsStay ==
  ASSUME TInv, DInv, UNCHANGED raced,
         \A q \in Requests : \/ req'[q] = req[q]
                             \/ req'[q] = Idle /\ At(q, "proposal_delete"),
         \A c \in Candidates : Kept(c),
         \A f \in Files : resume'[f] # None => resume[f] # None /\ resume'[f].owner = resume[f].owner
  PROVE  DInv'
  <1>1. \A q \in Requests : req'[q] = req[q] \/ req'[q].at = "idle"
    BY IdleFacts
  <1>2. OneDefault'
    BY DEF DInv, OneDefault, Kept
  <1>3. \A c \in Candidates : Changing(c)' \subseteq Changing(c)
    BY <1>1 DEF Changing, At
  <1>4. ChangesAreAlone'
    BY <1>3 DEF DInv, ChangesAreAlone
  <1>5. ASSUME NEW q \in Requests
        PROVE  KnowsOwners(q)' /\ KnowsDefault(q)'
    <2>1. CASE req'[q].at = "idle"
      BY <2>1, ElsewhereKnows DEF Deciding, Choosing, Removing, Deletion
    <2>2. CASE req'[q] = req[q] /\ ~At(q, "idle")
      <3>1. KnowsOwners(q) /\ KnowsDefault(q) /\ req[q] \in Local /\ HasLocals(req[q])
        BY <2>2, LocalsOf DEF DInv
      <3>2. \A f \in Files : \A owners : Belongs(f, owners) =>
              (resume'[f] # None => resume'[f].owner \in owners)
        BY DEF Belongs
      <3>3. /\ req[q].at \in Choosing \cup Removing \cup Deletion => req[q].file \in Files
            /\ req[q].other # None => req[q].other \in Files
        BY <3>1 DEF Local, HasLocals, Storing, Deletion, Choosing, Removing, RunAwaits, Awaits
      <3>4. /\ req[q].at \in Choosing => Belongs(req[q].file, {req[q].owner} \cup raced)
            /\ req[q].at \in Removing \cup Deletion /\ req[q].then = "delete_row" =>
                 Belongs(req[q].file, {req[q].owner})
            /\ req[q].at \in {"insert_resume"} \cup Choosing \cup Removing \cup Deletion
                 /\ req[q].other # None => Belongs(req[q].other, {req[q].owner})
        BY <3>1 DEF KnowsOwners
      <3>5. /\ req[q].at \in Choosing =>
                 (resume'[req[q].file] # None => resume'[req[q].file].owner \in {req[q].owner} \cup raced)
            /\ req[q].at \in Removing \cup Deletion /\ req[q].then = "delete_row" =>
                 (resume'[req[q].file] # None => resume'[req[q].file].owner \in {req[q].owner})
            /\ req[q].at \in {"insert_resume"} \cup Choosing \cup Removing \cup Deletion
                 /\ req[q].other # None =>
                 (resume'[req[q].other] # None => resume'[req[q].other].owner \in {req[q].owner})
        BY <3>2, <3>3, <3>4
      <3>6. KnowsOwners(q)'
        BY <2>2, <3>5 DEF KnowsOwners, Belongs
      <3>7. req[q].owner # None => Kept(req[q].owner)
        BY <3>1 DEF Local
      <3>8. KnowsDefault(q)'
        BY <2>2, <3>1, <3>7 DEF KnowsDefault, Kept
      <3>9. QED
        BY <3>6, <3>8
    <2>3. QED
      BY <1>1, <2>1, <2>2 DEF At
  <1>6. QED
    BY <1>2, <1>4, <1>5 DEF DInv

\* A candidate whose requests do not interfere has one default, or no resume.
LEMMA DefaultsInductive ==
  ASSUME TInv, TInv', FInv, DInv, [Next]_vars
  PROVE  DInv'
  <1>1. ASSUME NEW r \in Requests, Solo(r)
        PROVE  DInv'
    <2>1. CASE ResumeRoutes(r) \/ SuggestionRoute(r)
               \/ \E f \in Files : FilesDelete(r, f) \/ \E k \in Keys : Extract(r, f, k)
      BY <2>1, RoutesKnowDefaults
    <2>2. CASE UploadStep(r)
      BY <2>2, DefaultFindKnows, InsertKnows, FailInsertKnows DEF UploadStep
    <2>3. CASE NextSet(r)
      <3>1. UNCHANGED <<resume, raced>> /\ req[r].at = "next_set" /\ Goto(r, "delete_find")
        BY <2>3 DEF NextSet, history, At
      <3>2. Moved(r)
        BY <1>1, SoloMoves
      <3>3. QED
        BY <3>1, <3>2, DeletionGoesOn DEF Deletion
    <2>4. CASE DefaultStep(r)
      BY <2>3, <2>4, ChoosesWell, NextFindKnows, DeleteRowKnows DEF DefaultStep
    <2>5. CASE RunStep(r) \/ Fail(r) \/ Crash(r)
      BY <2>5, OthersKnowDefaults
    <2>6. CASE StorageStep(r) /\ UNCHANGED <<rows, held, history, proposals>>
      BY <2>6, StorageKnowsDefaults
    <2>7. QED
      BY <1>1, <2>1, <2>2, <2>4, <2>5, <2>6 DEF Solo
  <1>2. ASSUME NEW r \in Requests, ProposalDelete(r)
        PROVE  DInv'
    <2>1. UNCHANGED <<resume, raced>>
      BY <1>2 DEF ProposalDelete, rows, history
    <2>2. \A c \in Candidates : Kept(c)
      BY <2>1 DEF Kept, Owned, Defaults
    <2>3. QED
      BY <1>2, <2>1, <2>2, DismissalMoves, DefaultsStay
  <1>3. ASSUME UNCHANGED <<resume, raced, req>>
        PROVE  DInv'
    <2>1. \A c \in Candidates : Kept(c)
      BY <1>3 DEF Kept, Owned, Defaults
    <2>2. QED
      BY <1>3, <2>1, DefaultsStay
  <1>4. Expire => UNCHANGED <<resume, raced, req>>
    BY DEF Expire, rows
  <1>5. ASSUME NEW f \in Files, NEW status \in Statuses, ServiceStatus(f, status)
        PROVE  DInv'
    BY <1>5, StatusDefaults, DefaultsStay DEF ServiceStatus
  <1>6. CASE Next
    BY <1>1, <1>2, <1>3, <1>4, <1>5, <1>6, StepCases
  <1>7. CASE UNCHANGED vars
    BY <1>3, <1>7 DEF vars, rows, history
  <1>8. QED
    BY <1>6, <1>7

\* A candidate who has resumes has one default, as long as the candidate's requests do not
\* overlap and setDefault is given the candidate's own resumes: at every step of uploading,
\* setDefault and deleteResume, and wherever they fail or die.
THEOREM CandidatesHaveOneDefault == Spec => []OneDefault
  <1>1. Init => DInv
    BY IdleFacts DEF Init, DInv, OneDefault, ChangesAreAlone, KnowsOwners, KnowsDefault, Owned, Defaults,
      Changing, At, Choosing, Removing, Deletion
  <1>2. TInv /\ TInv' /\ FInv /\ DInv /\ [Next]_vars => DInv'
    BY DefaultsInductive
  <1>3. DInv => OneDefault
    BY DEF DInv
  <1>4. QED
    BY <1>1, <1>2, <1>3, TypesAndLocals, FilesInvariant, PTL DEF Spec

=============================================================================
