--------------------------- MODULE ProfilePictures ---------------------------
(***************************************************************************)
(* Pictures that rows show: the thumbnail of a portfolio item, the avatar  *)
(* of a candidate and the logo of a company.  PortfolioService,            *)
(* updateCandidateProfile and updateBranding write the row, the new file   *)
(* and the file it replaces in three different orders, while the worker of *)
(* image.compress reads and writes the same files (StoredFiles).  A cover  *)
(* image is a second logo and is left out.                                 *)
(***************************************************************************)
EXTENDS StoredFiles

CONSTANTS Portfolios, Avatars, Logos   \* the rows: portfolio items, users and companies

Pictured == Portfolios \cup Avatars \cup Logos

VARIABLES
  picture,     \* [Pictured -> the file a row shows, None, or that there is no such row]
  reverted,    \* history: rows to which a save has written back a picture that had been changed
  lost,        \* history: avatars whose update has failed after the previous one was deleted
  pasted,      \* history: files whose URL a company was given as its logo, by hand
  left,        \* history: files dropped by a request that failed, or that had read another one
  deleted,     \* history: files whose deletion is complete
  crossed      \* history: files that were deleted while a worker was compressing them

pictureHistory == <<reverted, lost, pasted, left, deleted, crossed>>
pictureVars    == <<object, record, req, picture, pictureHistory>>

NoRow == {"not yet", "removed"}

ASSUME PicturesAssumption ==
  /\ None \notin Files \cup Requests \cup Pictured
  /\ NoRow \cap (Files \cup {None}) = {}
  /\ Portfolios \cap (Avatars \cup Logos) = {} /\ Avatars \cap Logos = {}

\* other: the picture to be deleted, or for an avatar, once that is under way, the new one.
PictureLocal ==
  [at: {"idle", "row_save", "row_delete", "avatar_previous", "avatar_set"} \cup StorageAwaits,
   file: Files \cup {None}, row: Pictured \cup {None}, other: Files \cup {None},
   then: {"idle", "row_save", "avatar_previous", "avatar_set"}]

PictureIdle == [at |-> "idle", file |-> None, row |-> None, other |-> None, then |-> "idle"]

\* locals: those of the requests of this module, and of others that store files.
PicturesTypeOK(locals) ==
  /\ object \in SUBSET Files
  /\ record \in [Files -> Records]
  /\ picture \in [Pictured -> Files \cup {None} \cup NoRow]
  /\ \A x \in Pictured : x \notin Portfolios => picture[x] \in Files \cup {None}
  /\ reverted \in SUBSET Pictured /\ lost \in SUBSET Avatars /\ pasted \in SUBSET Files
  /\ left \in SUBSET Files /\ deleted \in SUBSET Files /\ crossed \in SUBSET Files
  /\ req \in [Requests -> locals]

\* Users and companies are there, without a picture; portfolio items are not.
PicturesInit ==
  /\ object = {}
  /\ record = [f \in Files |-> None]
  /\ picture = [x \in Pictured |-> IF x \in Portfolios THEN "not yet" ELSE None]
  /\ reverted = {} /\ lost = {} /\ pasted = {} /\ left = {} /\ deleted = {} /\ crossed = {}
  /\ req = [r \in Requests |-> PictureIdle]

----------------------------------------------------------------------------
(* Helpers *)

AtOne(r, labels) == req[r].at \in labels
Working(x) == {r \in Requests : req[r].row = x}

Start(r, local) == At(r, "idle") /\ req' = [req EXCEPT ![r] = local]

\* A request that reads row x to write it later.
StartOn(r, x, local) ==
  /\ Start(r, [local EXCEPT !.row = x])
  /\ UNCHANGED <<object, record, picture, pictureHistory>>

\* Workers that have found the row of f.
Compressing(f) ==
  {r \in Requests : req[r].file = f
                    /\ AtOne(r, {"compress_get", "compress_put", "compress_save", "compress_failed"})}

\* A save that brings no new picture writes back the one it has read, over another one.
Reverts(r) == req[r].then # "row_save" /\ picture[req[r].row] # req[r].file

\* The file a row shows although request r, which now writes the row, has read another one.
Missed(r) == {f \in Files \ {req[r].file, req[r].other} : picture[req[r].row] = f}

\* The deletions that the services await without their errors.
Deletion == {"url_object", "url_find", "delete_save", "delete_remove"}

----------------------------------------------------------------------------
(* Portfolio items and logos *)

\* create stores the thumbnail before it inserts the row, whose id is new.
CreatePortfolio(r, x) ==
  /\ x \in Portfolios /\ picture[x] = "not yet" /\ Working(x) = {}
  /\ StartOn(r, x, [PictureIdle EXCEPT !.at = "put_object", !.then = "row_save"])

\* update and updateBranding read the row, and store the new picture ...
Replace(r, x) ==
  /\ x \in Portfolios \cup Logos /\ picture[x] \notin NoRow
  /\ StartOn(r, x, [PictureIdle EXCEPT !.at = "put_object", !.then = "row_save",
                                       !.other = picture[x]])

\* ... or change only the text of an item or the cover of a company ...
EditOther(r, x) ==
  /\ x \in Portfolios \cup Logos /\ picture[x] \notin NoRow
  /\ StartOn(r, x, [PictureIdle EXCEPT !.at = "row_save", !.file = picture[x]])

\* An update that deletes the picture it has just stored.
RowSaveDeleteNew(r) ==
  /\ At(r, "row_save")
  /\ picture' = [picture EXCEPT ![req[r].row] = req[r].file]
  /\ IF req[r].other = None THEN Goto(r, "idle")
     ELSE req' = [req EXCEPT ![r] = [@ EXCEPT !.at = "url_object", !.then = "idle"]]
  /\ left' = left \cup Missed(r)
  /\ reverted' = IF req[r].then = "row_save" THEN reverted \ {req[r].row}
                 ELSE reverted \cup {x \in {req[r].row} : Reverts(r)}
  /\ UNCHANGED <<object, record, lost, pasted, deleted, crossed>>

\* ... then save the whole row as it was read, inserting it if it is gone, and delete the
\* picture that was in it.
RowSave(r) ==
  /\ At(r, "row_save")
  /\ picture' = [picture EXCEPT ![req[r].row] = req[r].file]
  /\ IF req[r].other = None THEN Goto(r, "idle")
     ELSE req' = [req EXCEPT ![r] = [@ EXCEPT !.at = "url_object", !.file = req[r].other,
                                              !.other = None, !.then = "idle"]]
  /\ left' = left \cup Missed(r)
  /\ reverted' = IF req[r].then = "row_save" THEN reverted \ {req[r].row}
                 ELSE reverted \cup {x \in {req[r].row} : Reverts(r)}
  /\ UNCHANGED <<object, record, lost, pasted, deleted, crossed>>

\* remove reads the row, deletes it ...
RemovePortfolio(r, x) ==
  /\ x \in Portfolios /\ picture[x] \notin NoRow
  /\ StartOn(r, x, [PictureIdle EXCEPT !.at = "row_delete", !.file = picture[x]])

\* ... and then does nothing.
RowDeleteOnly(r) ==
  /\ At(r, "row_delete")
  /\ picture' = [picture EXCEPT ![req[r].row] = "removed"]
  /\ Goto(r, "idle")
  /\ left' = left \cup Missed(r)
  /\ UNCHANGED <<object, record, reverted, lost, pasted, deleted, crossed>>

\* ... and then its thumbnail.
RowDelete(r) ==
  /\ At(r, "row_delete")
  /\ picture' = [picture EXCEPT ![req[r].row] = "removed"]
  /\ Goto(r, "url_object")
  /\ left' = left \cup Missed(r)
  /\ UNCHANGED <<object, record, reverted, lost, pasted, deleted, crossed>>

----------------------------------------------------------------------------
(* Avatars *)

\* updateCandidateProfile reads the user and stores the new avatar ...
ReplaceAvatar(r, x) ==
  /\ x \in Avatars
  /\ StartOn(r, x, [PictureIdle EXCEPT !.at = "put_object", !.other = picture[x],
                      !.then = IF picture[x] = None THEN "avatar_set" ELSE "avatar_previous"])

\* The new avatar in place of the one to be deleted.
Swapped(r, label) ==
  req' = [req EXCEPT ![r] = [@ EXCEPT !.at = label, !.then = "avatar_set",
                                      !.file = req[r].other, !.other = req[r].file]]

\* ... deletes the previous one, as deleteByUrl does ...
AvatarPrevious(r) ==
  /\ At(r, "avatar_previous")
  /\ object' = WithoutUrl(req[r].other)
  /\ Swapped(r, "url_find")
  /\ UNCHANGED <<record, picture, reverted, lost, pasted, left, deleted>>
  /\ crossed' = crossed \cup {f \in {req[r].other} : Compressing(f) # {}}

\* ... and updates the user in a transaction, which checks the other fields first.
AvatarSet(r) ==
  LET new == IF req[r].other = None THEN req[r].file ELSE req[r].other IN
  /\ At(r, "avatar_set")
  /\ picture' = [picture EXCEPT ![req[r].row] = new]
  /\ lost' = lost \ {req[r].row}
  /\ Goto(r, "idle")
  /\ left' = left \cup Missed(r)
  /\ UNCHANGED <<object, record, reverted, pasted, deleted, crossed>>

\* CompaniesService.update writes the logo of the request, any string: nothing or an address
\* elsewhere, or the URL a file was given when it was stored, whatever shows it and whether or
\* not it is still there.
SetLogo(x, f) ==
  /\ f # None => record[f] # None
  /\ picture' = [picture EXCEPT ![x] = f]
  /\ left' = left \cup {g \in Files \ {f} : picture[x] = g}
  /\ pasted' = pasted \cup ({f} \ {None, picture[x]})
  /\ UNCHANGED <<object, record, req, reverted, lost, deleted, crossed>>

----------------------------------------------------------------------------
(* Files *)

\* The worker gets a message, for the first time or again, about a file that was stored.
Compress(r, f) ==
  /\ record[f] # None
  /\ Start(r, [PictureIdle EXCEPT !.at = "compress_find", !.file = f])
  /\ UNCHANGED <<object, record, picture, pictureHistory>>

\* A step of StoredFiles: which deletions are complete, and which have met a worker.
FileStep(r) ==
  LET f == req[r].file IN
  /\ StorageStep(r) \/ UrlObject(r) \/ UrlFind(r) \/ CompressStep(r)
  /\ deleted' = CASE At(r, "delete_remove") -> deleted \cup {f}
                  [] At(r, "delete_save")   -> deleted \ {f}
                  [] OTHER                  -> deleted
  /\ crossed' = IF AtOne(r, Deletion) /\ Compressing(f) # {} THEN crossed \cup {f} ELSE crossed
  /\ UNCHANGED <<picture, reverted, lost, pasted, left>>

----------------------------------------------------------------------------
(* Failures *)

\* The files r would leave in the bucket if it ended here: a new one it has not shown, and one
\* that is no longer shown and that it has not deleted.
Leaves(r) ==
  CASE AtOne(r, {"insert_record"}) -> {req[r].file}
    [] AtOne(r, {"row_save"})      -> {f \in {req[r].file} : req[r].then = "row_save"}
    [] AtOne(r, {"avatar_previous", "avatar_set"} \cup Deletion) ->
         {req[r].file, req[r].other} \ {None}
    [] OTHER -> {}

\* The avatar of the user r is at work on, if the previous one has been deleted.
Loses(r) == {x \in Avatars : /\ req[r].row = x /\ req[r].other # None
                             /\ picture[x] = req[r].file
                             /\ At(r, "avatar_set") \/ (AtOne(r, Deletion) /\ req[r].then = "avatar_set")}

\* deleteByUrl throws, and its caller goes on.
FailDeletion(r) ==
  /\ \/ /\ At(r, "avatar_previous") /\ Swapped(r, "avatar_set")
        /\ left' = left \cup {req[r].other}
     \/ /\ AtOne(r, Deletion) /\ Goto(r, req[r].then)
        /\ left' = left \cup {req[r].file}
  /\ UNCHANGED <<object, record, picture, reverted, lost, pasted, deleted, crossed>>

\* A store, a statement or a check throws, and so does the request.
FailRequest(r) ==
  /\ AtOne(r, {"put_object", "insert_record", "row_save", "row_delete", "avatar_set",
             "compress_find", "compress_failed"})
  /\ Goto(r, "idle")
  /\ left' = left \cup Leaves(r)
  /\ lost' = lost \cup Loses(r)
  /\ UNCHANGED <<object, record, picture, reverted, pasted, deleted, crossed>>

\* The process dies.
DieRequest(r) ==
  /\ ~At(r, "idle")
  /\ Goto(r, "idle")
  /\ left' = left \cup Leaves(r)
  /\ lost' = lost \cup Loses(r)
  /\ UNCHANGED <<object, record, picture, reverted, pasted, deleted, crossed>>

----------------------------------------------------------------------------

PortfolioRoutes(r, x) ==
  \/ CreatePortfolio(r, x) \/ RemovePortfolio(r, x)
  \/ x \in Portfolios /\ (Replace(r, x) \/ EditOther(r, x))

BrandingRoute(r, x) == x \in Logos /\ (Replace(r, x) \/ EditOther(r, x))

CompanyRoute(x) == x \in Logos /\ \E f \in Files \cup {None} : SetLogo(x, f)

PictureStep(r) ==
  \/ RowSave(r) \/ RowDelete(r) \/ AvatarPrevious(r) \/ AvatarSet(r)
  \/ \E f \in Files : Compress(r, f)
  \/ FileStep(r) \/ FailDeletion(r) \/ FailRequest(r) \/ DieRequest(r)

----------------------------------------------------------------------------
(* Properties *)

\* The picture a row shows is in the bucket, however many requests replace, edit and remove it at
\* once: three services replace a file in three orders, each deletes only what it has read
\* and written over, and compression never takes an object away.  It may be missing when a save
\* that brought no picture has written back an older one, when a company was given its URL by
\* hand, or for an avatar between the deletion of the previous one and a transaction that may fail.
ShownPicturesExist ==
  \A x \in Pictured \ (reverted \cup lost) :
    picture[x] \in Files \ pasted => picture[x] \in object \/ \E r \in Requests : x \in Loses(r)

Shown(f) == \E x \in Pictured : picture[x] = f

\* A file that has been deleted does not come back, unless a worker was compressing it
\* meanwhile: a message delivered late or again finds nothing to do.  What a URL that is not its
\* key has left of it is the object alone.
DeletedStaysDeleted ==
  \A f \in deleted \ crossed : record[f] = "gone" /\ f \notin object \ Escaped
=============================================================================
