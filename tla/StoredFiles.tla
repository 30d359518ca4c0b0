---------------------------- MODULE StoredFiles ----------------------------
(***************************************************************************)
(* StorageService: a stored file is an object in the bucket and a row of   *)
(* files, written and deleted one after the other.  Its operations are     *)
(* awaited by handlers of other services; here they are steps of a         *)
(* request, which goes on at its label then when the operation is over.    *)
(* The modules that extend this one have those handlers.                   *)
(***************************************************************************)
CONSTANTS Files,     \* object keys, each a uuid and never used twice; also the ids of their rows
          Escaped,   \* the files whose client gave their names an extension that a URL escapes
          Requests,  \* HTTP requests and deliveries in progress, on any server process
          None

ASSUME EscapedAssumption == Escaped \subseteq Files

VARIABLES
  object,  \* the files whose object is in the bucket
  record,  \* [Files -> status of the row of files, "gone" once deleted_at is set, or None]
  req      \* [Requests -> [at, file, then, ...]], the await a request is at and its locals

ASSUME NoneIsNoStatus == None \notin {"active", "failed", "deleted", "gone"}

Records == {None, "active", "failed", "deleted", "gone"}

StorageAwaits == {"put_object", "insert_record", "delete_find", "delete_object", "delete_save",
                  "delete_remove", "url_object", "url_find", "compress_find", "compress_get",
                  "compress_put", "compress_save", "compress_failed"}

At(r, label) == req[r].at = label

\* A request that is over has no locals.
Goto(r, label) ==
  req' = [req EXCEPT ![r] = IF label # "idle" THEN [@ EXCEPT !.at = label]
                            ELSE [k \in DOMAIN @ |-> IF k \in {"at", "then"} THEN "idle" ELSE None]]

\* What a find sees, and what can be downloaded.
Found(f) == record[f] \in {"active", "failed", "deleted"}
Available(f) == f \in object /\ record[f] = "active"

\* upload puts the object under a new key ...
PutObject(r, f) ==
  /\ At(r, "put_object")
  /\ record[f] = None /\ f \notin object
  /\ \A q \in Requests : ~At(q, "idle") => req[q].file # f
  /\ object' = object \cup {f}
  /\ req' = [req EXCEPT ![r].at = "insert_record", ![r].file = f]
  /\ UNCHANGED record

\* ... and then inserts the row.
InsertRecord(r) ==
  /\ At(r, "insert_record")
  /\ record' = [record EXCEPT ![req[r].file] = "active"]
  /\ Goto(r, req[r].then)
  /\ UNCHANGED object

\* deleteFile finds the row, or returns ...
DeleteFind(r) ==
  /\ At(r, "delete_find")
  /\ Goto(r, IF Found(req[r].file) THEN "delete_object" ELSE req[r].then)
  /\ UNCHANGED <<object, record>>

\* ... deletes the object ...
DeleteObject(r) ==
  /\ At(r, "delete_object")
  /\ object' = object \ {req[r].file}
  /\ Goto(r, "delete_save")
  /\ UNCHANGED record

\* deleteByUrl takes the rest of the URL for the key.  getPublicUrl has escaped the key, so that
\* the rest may be the key of no object, which the store deletes without an error.
WithoutUrl(f) == object \ ({f} \ Escaped)

UrlObject(r) ==
  /\ At(r, "url_object")
  /\ object' = WithoutUrl(req[r].file)
  /\ Goto(r, "url_find")
  /\ UNCHANGED record

\* The row, which has the whole URL, is found all the same.
UrlFind(r) ==
  /\ At(r, "url_find")
  /\ Goto(r, IF Found(req[r].file) THEN "delete_save" ELSE req[r].then)
  /\ UNCHANGED <<object, record>>

\* Both save the row they have read with status DELETED, deleted_at written back as null ...
DeleteSave(r) ==
  /\ At(r, "delete_save")
  /\ record' = [record EXCEPT ![req[r].file] = "deleted"]
  /\ Goto(r, "delete_remove")
  /\ UNCHANGED object

\* ... and set deleted_at.
DeleteRemove(r) ==
  /\ At(r, "delete_remove")
  /\ record' = [record EXCEPT ![req[r].file] = "gone"]
  /\ Goto(r, req[r].then)
  /\ UNCHANGED object

\* A worker that finds deleted rows as well.
CompressFindAny(r) ==
  /\ At(r, "compress_find")
  /\ Goto(r, "compress_get")
  /\ UNCHANGED <<object, record>>

\* image.compress is published after the row is inserted, and may be delivered at any time and
\* again; compressFile finds the row, or returns ...
CompressFind(r) ==
  /\ At(r, "compress_find")
  /\ Goto(r, IF Found(req[r].file) THEN "compress_get" ELSE "idle")
  /\ UNCHANGED <<object, record>>

\* ... gets the object, if it is there, and compresses it ...
CompressGet(r) ==
  /\ At(r, "compress_get") /\ req[r].file \in object
  /\ Goto(r, "compress_put")
  /\ UNCHANGED <<object, record>>

\* ... puts the result under the same key ...
CompressPut(r) ==
  /\ At(r, "compress_put")
  /\ object' = object \cup {req[r].file}
  /\ Goto(r, "compress_save")
  /\ UNCHANGED record

\* ... and saves the row it has read, ACTIVE and with deleted_at null ...
CompressSave(r) ==
  /\ At(r, "compress_save")
  /\ record' = [record EXCEPT ![req[r].file] = "active"]
  /\ Goto(r, "idle")
  /\ UNCHANGED object

\* ... or, if any of this fails, as FAILED before it throws.
CompressFail(r) ==
  /\ req[r].at \in {"compress_get", "compress_put", "compress_save"}
  /\ Goto(r, "compress_failed")
  /\ UNCHANGED <<object, record>>

CompressFailed(r) ==
  /\ At(r, "compress_failed")
  /\ record' = [record EXCEPT ![req[r].file] = "failed"]
  /\ Goto(r, "idle")
  /\ UNCHANGED object

CompressStep(r) ==
  \/ CompressFind(r) \/ CompressGet(r) \/ CompressPut(r) \/ CompressSave(r)
  \/ CompressFail(r) \/ CompressFailed(r)

StorageStep(r) ==
  \/ \E f \in Files : PutObject(r, f)
  \/ InsertRecord(r)
  \/ DeleteFind(r) \/ DeleteObject(r) \/ DeleteSave(r) \/ DeleteRemove(r)
=============================================================================
