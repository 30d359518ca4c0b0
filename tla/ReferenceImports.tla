-------------------------- MODULE ReferenceImports --------------------------
(***************************************************************************)
(* PlatformReferencesService: the items of the reference catalogues and    *)
(* the workbooks they are imported from.  importWorkbook stores the file,  *)
(* writes the rows in one transaction, and deletes the file again if that  *)
(* fails; upsert and disable save an item they have read.  An item is      *)
(* known here by what wrote it last, which no column tells; whether it is  *)
(* active is left out.  A skill is an item like a country or a language;   *)
(* the categories of skills, whose names may repeat, are left out.         *)
(***************************************************************************)
EXTENDS StoredFiles

CONSTANTS Items,   \* pairs of type and code, which are unique
          ByHand

ASSUME ImportsAssumption == None \notin Items \cup Files /\ ByHand \notin Files \cup {None}

VARIABLES
  item,       \* [Items -> the file it was imported from, ByHand, or None if there is no row]
  draft,      \* [Requests -> what the request has yet to write, and its transaction has written]
  imported,   \* history: files whose import has been committed
  stray,      \* history: files of requests that failed or died without deleting them
  withdrawn   \* history: files deleted by those who uploaded them

importVars == <<item, draft, imported, stray, withdrawn>>

\* next, found and source: the item to be saved, whether a row was found, and its new source.
Draft == [todo: SUBSET Items, next: Items \cup {None}, found: BOOLEAN,
          source: Files \cup {ByHand, None}, written: SUBSET Items]

NoDraft == [todo |-> {}, next |-> None, found |-> FALSE, source |-> None, written |-> {}]

ImportAwaits == {"import_rows", "import_save", "item_save"}

ImportsTypeOK ==
  /\ item \in [Items -> Files \cup {ByHand, None}]
  /\ draft \in [Requests -> Draft]
  /\ imported \in SUBSET Files /\ stray \in SUBSET Files /\ withdrawn \in SUBSET Files
  /\ \A r \in Requests : At(r, "idle") => draft[r] = NoDraft

ImportsInit ==
  /\ item = [i \in Items |-> None]
  /\ draft = [r \in Requests |-> NoDraft]
  /\ imported = {} /\ stray = {} /\ withdrawn = {}

\* Rows written by the open transactions of requests other than r: who wants them waits.
WrittenByOthers(r) == UNION {draft[q].written : q \in Requests \ {r}}

\* A row that has been found is updated; one that has not is inserted, unless another was since.
Saves(r) ==
  /\ draft[r].next \notin WrittenByOthers(r)
  /\ draft[r].found \/ item[draft[r].next] = None

Drafted(r, local) == draft' = [draft EXCEPT ![r] = local]

----------------------------------------------------------------------------
(* Imports *)

\* importWorkbook reads the rows and stores the file ...
ImportWorkbook(r, rows) ==
  /\ At(r, "idle")
  /\ req' = [req EXCEPT ![r] = [@ EXCEPT !.at = "put_object", !.then = "import_rows"]]
  /\ Drafted(r, [NoDraft EXCEPT !.todo = rows])
  /\ UNCHANGED <<object, record, item, imported, stray, withdrawn>>

\* ... then looks for each row in a transaction ...
ImportFind(r, i) ==
  /\ At(r, "import_rows") /\ i \in draft[r].todo
  /\ Goto(r, "import_save")
  /\ Drafted(r, [draft[r] EXCEPT !.next = i, !.found = item[i] # None, !.source = req[r].file])
  /\ UNCHANGED <<object, record, item, imported, stray, withdrawn>>

\* A row that is saved by a repository outside the transaction.
ImportSaveOutside(r) ==
  /\ At(r, "import_save") /\ Saves(r)
  /\ item' = [item EXCEPT ![draft[r].next] = draft[r].source]
  /\ Goto(r, "import_rows")
  /\ Drafted(r, [draft[r] EXCEPT !.todo = @ \ {draft[r].next}])
  /\ UNCHANGED <<object, record, imported, stray, withdrawn>>

\* ... saves it ...
ImportSave(r) ==
  /\ At(r, "import_save") /\ Saves(r)
  /\ Goto(r, "import_rows")
  /\ Drafted(r, [draft[r] EXCEPT !.todo = @ \ {draft[r].next}, !.written = @ \cup {draft[r].next}])
  /\ UNCHANGED <<object, record, item, imported, stray, withdrawn>>

\* ... and commits.
ImportCommit(r) ==
  /\ At(r, "import_rows") /\ draft[r].todo = {}
  /\ item' = [i \in Items |-> IF i \in draft[r].written THEN req[r].file ELSE item[i]]
  /\ imported' = imported \cup {req[r].file}
  /\ Goto(r, "idle") /\ Drafted(r, NoDraft)
  /\ UNCHANGED <<object, record, stray, withdrawn>>

\* A failed import that leaves its file.
ImportFailKeepFile(r) ==
  /\ req[r].at \in {"import_rows", "import_save"}
  /\ Goto(r, "idle") /\ Drafted(r, NoDraft)
  /\ UNCHANGED <<object, record, item, imported, stray, withdrawn>>

\* A code is not supported, a row was inserted by another, two imports wait for each other, or
\* a statement fails: the transaction is rolled back, and the file deleted.
ImportFail(r) ==
  /\ req[r].at \in {"import_rows", "import_save"}
  /\ req' = [req EXCEPT ![r] = [@ EXCEPT !.at = "delete_find", !.then = "idle"]]
  /\ Drafted(r, NoDraft)
  /\ UNCHANGED <<object, record, item, imported, stray, withdrawn>>

----------------------------------------------------------------------------
(* Single items and files *)

\* upsert reads the item, if there is one ...
UpsertFind(r, i) ==
  /\ At(r, "idle")
  /\ Goto(r, "item_save")
  /\ Drafted(r, [NoDraft EXCEPT !.next = i, !.found = item[i] # None, !.source = ByHand])
  /\ UNCHANGED <<object, record, item, imported, stray, withdrawn>>

\* ... disable must find it, and will write back all it has read ...
DisableFind(r, i) ==
  /\ At(r, "idle") /\ item[i] # None
  /\ Goto(r, "item_save")
  /\ Drafted(r, [NoDraft EXCEPT !.next = i, !.found = TRUE, !.source = item[i]])
  /\ UNCHANGED <<object, record, item, imported, stray, withdrawn>>

\* ... and both save it.
ItemSave(r) ==
  /\ At(r, "item_save") /\ Saves(r)
  /\ item' = [item EXCEPT ![draft[r].next] = draft[r].source]
  /\ Goto(r, "idle") /\ Drafted(r, NoDraft)
  /\ UNCHANGED <<object, record, imported, stray, withdrawn>>

\* An administrator deletes a file he has uploaded.
FilesDelete(r, f) ==
  /\ At(r, "idle") /\ Found(f)
  /\ req' = [req EXCEPT ![r] = [@ EXCEPT !.at = "delete_find", !.file = f]]
  /\ withdrawn' = withdrawn \cup {f}
  /\ UNCHANGED <<object, record, item, draft, imported, stray>>

\* A store or a statement outside the transaction fails, also that of the deletion, whose
\* errors are ignored; or the process dies, and its transaction is rolled back.
FailImport(r) ==
  /\ ~At(r, "idle")
  /\ Goto(r, "idle") /\ Drafted(r, NoDraft)
  /\ stray' = stray \cup ({req[r].file} \ (imported \cup {None}))
  /\ UNCHANGED <<object, record, item, imported, withdrawn>>

ImportRoutes(r) == \E rows \in SUBSET Items : ImportWorkbook(r, rows)
ItemRoutes(r) == \E i \in Items : UpsertFind(r, i) \/ DisableFind(r, i)

ImportStep(r) ==
  \/ \E i \in Items : ImportFind(r, i)
  \/ ImportSave(r) \/ ImportCommit(r) \/ ImportFail(r) \/ ItemSave(r) \/ FailImport(r)
  \/ \E f \in Files : FilesDelete(r, f)
  \/ StorageStep(r) /\ UNCHANGED importVars

----------------------------------------------------------------------------

\* The workbook an item was imported from has been imported whole and can be downloaded, unless
\* its owner has deleted it: no row survives an import that failed and took its file back, and
\* none that disable writes back.
SourcesCanBeRead ==
  \A i \in Items :
    item[i] \in Files \ withdrawn => item[i] \in imported /\ Available(item[i])
=============================================================================
