------------------------ MODULE RecordServices_proofs ------------------------
(***************************************************************************)
(* For every number of rows, files and requests: pictures and workbooks in *)
(* use are in the bucket and nothing else is, deleted files stay deleted,  *)
(* dates are in order, skills and proposals are as asked for, and records  *)
(* are made by the staff.  Each holds because of what a request still      *)
(* knows, at each await, of the rows it has read.                          *)
(***************************************************************************)
EXTENDS RecordServices, TLAPS

\* Entries: a request that is to write an entry has checked what it will write.
EditLocals(q) ==
  /\ q.at = "idle" <=> q.entry = NoEntry
  /\ q.at \in {"save", "insert"} =>
       q.entry \in Certificates /\ q.start \in Dates /\ q.end \in Dates \cup {NoDate}
  /\ q.entry \in Certificates => q.current = Omitted

WillBeInOrder(q, x) ==
  /\ q.at = "update" /\ Exists(x) =>
       InOrder(Over(q.start, entry[x].start), Over(q.end, entry[x].end),
               Over(q.current, entry[x].current))
  /\ q.at \in {"save", "insert"} => InOrder(q.start, q.end, FALSE)

PatchesAgree(x) ==
  x \notin skewed \cup unchecked =>
    /\ Exists(x) => InOrder(entry[x].start, entry[x].end, entry[x].current)
    /\ \A q, r \in Patching(x) : q = r
    /\ \A r \in Patching(x) : WillBeInOrder(edit[r], x)

EntriesInv ==
  /\ DatedTypeOK
  /\ \A r \in Editors : EditLocals(edit[r])
  /\ \A x \in Certificates : Exists(x) => ~entry[x].current
  /\ \A x \in Experiences \cup Certificates : PatchesAgree(x)

\* Skills: a request that is alone is the only one, and has found all there is to delete.
SkillsInv ==
  /\ SkillsTypeOK
  /\ SkillsAsAsked
  /\ \A r \in Curators : curating[r].alone =>
       /\ curating[r].at # "idle"
       /\ \A q \in Curators \ {r} : curating[q].at = "idle"
       /\ curating[r].at = "sync_insert" => list \ curating[r].found \subseteq curating[r].skills

\* Messages: a request about to send has a conversation, and has looked for the proposal.
SendingLocals(q) ==
  /\ q.at = "idle" => q = SendingIdle
  /\ q.at # "idle" => q.to \in Partners
  /\ q.at \in {"proposal_exist", "message_insert"} => q.to \in conversation
  /\ q.at = "message_insert" => q.offer \in Offers

About(p, o) == {r \in Senders : sending[r].to = p /\ sending[r].offer = o}

MessagesInv ==
  /\ TalkTypeOK
  /\ ProposedOnce
  /\ \A r \in Senders : SendingLocals(sending[r])
  /\ \A p \in Partners, o \in Offers : <<p, o>> \notin repeated =>
       /\ \A q, r \in About(p, o) : q = r
       /\ \A r \in About(p, o) : sending[r].at = "message_insert" => proposals[<<p, o>>] = 0

\* Records: who is about to write is on the staff, or was when the request looked.
StillStaff(r, k) == noting[r].user \in employee[k] \/ r \in overtaken

NotingKnows(r) ==
  LET q == noting[r] IN
  /\ q.at = "interview_insert" =>
       /\ q.user \in Staff /\ q.application \in Received /\ q.company = EmployerOf[q.application]
       /\ StillStaff(r, q.company)
  /\ q.at = "feedback_update" =>
       /\ q.user \in Staff /\ q.interview \in Interviews /\ interview[q.interview] # Nobody
       /\ StillStaff(r, interview[q.interview].company)
  /\ q.at = "score_update" =>
       /\ q.user \in Staff /\ q.application \in Received
       /\ StillStaff(r, EmployerOf[q.application])

NotesInv ==
  /\ RecordsTypeOK
  /\ \A i \in Interviews : interview[i] # Nobody =>
       interview[i].company = EmployerOf[interview[i].application]
  /\ \A r \in Recorders : NotingKnows(r)

----------------------------------------------------------------------------
(* Pictures *)

Storing == {"put_object", "insert_record"}
Erasing == Deletion \ {"url_object"}
Worker  == {"compress_find", "compress_get", "compress_put", "compress_save", "compress_failed"}
Avatar  == {"avatar_previous", "avatar_set"}

\* A request is at an await of a handler, with the local variables its next steps use.
HasLocals(q) ==
  /\ q.at \in Storing \cup {"row_save", "row_delete"} \cup Avatar \cup Deletion \cup Worker
  /\ IF q.at \in Worker THEN q.row = None /\ q.other = None /\ q.then = "idle" ELSE q.row \in Pictured
  /\ IF q.at = "put_object" THEN q.file = None ELSE q.at # "row_save" => q.file \in Files
  /\ q.file \in Files => q.file # q.other
  /\ q.at \in {"row_save", "row_delete", "url_object"} => q.row \notin Avatars
  /\ q.at = "row_save" => \/ q.then = "row_save" /\ q.file \in Files
                          \/ q.then = "idle" /\ q.other = None /\ (q.row \in Portfolios => q.file \in Files)
  /\ q.at = "row_delete" => q.row \in Portfolios /\ q.other = None /\ q.then = "idle"
  /\ q.at \in Avatar => q.row \in Avatars
  /\ q.at = "avatar_previous" => q.other # None
  /\ q.at = "url_object" => q.then = "idle"
  /\ q.at \in Storing =>
       q.then = (IF q.row \notin Avatars THEN "row_save"
                 ELSE IF q.other = None THEN "avatar_set" ELSE "avatar_previous")
  /\ q.at \in Deletion => IF q.then = "idle" THEN q.row \notin Avatars /\ q.other = None
                          ELSE q.then = "avatar_set" /\ q.row \in Avatars /\ q.other # None

PicturesTyped ==
  /\ PicturesTypeOK(PictureLocal)
  /\ \A r \in Requests : req[r] = PictureIdle \/ HasLocals(req[r])
  /\ \A x \in Portfolios : picture[x] # None

\* An object that is put is new, and what rows and requests refer to has been recorded.
FilesAreNew ==
  /\ \A x \in Pictured : picture[x] \in Files => record[picture[x]] # None
  /\ \A r \in Requests :
       /\ req[r].other \in Files => record[req[r].other] # None
       /\ req[r].file \in Files => (record[req[r].file] = None <=> At(r, "insert_record"))
       /\ At(r, "insert_record") => \A q \in Requests \ {r} : req[q].file # req[r].file

\* What has been taken out of the bucket does not come back, unless a worker met the deletion.
ErasedStayAway ==
  /\ \A r \in Requests : AtOne(r, {"compress_put", "compress_save"}) => req[r].file \in object \cup crossed
  /\ \A r \in Requests : AtOne(r, Erasing) => req[r].file \notin object \ (crossed \cup Escaped)
  /\ \A f \in deleted \ crossed : f \notin object \ Escaped /\ record[f] = "gone" /\ Compressing(f) = {}
  /\ \A f \in Files : record[f] = "gone" => f \in deleted

\* A request of a service, which is about a row, has file f in hand.
Names(q, f) == q.row # None /\ f \in {q.file, q.other}

Uses(x, f) == picture[x] = f \/ \E r \in Requests : req[r].row = x /\ Names(req[r], f)

\* A file is about one row, unless its URL was given to a company.
OneRowEach ==
  \A f \in Files \ pasted : \A x, y \in Pictured : Uses(x, f) /\ Uses(y, f) => x = y

\* A file that a request has stored and no row shows yet.
Stores(q, f) ==
  \/ f = q.file  /\ q.at \in {"insert_record", "avatar_previous"}
  \/ f = q.file  /\ q.at = "row_save" /\ q.then = "row_save"
  \/ f = q.file  /\ q.at = "avatar_set" /\ q.other = None
  \/ f = q.other /\ q.at \in {"avatar_set"} \cup Deletion

\* It is in the bucket, and nobody else knows of it.
StoredStay ==
  \A r \in Requests, f \in Files \ pasted : Stores(req[r], f) =>
    /\ f \in object /\ ~Shown(f)
    /\ \A q \in Requests \ {r} : ~Names(req[q], f)

\* A picture that is shown is not the one a request, which has written over it, is to delete.
ShownInv ==
  /\ ShownPicturesExist
  /\ \A r \in Requests :
       At(r, "url_object") /\ req[r].row \notin reverted /\ req[r].file \notin pasted =>
         picture[req[r].row] # req[r].file

\* A file that is not in the bucket, or is excepted, or is being deleted.
Lapsed(f) == f \notin object \/ f \in left \cup crossed \cup (Escaped \cap deleted)

Away(f) == Lapsed(f) \/ \E r \in Requests : AtOne(r, Deletion) /\ req[r].file = f

\* Every other file is shown, or about to be; an avatar is deleted before the new one is set.
KeptInv ==
  /\ \A f \in Files : Away(f) \/ Shown(f) \/ \E r \in Requests : Stores(req[r], f)
  /\ \A r \in Requests : At(r, "avatar_set") /\ req[r].other # None => Away(req[r].file)

PicturesInv ==
  PicturesTyped /\ FilesAreNew /\ ErasedStayAway /\ OneRowEach /\ StoredStay /\ ShownInv /\ KeptInv

----------------------------------------------------------------------------
(* Imports *)

Importing == {"import_rows", "import_save"}
Taking    == {"delete_find", "delete_object", "delete_save", "delete_remove"}

ImportHasLocals(q) ==
  /\ q.at \in Storing \cup Importing \cup Taking \cup {"item_save"}
  /\ q.file \in IF q.at \in {"put_object", "item_save"} THEN {None} ELSE Files
  /\ q.at \in Storing => q.then = "import_rows"
  /\ q.at \in Taking => q.then = "idle"

ImportsTyped ==
  /\ PicturesTypeOK(ImportLocal) /\ ImportsTypeOK
  /\ \A r \in Requests : /\ req[r] = PictureIdle \/ ImportHasLocals(req[r])
                         /\ req[r].at \in Taking => draft[r] = NoDraft
                         /\ At(r, "import_save") => draft[r].next \in Items

\* Workbooks are new, and leave the bucket before their rows are deleted.
WorkbooksAreNew ==
  /\ \A f \in imported : record[f] # None
  /\ \A f \in object : record[f] \notin {"deleted", "gone"}
  /\ \A f \in object : f \in stray \cup imported \/ \E r \in Requests : req[r].file = f
  /\ \A r \in Requests :
       /\ req[r].file \in Files => (record[req[r].file] = None <=> At(r, "insert_record"))
       /\ At(r, "insert_record") => req[r].file \in object
       /\ req[r].at \in {"delete_save", "delete_remove"} => req[r].file \notin object
       /\ At(r, "insert_record") => \A q \in Requests \ {r} : req[q].file # req[r].file

\* A workbook is one request's, until its rows are committed or its owner deletes it.
WorkbooksStay ==
  /\ \A r \in Requests : req[r].file \in Files \ withdrawn =>
       /\ \A q \in Requests \ {r} : req[q].file # req[r].file
       /\ req[r].at \in Importing => Available(req[r].file)
       /\ req[r].file \notin imported
  /\ \A f \in imported \ withdrawn : Available(f)
  /\ \A i \in Items : item[i] \in Files => item[i] \in imported
  /\ \A r \in Requests : At(r, "item_save") /\ draft[r].source \in Files => draft[r].source \in imported

IInv == ImportsTyped /\ WorkbooksAreNew /\ WorkbooksStay

\* Who is about pictures has no imports, and who is about imports no pictures.
FilesInv ==
  /\ subject \in Subjects
  /\ IF subject = TheCatalogues
     THEN IInv /\ deleted = {} /\ \A x \in Pictured : picture[x] \notin Files
     ELSE ImportsInit /\ PicturesInv

----------------------------------------------------------------------------
(* Entries *)

\* The locals of an edit that writes, or is over.
LEMMA EditsMove ==
  ASSUME NEW r \in Editors, EntriesInv, NEW local \in Edit, EditLocals(local),
         edit' = [edit EXCEPT ![r] = local]
  PROVE  /\ edit' \in [Editors -> Edit] /\ \A q \in Editors : EditLocals(edit'[q])
         /\ edit'[r] = local /\ \A q \in Editors \ {r} : edit'[q] = edit[q]
  BY DEF EntriesInv, DatedTypeOK

\* EditIdle has the locals of no edit.
LEMMA EditIdleFacts ==
  EditIdle \in Edit /\ EditLocals(EditIdle) /\ EditIdle.at = "idle" /\ EditIdle.entry = NoEntry
  BY DatedAssumption DEF EditIdle, Edit, EditLocals, Dated

\* An entry that is patched well, by an edit that is the only one unless that is known.
LEMMA WritesAgree ==
  ASSUME EntriesInv, NEW r \in Editors, NEW x \in Dated, NEW local \in Edit, EditLocals([local EXCEPT !.entry = x]),
         Write(r, x, local), local.at # "idle",
         unchecked' \in SUBSET Dated, unchecked \subseteq unchecked',
         x \in (Experiences \cup Certificates) \ unchecked' /\ local.at # "delete" =>
           WillBeInOrder(local, x)
  PROVE  EntriesInv'
  <1> DEFINE new == [local EXCEPT !.entry = x]
  <1>1. new \in Edit /\ edit' = [edit EXCEPT ![r] = new] /\ entry' = entry
    BY DEF Edit, Write
  <1>2. /\ edit' \in [Editors -> Edit] /\ \A q \in Editors : EditLocals(edit'[q])
        /\ edit'[r] = new /\ \A q \in Editors \ {r} : edit'[q] = edit[q]
    BY <1>1, EditsMove
  <1>3. skewed' \in SUBSET Dated /\ skewed \subseteq skewed'
        /\ (local.at # "delete" /\ Patching(x) # {} => x \in skewed')
    BY DEF Write, EntriesInv, DatedTypeOK
  <1>4. new.at = local.at /\ new.entry = x /\ new.start = local.start /\ new.end = local.end
        /\ new.current = local.current
    BY DEF Edit
  <1>5. edit[r].entry = NoEntry
    BY DEF Write, EntriesInv, EditLocals
  <1>6. ASSUME NEW y \in Experiences \cup Certificates
        PROVE  PatchesAgree(y)'
    <2> SUFFICES ASSUME y \notin skewed' \cup unchecked'
                 PROVE  /\ Exists(y) => InOrder(entry[y].start, entry[y].end, entry[y].current)
                        /\ \A p, q \in Patching(y)' : p = q
                        /\ \A q \in Patching(y)' : WillBeInOrder(edit[q], y)'
      BY <1>1 DEF PatchesAgree, Exists
    <2>1. PatchesAgree(y) /\ y \notin skewed \cup unchecked
      BY <1>3 DEF EntriesInv
    <2>2. \A q \in Editors \ {r} : q \in Patching(y)' <=> q \in Patching(y)
      BY <1>2 DEF Patching, Editing
    <2>3. r \in Patching(y)' => y = x /\ local.at # "delete" /\ Patching(x) = {}
      BY <1>2, <1>3, <1>4 DEF Patching, Editing
    <2>4. \A q \in Editors \ {r} : WillBeInOrder(edit[q], y) => WillBeInOrder(edit[q], y)'
      BY <1>1, <1>2 DEF WillBeInOrder, Exists
    <2>5. r \in Patching(y)' => WillBeInOrder(edit[r], y)'
      BY <1>1, <1>2, <1>4, <2>3 DEF WillBeInOrder, Exists
    <2>6. Patching(y)' \subseteq Editors /\ Patching(y) \subseteq Editors
      BY DEF Patching, Editing
    <2>7. QED
      BY <2>1, <2>2, <2>3, <2>4, <2>5, <2>6 DEF PatchesAgree
  <1>7. \A y \in Certificates : Exists(y)' => ~(entry[y].current)'
    BY <1>1 DEF EntriesInv, Exists
  <1>8. DatedTypeOK'
    BY <1>1, <1>2, <1>3 DEF EntriesInv, DatedTypeOK
  <1>9. QED
    BY <1>2, <1>6, <1>7, <1>8 DEF EntriesInv

\* Edits that only end, or wait for a write, leave what the others know.
LEMMA EntriesStay ==
  ASSUME EntriesInv, NEW r \in Editors, edit[r].at # "idle",
         edit' = [edit EXCEPT ![r] = EditIdle], UNCHANGED <<skewed, unchecked>>,
         entry' \in [Dated -> Entry \cup {NoEntry}],
         \A y \in Certificates : Exists(y)' => ~(entry[y].current)',
         \A y \in Experiences \cup Certificates :
           \/ entry'[y] = entry[y] \/ entry'[y] = NoEntry
           \/ r \in Patching(y) /\ (y \in skewed \cup unchecked
                                    \/ InOrder(entry'[y].start, entry'[y].end, entry'[y].current))
  PROVE  EntriesInv'
  <1>1. /\ edit' \in [Editors -> Edit] /\ \A q \in Editors : EditLocals(edit'[q])
        /\ edit'[r] = EditIdle /\ \A q \in Editors \ {r} : edit'[q] = edit[q]
    BY EditsMove, EditIdleFacts
  <1>2. ASSUME NEW y \in Experiences \cup Certificates
        PROVE  PatchesAgree(y)'
    <2> SUFFICES ASSUME y \notin skewed \cup unchecked
                 PROVE  /\ Exists(y)' => InOrder(entry[y].start, entry[y].end, entry[y].current)'
                        /\ \A p, q \in Patching(y)' : p = q
                        /\ \A q \in Patching(y)' : WillBeInOrder(edit[q], y)'
      BY DEF PatchesAgree
    <2>1. /\ Exists(y) => InOrder(entry[y].start, entry[y].end, entry[y].current)
          /\ \A p, q \in Patching(y) : p = q
          /\ \A q \in Patching(y) : WillBeInOrder(edit[q], y)
      BY DEF EntriesInv, PatchesAgree
    <2>2. Patching(y)' \subseteq Patching(y) \ {r}
      BY <1>1, EditIdleFacts, DatedAssumption DEF Patching, Editing, Dated
    <2>3. CASE entry'[y] = entry[y] \/ entry'[y] = NoEntry
      <3>1. \A q \in Editors \ {r} : WillBeInOrder(edit[q], y) => WillBeInOrder(edit[q], y)'
        BY <1>1, <2>3 DEF WillBeInOrder, Exists
      <3>2. QED
        BY <2>1, <2>2, <2>3, <3>1 DEF Exists, Patching, Editing
    <2>4. CASE r \in Patching(y) /\ InOrder(entry'[y].start, entry'[y].end, entry'[y].current)
      BY <2>1, <2>2, <2>4
    <2>5. QED
      BY <2>3, <2>4
  <1>3. QED
    BY <1>1, <1>2 DEF EntriesInv, DatedTypeOK

\* A row with a new id, which is checked unless it is an education.
LEMMA InsertsAgree ==
  ASSUME EntriesInv, NEW x \in Dated, NEW start \in Dates, NEW end \in Dates \cup {NoDate},
         NEW current \in BOOLEAN, Insert(x, start, end, current),
         x \in Experiences \cup Certificates => InOrder(start, end, current),
         x \in Certificates => ~current
  PROVE  EntriesInv'
  <1> DEFINE row == [start |-> start, end |-> end, current |-> current]
  <1>1. /\ entry' = [entry EXCEPT ![x] = row] /\ UNCHANGED <<edit, skewed, unchecked>>
        /\ Editing(x) = {} /\ row \in Entry /\ row.start = start /\ row.end = end /\ row.current = current
    BY DEF Insert, Entry
  <1>2. entry' \in [Dated -> Entry \cup {NoEntry}] /\ entry'[x] = row
        /\ \A y \in Dated \ {x} : entry'[y] = entry[y]
    BY <1>1 DEF EntriesInv, DatedTypeOK
  <1>3. ASSUME NEW y \in Experiences \cup Certificates
        PROVE  PatchesAgree(y)'
    <2>1. CASE y = x
      <3>1. Patching(y)' = {}
        BY <1>1, <2>1 DEF Patching, Editing
      <3>2. InOrder(entry'[y].start, entry'[y].end, entry'[y].current)
        BY <1>1, <1>2, <2>1
      <3>3. QED
        BY <3>1, <3>2 DEF PatchesAgree
    <2>2. CASE y # x
      <3>1. entry'[y] = entry[y] /\ PatchesAgree(y)
        BY <1>2, <2>2 DEF EntriesInv, Dated
      <3>2. QED
        BY <1>1, <3>1 DEF PatchesAgree, Patching, Editing, WillBeInOrder, Exists
    <2>3. QED
      BY <2>1, <2>2
  <1>4. \A y \in Certificates : Exists(y)' => ~(entry[y].current)'
    BY <1>1, <1>2 DEF EntriesInv, Exists, Dated
  <1>5. QED
    BY <1>1, <1>2, <1>3, <1>4 DEF EntriesInv, DatedTypeOK

\* A certificate that is saved is looked for again, and then has the dates that were checked.
LEMMA CertificateFindAgrees ==
  ASSUME EntriesInv, NEW r \in Editors, CertificateFind(r)
  PROVE  EntriesInv'
  <1> DEFINE x == edit[r].entry
             Differing(value, column) == IF value = column THEN Omitted ELSE value
             new == IF Exists(x) THEN [edit[r] EXCEPT !.at = "update",
                                         !.start = Differing(edit[r].start, entry[x].start),
                                         !.end = Differing(edit[r].end, entry[x].end)]
                    ELSE [edit[r] EXCEPT !.at = "insert"]
  <1>1. /\ edit[r].at = "save" /\ edit' = [edit EXCEPT ![r] = new]
        /\ UNCHANGED <<entry, skewed, unchecked>>
    <2>1. CASE Exists(x)
      BY <2>1 DEF CertificateFind
    <2>2. CASE ~Exists(x)
      BY <2>2 DEF CertificateFind
    <2>3. QED
      BY <2>1, <2>2
  <1>2. /\ edit[r] \in Edit /\ x \in Certificates /\ edit[r].start \in Dates
        /\ edit[r].end \in Dates \cup {NoDate} /\ edit[r].current = Omitted
    BY <1>1 DEF EntriesInv, DatedTypeOK, EditLocals
  <1>3. Exists(x) => entry[x] \in Entry /\ ~entry[x].current
    BY <1>2 DEF Exists, EntriesInv, DatedTypeOK, Dated
  <1>4. new \in Edit /\ EditLocals(new) /\ new.entry = x
    <2>1. CASE Exists(x)
      BY <1>1, <1>2, <2>1, DatedAssumption DEF Edit, EditLocals, Dated
    <2>2. CASE ~Exists(x)
      BY <1>1, <1>2, <2>2, DatedAssumption DEF Edit, EditLocals, Dated
    <2>3. QED
      BY <2>1, <2>2
  <1>5. /\ edit' \in [Editors -> Edit] /\ \A q \in Editors : EditLocals(edit'[q])
        /\ edit'[r] = new /\ \A q \in Editors \ {r} : edit'[q] = edit[q]
    BY <1>1, <1>4, EditsMove
  <1>6. WillBeInOrder(edit[r], x) => WillBeInOrder(new, x)
    <2>1. WillBeInOrder(edit[r], x) => InOrder(edit[r].start, edit[r].end, FALSE)
      BY <1>1 DEF WillBeInOrder
    <2>2. CASE Exists(x)
      <3>1. /\ new.at = "update" /\ Over(new.current, entry[x].current) = FALSE
            /\ Over(new.start, entry[x].start) = edit[r].start
            /\ Over(new.end, entry[x].end) = edit[r].end
        <4>1. entry[x] \in Entry /\ entry[x].current = FALSE
          BY <1>3, <2>2 DEF Entry
        <4>2. new.at = "update" /\ new.current = Omitted
              /\ new.start = Differing(edit[r].start, entry[x].start)
              /\ new.end = Differing(edit[r].end, entry[x].end)
          BY <1>2, <2>2 DEF Edit
        <4>3. QED
          BY <1>2, <4>1, <4>2, DatedAssumption DEF Over
      <3>2. QED
        BY <2>1, <3>1 DEF WillBeInOrder
    <2>3. CASE ~Exists(x)
      BY <1>2, <2>1, <2>3 DEF WillBeInOrder, Edit
    <2>4. QED
      BY <2>2, <2>3
  <1>7. ASSUME NEW y \in Experiences \cup Certificates
        PROVE  PatchesAgree(y)'
    <2>1. PatchesAgree(y)
      BY DEF EntriesInv
    <2>2. Patching(y)' \subseteq Patching(y) /\ Patching(y) \subseteq Editors
      BY <1>1, <1>4, <1>5 DEF Patching, Editing
    <2>3. \A q \in Editors \ {r} : WillBeInOrder(edit[q], y) => WillBeInOrder(edit[q], y)'
      BY <1>1, <1>5 DEF WillBeInOrder, Exists
    <2>4. r \in Patching(y) => y = x
      BY DEF Patching, Editing
    <2>5. WillBeInOrder(edit[r], x) => WillBeInOrder(new, x)
      BY <1>6
    <2>6. r \in Patching(y) /\ WillBeInOrder(edit[r], y) => WillBeInOrder(edit[r], y)'
      <3>1. ASSUME r \in Patching(y), WillBeInOrder(edit[r], y)
            PROVE  WillBeInOrder(edit'[r], y)
        BY <1>5, <2>4, <2>5, <3>1
      <3>2. WillBeInOrder(edit'[r], y) => WillBeInOrder(edit[r], y)'
        BY <1>1 DEF WillBeInOrder, Exists
      <3>3. QED
        BY <3>1, <3>2
    <2>7. QED
      BY <1>1, <2>1, <2>2, <2>3, <2>6 DEF PatchesAgree, Exists
  <1>8. QED
    BY <1>1, <1>5, <1>7 DEF EntriesInv, DatedTypeOK, Exists

\* Routes insert and patch entries in order, or are on record.
LEMMA RoutesAgree ==
  ASSUME EntriesInv, NEW x \in Dated,
         CreateRoutes(x) \/ \E r \in Editors :
           ExperienceRoutes(r, x) \/ CertificateRoutes(r, x) \/ EducationRoutes(r, x)
  PROVE  EntriesInv'
  <1>1. CASE CreateRoutes(x)
    <2>1. CASE CreateExperience(x)
      BY <2>1, InsertsAgree, DatedAssumption DEF CreateExperience
    <2>2. CASE CreateCertificate(x)
      BY <2>2, InsertsAgree DEF CreateCertificate, CertificateInOrder, InOrder
    <2>3. CASE CreateEducation(x)
      BY <2>3, InsertsAgree, DatedAssumption DEF CreateEducation
    <2>4. QED
      BY <1>1, <2>1, <2>2, <2>3 DEF CreateRoutes
  <1>2. ASSUME NEW r \in Editors, EditExperience(r, x)
        PROVE  EntriesInv'
    <2>1. PICK start \in Dates \cup {NoDate, Omitted}, end \in Dates \cup {NoDate, Omitted},
               current \in BOOLEAN \cup {Omitted} :
            /\ x \in Experiences /\ Exists(x)
            /\ start # NoDate => InOrder(Over(start, entry[x].start), Over(end, entry[x].end),
                                         Over(current, entry[x].current))
            /\ Write(r, x, [EditIdle EXCEPT !.at = "update", !.end = end, !.current = current,
                              !.start = IF start = NoDate THEN Omitted ELSE start])
            /\ unchecked' = unchecked \cup {y \in {x} : start = NoDate}
      BY <1>2 DEF EditExperience
    <2> DEFINE local == [EditIdle EXCEPT !.at = "update", !.end = end, !.current = current,
                           !.start = IF start = NoDate THEN Omitted ELSE start]
    <2>2. /\ local \in Edit /\ local.at = "update" /\ local.end = end /\ local.current = current
          /\ local.start = IF start = NoDate THEN Omitted ELSE start
      BY DEF EditIdle, Edit
    <2>3. EditLocals([local EXCEPT !.entry = x])
      BY <2>1, <2>2, DatedAssumption DEF EditLocals, Edit, Dated
    <2>4. x \notin unchecked' => WillBeInOrder(local, x)
      BY <2>1, <2>2 DEF WillBeInOrder
    <2>5. unchecked' \in SUBSET Dated
      BY <2>1 DEF EntriesInv, DatedTypeOK
    <2> HIDE DEF local
    <2>6. QED
      BY <2>1, <2>2, <2>3, <2>4, <2>5, WritesAgree DEF local
  <1>3. ASSUME NEW r \in Editors, EditCertificate(r, x)
        PROVE  EntriesInv'
    <2>1. PICK start \in Dates, end \in Dates \cup {NoDate, Omitted} :
            /\ x \in Certificates /\ Exists(x)
            /\ CertificateInOrder(start, Over(end, NoDate))
            /\ Write(r, x, [EditIdle EXCEPT !.at = "save", !.start = start, !.end = Over(end, entry[x].end)])
            /\ unchecked' = unchecked \cup {y \in {x} : end = Omitted /\ entry[x].end # NoDate}
      BY <1>3 DEF EditCertificate
    <2> DEFINE local == [EditIdle EXCEPT !.at = "save", !.start = start, !.end = Over(end, entry[x].end)]
    <2>2. entry[x] \in Entry
      BY <2>1 DEF Exists, EntriesInv, DatedTypeOK
    <2>3. /\ local \in Edit /\ local.at = "save" /\ local.start = start /\ local.current = Omitted
          /\ local.end = Over(end, entry[x].end) /\ local.end \in Dates \cup {NoDate}
      BY <2>2 DEF EditIdle, Edit, Over, Entry
    <2>4. EditLocals([local EXCEPT !.entry = x])
      BY <2>1, <2>3, DatedAssumption DEF EditLocals, Edit, Dated
    <2>5. x \notin unchecked' => WillBeInOrder(local, x)
      BY <2>1, <2>3, DatedAssumption DEF WillBeInOrder, InOrder, CertificateInOrder, Over
    <2>6. unchecked' \in SUBSET Dated
      BY <2>1 DEF EntriesInv, DatedTypeOK
    <2> HIDE DEF local
    <2>7. QED
      BY <2>1, <2>3, <2>4, <2>5, <2>6, WritesAgree DEF local
  <1>4. ASSUME NEW r \in Editors, EditEducation(r, x)
        PROVE  EntriesInv'
    <2>1. PICK start \in Dates, end \in Dates \cup {NoDate} :
            /\ x \in Educations /\ UNCHANGED unchecked
            /\ Write(r, x, [EditIdle EXCEPT !.at = "update", !.start = start, !.end = end])
      BY <1>4 DEF EditEducation
    <2> DEFINE local == [EditIdle EXCEPT !.at = "update", !.start = start, !.end = end]
    <2>2. local \in Edit /\ local.at = "update" /\ local.current = Omitted
      BY DEF EditIdle, Edit
    <2>3. EditLocals([local EXCEPT !.entry = x])
      BY <2>1, <2>2, DatedAssumption DEF EditLocals, Edit, Dated
    <2>4. unchecked' \in SUBSET Dated /\ x \notin Experiences \cup Certificates
      BY <2>1, DatedAssumption DEF EntriesInv, DatedTypeOK
    <2> HIDE DEF local
    <2>5. QED
      BY <2>1, <2>2, <2>3, <2>4, WritesAgree DEF local
  <1>5. ASSUME NEW r \in Editors, RemoveEntry(r, x)
        PROVE  EntriesInv'
    <2> DEFINE local == [EditIdle EXCEPT !.at = "delete"]
    <2>1. local \in Edit /\ local.at = "delete" /\ EditLocals([local EXCEPT !.entry = x])
      BY DatedAssumption DEF EditIdle, Edit, EditLocals, Dated
    <2>2. Write(r, x, local) /\ UNCHANGED unchecked /\ unchecked \in SUBSET Dated
      BY <1>5 DEF RemoveEntry, EntriesInv, DatedTypeOK
    <2> HIDE DEF local
    <2>3. QED
      BY <2>1, <2>2, WritesAgree
  <1>6. QED
    BY <1>1, <1>2, <1>3, <1>4, <1>5 DEF ExperienceRoutes, CertificateRoutes, EducationRoutes, RemoveRoute

\* Entries are patched in order, if two patches of one do not overlap.
LEMMA EntriesInductive ==
  ASSUME EntriesInv, NextEntry
  PROVE  EntriesInv'
  <1>1. subject \in Dated
    BY DEF NextEntry
  <1>2. ASSUME NEW r \in Editors, EntryUpdate(r)
        PROVE  EntriesInv'
    <2> DEFINE x == edit[r].entry
               row == [start   |-> Over(edit[r].start, entry[x].start),
                       end     |-> Over(edit[r].end, entry[x].end),
                       current |-> Over(edit[r].current, entry[x].current)]
    <2>1. /\ edit[r].at = "update" /\ edit' = [edit EXCEPT ![r] = EditIdle] /\ UNCHANGED <<skewed, unchecked>>
          /\ entry' = IF ~Exists(x) THEN entry ELSE [entry EXCEPT ![x] = row]
      BY <1>2 DEF EntryUpdate, Done
    <2>2. /\ edit[r] \in Edit /\ x \in Dated /\ r \in Patching(x)
          /\ x \in Certificates => edit[r].current = Omitted
      BY <2>1 DEF EntriesInv, DatedTypeOK, EditLocals, Edit, Patching, Editing
    <2>3. Exists(x) => entry[x] \in Entry /\ row \in Entry
      BY <2>2 DEF Exists, EntriesInv, DatedTypeOK, Entry, Edit, Over
    <2>4. entry' \in [Dated -> Entry \cup {NoEntry}]
      BY <2>1, <2>3 DEF EntriesInv, DatedTypeOK
    <2>5. \A y \in Dated : y # x \/ ~Exists(x) => entry'[y] = entry[y]
      BY <2>1 DEF EntriesInv, DatedTypeOK
    <2>6. Exists(x) => entry'[x] = row
      BY <2>1, <2>2 DEF EntriesInv, DatedTypeOK
    <2>7. row.start = Over(edit[r].start, entry[x].start) /\ row.end = Over(edit[r].end, entry[x].end)
          /\ row.current = Over(edit[r].current, entry[x].current)
      OBVIOUS
    <2>8. \A y \in Certificates : Exists(y)' => ~(entry[y].current)'
      BY <2>2, <2>5, <2>6, <2>7 DEF EntriesInv, Exists, Dated, Over
    <2>9. ASSUME x \in Experiences \cup Certificates, Exists(x)
          PROVE  x \in skewed \cup unchecked \/ InOrder(entry'[x].start, entry'[x].end, entry'[x].current)
      <3>1. x \in skewed \cup unchecked \/ InOrder(Over(edit[r].start, entry[x].start),
              Over(edit[r].end, entry[x].end), Over(edit[r].current, entry[x].current))
        BY <2>1, <2>2, <2>9 DEF EntriesInv, PatchesAgree, WillBeInOrder
      <3>2. entry'[x] = row
        BY <2>6, <2>9
      <3>3. QED
        BY <2>7, <3>1, <3>2
    <2>10. QED
      BY <2>1, <2>2, <2>4, <2>5, <2>8, <2>9, EntriesStay DEF Dated
  <1>3. ASSUME NEW r \in Editors, CertificateInsert(r)
        PROVE  EntriesInv'
    <2> DEFINE x == edit[r].entry
               row == [start |-> edit[r].start, end |-> edit[r].end, current |-> FALSE]
    <2>1. /\ edit[r].at = "insert" /\ edit' = [edit EXCEPT ![r] = EditIdle] /\ UNCHANGED <<skewed, unchecked>>
          /\ entry' = [entry EXCEPT ![x] = row]
      BY <1>3 DEF CertificateInsert, Done
    <2>2. /\ x \in Certificates /\ edit[r].start \in Dates /\ edit[r].end \in Dates \cup {NoDate}
          /\ r \in Patching(x) /\ row \in Entry
      BY <2>1 DEF EntriesInv, EditLocals, Patching, Editing, Entry
    <2>3. entry' \in [Dated -> Entry \cup {NoEntry}] /\ entry'[x] = row
          /\ \A y \in Dated \ {x} : entry'[y] = entry[y]
      BY <2>1, <2>2 DEF EntriesInv, DatedTypeOK, Dated
    <2>4. x \in skewed \cup unchecked \/ InOrder(row.start, row.end, row.current)
      BY <2>1, <2>2 DEF EntriesInv, PatchesAgree, WillBeInOrder
    <2>5. \A y \in Certificates : Exists(y)' => ~(entry[y].current)'
      BY <2>3 DEF EntriesInv, Exists, Dated
    <2>6. \A y \in Experiences \cup Certificates :
            \/ entry'[y] = entry[y]
            \/ r \in Patching(y) /\ (y \in skewed \cup unchecked
                                     \/ InOrder(entry'[y].start, entry'[y].end, entry'[y].current))
      <3>1. ASSUME NEW y \in Experiences \cup Certificates, y # x
            PROVE  entry'[y] = entry[y]
        BY <2>3, <3>1 DEF Dated
      <3>2. QED
        BY <2>2, <2>3, <2>4, <3>1
    <2>7. QED
      BY <2>1, <2>3, <2>5, <2>6, EntriesStay
  <1>4. ASSUME NEW r \in Editors, EntryDelete(r)
        PROVE  EntriesInv'
    <2> DEFINE x == edit[r].entry
    <2>1. /\ edit[r].at = "delete" /\ edit' = [edit EXCEPT ![r] = EditIdle] /\ UNCHANGED <<skewed, unchecked>>
          /\ entry' = [entry EXCEPT ![x] = NoEntry]
      BY <1>4 DEF EntryDelete, Done
    <2>2. entry' \in [Dated -> Entry \cup {NoEntry}] /\ \A y \in Dated : entry'[y] \in {entry[y], NoEntry}
      BY <2>1 DEF EntriesInv, DatedTypeOK
    <2>3. \A y \in Certificates : Exists(y)' => ~(entry[y].current)'
      BY <2>2 DEF EntriesInv, Exists, Dated
    <2>4. QED
      BY <2>1, <2>2, <2>3, EntriesStay DEF Dated
  <1>5. ASSUME NEW r \in Editors, FailEdit(r)
        PROVE  EntriesInv'
    BY <1>5, EntriesStay DEF FailEdit, Done, EntriesInv, DatedTypeOK, Exists
  <1>6. QED
    BY <1>1, <1>2, <1>3, <1>4, <1>5, RoutesAgree, CertificateFindAgrees DEF NextEntry, EditStep

\* The invariant of the entries holds in every reachable state.
LEMMA EntriesInvariant == Spec => []EntriesInv
  <1>1. Init => EntriesInv
    <2> SUFFICES ASSUME Init
                 PROVE  EntriesInv
      OBVIOUS
    <2>1. /\ \A x \in Dated : ~Exists(x)
          /\ \A r \in Editors : edit[r] = EditIdle
          /\ DatedTypeOK
      BY EditIdleFacts DEF Init, DatedInit, DatedTypeOK, Exists
    <2>2. \A x \in Dated : Patching(x) = {}
      BY <2>1, EditIdleFacts, DatedAssumption DEF Patching, Editing
    <2>3. QED
      BY <2>1, <2>2, EditIdleFacts DEF EntriesInv, PatchesAgree, Dated
  <1>2. EntriesInv /\ [Next]_recordVars => EntriesInv'
    <2>1. UNCHANGED datedVars /\ EntriesInv => EntriesInv'
      <3> SUFFICES ASSUME UNCHANGED datedVars, EntriesInv
                   PROVE  EntriesInv'
        OBVIOUS
      <3>1. UNCHANGED <<entry, edit, skewed, unchecked>>
        BY DEF datedVars
      <3>2. \A x \in Experiences \cup Certificates : PatchesAgree(x)'
        BY <3>1 DEF EntriesInv, PatchesAgree, Patching, Editing, WillBeInOrder, Exists
      <3>3. QED
        BY <3>1, <3>2 DEF EntriesInv, DatedTypeOK, Exists
    <2>2. [Next]_recordVars => NextEntry \/ UNCHANGED datedVars
      BY DEF Next, recordVars, NextPicture, NextImport, NextSkill, NextMessage, NextRecord, datedVars
    <2>3. QED
      BY <2>1, <2>2, EntriesInductive
  <1>3. QED
    BY <1>1, <1>2, PTL DEF Spec

\* No experience and no certificate ends before it starts, and no current position has an end:
\* whatever requests are at work on it, unless two patches of it have overlapped or one had an
\* empty date.
THEOREM DatesStayInOrder == Spec => []DatesInOrder
  <1>1. EntriesInv => DatesInOrder
    BY DEF EntriesInv, DatesInOrder, PatchesAgree
  <1>2. QED
    BY <1>1, EntriesInvariant, PTL

----------------------------------------------------------------------------
(* Skills *)

\* The catalogue may lose skills that the list has, and the list follows.
LEMMA CatalogueKeepsSkills ==
  ASSUME SkillsInv, CatalogueRoutes
  PROVE  SkillsInv'
  <1>1. ASSUME NEW c \in Categories, CreateCategory(c)
        PROVE  SkillsInv'
    BY <1>1 DEF CreateCategory, SkillsInv, SkillsTypeOK, SkillsAsAsked
  <1>2. ASSUME NEW c \in Categories, NEW k \in Skills, CreateSkill(k, c)
        PROVE  SkillsInv'
    BY <1>2 DEF CreateSkill, SkillsInv, SkillsTypeOK, SkillsAsAsked
  <1>3. ASSUME NEW c \in Categories, DeleteCategory(c)
        PROVE  SkillsInv'
    <2>1. PICK gone \in SUBSET Skills :
            /\ gone = {k \in Skills : category[k] = c}
            /\ categories' = categories \ {c}
            /\ category' = [k \in Skills |-> IF k \in gone THEN NoCategory ELSE category[k]]
            /\ list' = list \ gone /\ asked' = DropFrom(asked, gone) /\ curating' = curating
      BY <1>3 DEF DeleteCategory
    <2>2. SkillsTypeOK'
      <3>1. asked' \in {Unknown} \cup SUBSET Skills
        BY <2>1 DEF SkillsInv, SkillsTypeOK, DropFrom
      <3>2. /\ category' \in [Skills -> Categories \cup {NoCategory}]
            /\ \A k \in Skills : category'[k] # NoCategory => category'[k] \in categories'
        BY <2>1 DEF SkillsInv, SkillsTypeOK
      <3>3. list' \in SUBSET {k \in Skills : category'[k] # NoCategory}
        BY <2>1 DEF SkillsInv, SkillsTypeOK
      <3>4. QED
        BY <2>1, <3>1, <3>2, <3>3 DEF SkillsInv, SkillsTypeOK
    <2>3. SkillsAsAsked'
      BY <2>1 DEF SkillsInv, SkillsAsAsked, DropFrom
    <2>4. QED
      BY <2>1, <2>2, <2>3 DEF SkillsInv
  <1>4. QED
    BY <1>1, <1>2, <1>3 DEF CatalogueRoutes

\* A request begins, and no other is alone any more.
LEMMA CurateKeepsSkills ==
  ASSUME SkillsInv, NEW r \in Curators, NEW label \in {"assign", "remove", "sync_delete"},
         NEW skills \in SUBSET Skills, Curate(r, label, skills)
  PROVE  SkillsInv'
  <1>1. PICK alone \in BOOLEAN :
          /\ alone <=> \A q \in Curators : curating[q].at = "idle"
          /\ curating' = [q \in Curators |->
               IF q = r THEN [at |-> label, skills |-> skills, found |-> list \cap skills, alone |-> alone]
               ELSE [curating[q] EXCEPT !.alone = FALSE]]
          /\ UNCHANGED <<categories, category, list, asked>>
    BY DEF Curate
  <1>2. ASSUME NEW q \in Curators
        PROVE  curating'[q] \in Curating
    <2>1. CASE q = r
      <3>1. [at |-> label, skills |-> skills, found |-> list \cap skills, alone |-> alone] \in Curating
        BY DEF Curating
      <3>2. QED
        BY <1>1, <2>1, <3>1
    <2>2. CASE q # r
      <3>1. curating[q] \in Curating /\ curating'[q] = [curating[q] EXCEPT !.alone = FALSE]
        BY <1>1, <2>2 DEF SkillsInv, SkillsTypeOK
      <3>2. \A local \in Curating : [local EXCEPT !.alone = FALSE] \in Curating
        BY DEF Curating
      <3>3. QED
        BY <3>1, <3>2
    <2>3. QED
      BY <2>1, <2>2
  <1>3. curating' \in [Curators -> Curating]
    BY <1>1, <1>2
  <1>4. \A q \in Curators \ {r} : curating'[q].at = curating[q].at /\ ~curating'[q].alone
    BY <1>1 DEF SkillsInv, SkillsTypeOK, Curating
  <1>5. curating'[r].at = label /\ (curating'[r].alone <=> \A q \in Curators : curating[q].at = "idle")
    BY <1>1
  <1>6. QED
    BY <1>1, <1>3, <1>4, <1>5 DEF SkillsInv, SkillsTypeOK, SkillsAsAsked

\* A request ends, and any that was alone is over.
LEMMA CommitKeepsSkills ==
  ASSUME SkillsInv, NEW r \in Curators, curating[r].at # "idle",
         curating' = [curating EXCEPT ![r] = CuratingIdle],
         UNCHANGED <<categories, category>>, list' \in SUBSET {k \in Skills : category[k] # NoCategory},
         \/ asked' = Unknown \/ asked' = list'
         \/ UNCHANGED <<list, asked>>
  PROVE  SkillsInv'
  <1>1. CuratingIdle \in Curating /\ CuratingIdle.at = "idle" /\ CuratingIdle.alone = FALSE
    BY DEF CuratingIdle, Curating
  <1>2. curating' \in [Curators -> Curating] /\ curating'[r] = CuratingIdle
        /\ \A q \in Curators \ {r} : curating'[q] = curating[q]
    BY <1>1 DEF SkillsInv, SkillsTypeOK
  <1>3. \A q \in Curators : ~curating'[q].alone
    BY <1>1, <1>2 DEF SkillsInv
  <1>4. SkillsTypeOK'
    BY <1>2 DEF SkillsInv, SkillsTypeOK
  <1>5. SkillsAsAsked'
    BY DEF SkillsInv, SkillsAsAsked
  <1>6. QED
    BY <1>3, <1>4, <1>5 DEF SkillsInv

\* The list is as it was last asked for, if requests do not overlap.
LEMMA SkillsInductive ==
  ASSUME SkillsInv, NextSkill
  PROVE  SkillsInv'
  <1>1. ASSUME NEW r \in Curators, SkillRoutes(r)
        PROVE  SkillsInv'
    <2>1. \A k \in Skills : {k} \in SUBSET Skills
      OBVIOUS
    <2>2. PICK label \in {"assign", "remove", "sync_delete"}, skills \in SUBSET Skills :
            Curate(r, label, skills)
      BY <1>1, <2>1 DEF SkillRoutes, AssignFind, RemoveFind, SyncFind
    <2>3. QED
      BY <2>2, CurateKeepsSkills
  <1>2. ASSUME NEW r \in Curators
        PROVE  /\ curating[r] \in Curating /\ list \in SUBSET {k \in Skills : category[k] # NoCategory}
               /\ asked # Unknown => list = asked
               /\ \A k \in SUBSET Skills : Known(k) => k \in SUBSET {m \in Skills : category[m] # NoCategory}
    BY DEF SkillsInv, SkillsTypeOK, SkillsAsAsked, Known
  <1>3. ASSUME NEW r \in Curators, AssignSave(r)
        PROVE  SkillsInv'
    <2>1. PICK k \in SUBSET Skills : /\ k = curating[r].skills /\ Known(k)
                                     /\ list' = list \cup k /\ Asked(r, AddTo(asked, k))
      BY <1>2, <1>3 DEF AssignSave, Commit, Curating
    <2>2. asked' = Unknown \/ asked' = list'
      BY <1>2, <2>1 DEF Asked, AddTo
    <2>3. QED
      BY <1>2, <1>3, <2>1, <2>2, CommitKeepsSkills DEF AssignSave, Commit
  <1>4. ASSUME NEW r \in Curators, RemoveDelete(r)
        PROVE  SkillsInv'
    <2>1. asked' = Unknown \/ asked' = list'
      BY <1>2, <1>4 DEF RemoveDelete, Commit, Asked, DropFrom
    <2>2. QED
      BY <1>2, <1>4, <2>1, CommitKeepsSkills DEF RemoveDelete, Commit
  <1>5. ASSUME NEW r \in Curators, SyncDelete(r)
        PROVE  SkillsInv'
    <2>1. /\ curating[r].at = "sync_delete" /\ UNCHANGED <<categories, category, list, asked>>
          /\ curating' = [curating EXCEPT ![r].at = "sync_insert", ![r].found = list \ curating[r].skills]
      BY <1>5 DEF SyncDelete
    <2>2. /\ curating' \in [Curators -> Curating] /\ \A q \in Curators \ {r} : curating'[q] = curating[q]
          /\ curating'[r].at = "sync_insert" /\ curating'[r].found = list \ curating[r].skills
          /\ curating'[r].skills = curating[r].skills /\ curating'[r].alone = curating[r].alone
      BY <1>2, <2>1 DEF SkillsInv, SkillsTypeOK, Curating
    <2>3. list \ curating'[r].found \subseteq curating'[r].skills
      BY <2>2
    <2>4. QED
      BY <2>1, <2>2, <2>3 DEF SkillsInv, SkillsTypeOK, SkillsAsAsked
  <1>6. ASSUME NEW r \in Curators, SyncInsert(r)
        PROVE  SkillsInv'
    <2>1. PICK skills \in SUBSET Skills :
            /\ skills = curating[r].skills /\ Known(skills) /\ curating[r].at = "sync_insert"
            /\ list' = (list \ curating[r].found) \cup skills /\ Asked(r, skills)
      BY <1>2, <1>6 DEF SyncInsert, Commit, Curating
    <2>2. asked' = Unknown \/ asked' = list'
      BY <2>1 DEF Asked, SkillsInv
    <2>3. QED
      BY <1>2, <1>6, <2>1, <2>2, CommitKeepsSkills DEF SyncInsert, Commit
  <1>7. ASSUME NEW r \in Curators, FailCurate(r)
        PROVE  SkillsInv'
    BY <1>2, <1>7, CommitKeepsSkills DEF FailCurate
  <1>8. QED
    BY <1>1, <1>3, <1>4, <1>5, <1>6, <1>7, CatalogueKeepsSkills DEF NextSkill, CurateStep

\* The invariant of the skills holds in every reachable state.
LEMMA SkillsInvariant == Spec => []SkillsInv
  <1>1. Init => SkillsInv
    BY DEF Init, SkillsInit, SkillsInv, SkillsTypeOK, SkillsAsAsked, CuratingIdle, Curating
  <1>2. SkillsInv /\ [Next]_recordVars => SkillsInv'
    <2>1. UNCHANGED skillVars /\ SkillsInv => SkillsInv'
      BY DEF skillVars, SkillsInv, SkillsTypeOK, SkillsAsAsked
    <2>2. [Next]_recordVars => NextSkill \/ UNCHANGED skillVars
      BY DEF Next, recordVars, NextPicture, NextImport, NextEntry, NextMessage, NextRecord, skillVars
    <2>3. QED
      BY <2>1, <2>2, SkillsInductive
  <1>3. QED
    BY <1>1, <1>2, PTL DEF Spec

\* The candidate has the skills last asked for, less those of deleted categories, unless
\* requests have overlapped: a sync that fails half-way leaves the old list, whole.
THEOREM SkillsStayAsAsked == Spec => []SkillsAsAsked
  BY SkillsInvariant, PTL DEF SkillsInv

----------------------------------------------------------------------------
(* Messages *)

SenderMoves(r, local) ==
  /\ sending' \in [Senders -> Sending] /\ sending'[r] = local
  /\ \A q \in Senders \ {r} : sending'[q] = sending[q]
  /\ \A p \in Partners, o \in Offers :
       About(p, o)' \ {r} = About(p, o) \ {r} /\ (r \in About(p, o)' <=> local.to = p /\ local.offer = o)

\* A request goes on, or is over.
LEMMA SendersMove ==
  ASSUME MessagesInv, NEW r \in Senders, NEW local \in Sending,
         sending' = [sending EXCEPT ![r] = local]
  PROVE  SenderMoves(r, local)
  <1>1. /\ sending' \in [Senders -> Sending] /\ sending'[r] = local
        /\ \A q \in Senders \ {r} : sending'[q] = sending[q]
    BY DEF MessagesInv, TalkTypeOK
  <1>2. ASSUME NEW p \in Partners, NEW o \in Offers
        PROVE  About(p, o)' \ {r} = About(p, o) \ {r} /\ (r \in About(p, o)' <=> local.to = p /\ local.offer = o)
    BY <1>1 DEF About
  <1>3. QED
    BY <1>1, <1>2 DEF SenderMoves

\* What a request still knows when nothing is taken away.
LEMMA MessagesKept ==
  ASSUME MessagesInv, NEW r \in Senders, NEW local \in Sending, SendingLocals(local)',
         sending' = [sending EXCEPT ![r] = local],
         conversation \subseteq conversation', conversation' \in SUBSET Partners,
         proposals' \in [Partners \X Offers -> 0..MaxProposals],
         repeated \subseteq repeated', repeated' \in SUBSET (Partners \X Offers),
         \A p \in Partners, o \in Offers :
           \/ proposals'[<<p, o>>] = proposals[<<p, o>>]
           \/ /\ r \in About(p, o) /\ sending[r].at = "message_insert"
              /\ proposals'[<<p, o>>] = proposals[<<p, o>>] + 1 /\ local = SendingIdle,
         \A p \in Partners, o \in Offers : local.to = p /\ local.offer = o /\ <<p, o>> \notin repeated' =>
           /\ About(p, o) \subseteq {r}
           /\ local.at = "message_insert" => proposals[<<p, o>>] = 0
  PROVE  MessagesInv'
  <1>0. SenderMoves(r, local)
    BY SendersMove
  <1>1. /\ sending' \in [Senders -> Sending] /\ sending'[r] = local
        /\ \A q \in Senders \ {r} : sending'[q] = sending[q]
        /\ \A p \in Partners, o \in Offers :
             About(p, o)' \ {r} = About(p, o) \ {r} /\ (r \in About(p, o)' <=> local.to = p /\ local.offer = o)
    BY <1>0 DEF SenderMoves
  <1>2. \A q \in Senders : SendingLocals(sending[q])'
    BY <1>1 DEF MessagesInv, SendingLocals
  <1>3. SendingIdle.to \notin Partners
    BY ConversationsAssumption DEF SendingIdle
  <1>4. ASSUME NEW p \in Partners, NEW o \in Offers
        PROVE  /\ proposals'[<<p, o>>] > 1 => <<p, o>> \in repeated'
               /\ proposals'[<<p, o>>] > 0 => p \in conversation'
               /\ <<p, o>> \notin repeated' =>
                    /\ \A q, s \in About(p, o)' : q = s
                    /\ \A q \in About(p, o)' : sending'[q].at = "message_insert" => proposals'[<<p, o>>] = 0
    <2>1. /\ proposals[<<p, o>>] \in Nat /\ proposals[<<p, o>>] > 1 => <<p, o>> \in repeated
          /\ proposals[<<p, o>>] > 0 => p \in conversation
      BY DEF MessagesInv, TalkTypeOK, ProposedOnce
    <2>2. <<p, o>> \notin repeated => /\ \A q, s \in About(p, o) : q = s
                                      /\ \A q \in About(p, o) : sending[q].at = "message_insert" => proposals[<<p, o>>] = 0
      BY DEF MessagesInv
    <2>3. CASE proposals'[<<p, o>>] = proposals[<<p, o>>]
      <3>1. About(p, o) \subseteq Senders /\ About(p, o)' \subseteq Senders
        BY DEF About
      <3>2. <<p, o>> \notin repeated' => \A q, s \in About(p, o)' : q = s
        BY <1>1, <2>2, <3>1
      <3>3. <<p, o>> \notin repeated' =>
              \A q \in About(p, o)' : sending'[q].at = "message_insert" => proposals[<<p, o>>] = 0
        BY <1>1, <2>2, <3>1
      <3>4. QED
        BY <2>1, <2>3, <3>2, <3>3
    <2>4. CASE /\ r \in About(p, o) /\ sending[r].at = "message_insert"
               /\ proposals'[<<p, o>>] = proposals[<<p, o>>] + 1 /\ local = SendingIdle
      <3>1. p \in conversation
        BY <2>4 DEF MessagesInv, SendingLocals, About
      <3>2. <<p, o>> \notin repeated' => About(p, o)' = {} /\ proposals[<<p, o>>] = 0
        <4>1. r \notin About(p, o)'
          BY <1>1, <1>3, <2>4
        <4>2. QED
          BY <1>1, <2>2, <2>4, <4>1
      <3>3. QED
        BY <2>1, <2>4, <3>1, <3>2
    <2>5. QED
      BY <2>3, <2>4
  <1>5. TalkTypeOK'
    BY <1>1 DEF TalkTypeOK
  <1>6. QED
    BY <1>2, <1>4, <1>5 DEF MessagesInv, ProposedOnce

\* A job is proposed once, if two calls do not overlap.
LEMMA MessagesInductive ==
  ASSUME MessagesInv, NextMessage
  PROVE  MessagesInv'
  <1>1. /\ conversation \in SUBSET Partners /\ proposals \in [Partners \X Offers -> 0..MaxProposals]
        /\ repeated \in SUBSET (Partners \X Offers) /\ sending \in [Senders -> Sending]
    BY DEF MessagesInv, TalkTypeOK
  <1>2. SendingIdle \in Sending /\ SendingIdle.at = "idle" /\ SendingIdle.to \notin Partners /\ SendingLocals(SendingIdle)'
    BY ConversationsAssumption DEF SendingIdle, Sending, SendingLocals
  <1>3. ASSUME NEW r \in Senders, NEW p \in Partners, NEW o \in Offers \cup {NoOffer}, ConversationFind(r, p, o)
        PROVE  MessagesInv'
    <2>0. PICK local \in Sending :
            local = [at |-> IF p \in conversation THEN "proposal_exist" ELSE "conversation_insert",
                     to |-> p, offer |-> o]
      <3>1. [at |-> IF p \in conversation THEN "proposal_exist" ELSE "conversation_insert",
             to |-> p, offer |-> o] \in Sending
        BY DEF Sending
      <3>2. QED
        BY <3>1
    <2>1. /\ sending' = [sending EXCEPT ![r] = local] /\ UNCHANGED <<conversation, proposals>>
          /\ repeated' = IF \E q \in Senders : sending[q].to = p /\ sending[q].offer = o /\ o # NoOffer
                         THEN repeated \cup {<<p, o>>} ELSE repeated
      BY <1>3, <2>0 DEF ConversationFind
    <2>2. /\ local.to = p /\ local.offer = o
          /\ local.at \in {"proposal_exist", "conversation_insert"}
          /\ local.at = "proposal_exist" => p \in conversation
      BY <2>0
    <2>3. SendingLocals(local)'
      BY <2>1, <2>2 DEF SendingLocals
    <2>4. repeated \subseteq repeated' /\ repeated' \in SUBSET (Partners \X Offers)
      BY <1>1, <2>1
    <2>5. o \in Offers /\ <<p, o>> \notin repeated' => About(p, o) = {}
      BY <2>1, ConversationsAssumption DEF About
    <2>6. \A d \in Partners, j \in Offers : local.to = d /\ local.offer = j /\ <<d, j>> \notin repeated' =>
            About(d, j) \subseteq {r} /\ (local.at = "message_insert" => proposals[<<d, j>>] = 0)
      BY <2>2, <2>5
    <2>7. QED
      BY <1>1, <2>1, <2>2, <2>3, <2>4, <2>6, MessagesKept
  <1>4. ASSUME NEW r \in Senders, NEW p \in Partners, NEW o \in Offers \cup {NoOffer}, SendProposal(r, p, o)
        PROVE  MessagesInv'
    <2> DEFINE local == [at |-> "message_insert", to |-> p, offer |-> o]
    <2>1. /\ sending' = [sending EXCEPT ![r] = local] /\ UNCHANGED <<conversation, proposals>>
          /\ repeated' = repeated \cup {<<p, o>>} /\ p \in conversation /\ o \in Offers
      BY <1>4 DEF SendProposal
    <2>2. local \in Sending /\ local.to = p /\ local.offer = o /\ SendingLocals(local)'
      BY <2>1 DEF Sending, SendingLocals
    <2> HIDE DEF local
    <2>3. QED
      BY <1>1, <2>1, <2>2, MessagesKept
  <1>5. ASSUME NEW r \in Senders, sending[r].at # "idle"
        PROVE  /\ sending[r] \in Sending /\ sending[r].to \in Partners
               /\ \A label \in {"proposal_exist", "message_insert"} :
                    LET new == [sending[r] EXCEPT !.at = label] IN
                    /\ new \in Sending /\ new.at = label /\ new.to = sending[r].to
                    /\ new.offer = sending[r].offer
               /\ \A p \in Partners, o \in Offers :
                    sending[r].to = p /\ sending[r].offer = o /\ <<p, o>> \notin repeated => About(p, o) \subseteq {r}
    <2>1. sending[r] \in Sending /\ sending[r].to \in Partners
      BY <1>1, <1>5 DEF MessagesInv, SendingLocals
    <2>2. ASSUME NEW label \in {"proposal_exist", "message_insert"}
          PROVE  LET new == [sending[r] EXCEPT !.at = label] IN
                 new \in Sending /\ new.at = label /\ new.to = sending[r].to /\ new.offer = sending[r].offer
      BY <2>1 DEF Sending
    <2>3. ASSUME NEW p \in Partners, NEW o \in Offers,
                 sending[r].to = p, sending[r].offer = o, <<p, o>> \notin repeated
          PROVE  About(p, o) \subseteq {r}
      <3>1. r \in About(p, o)
        BY <2>3 DEF About
      <3>2. \A s, q \in About(p, o) : s = q
        BY <2>3 DEF MessagesInv
      <3>3. QED
        BY <3>1, <3>2
    <2>4. QED
      BY <2>1, <2>2, <2>3
  <1>6. ASSUME NEW r \in Senders, ConversationInsert(r)
        PROVE  MessagesInv'
    <2>0. sending[r].at # "idle"
      BY <1>6 DEF ConversationInsert
    <2>1. PICK local \in Sending :
            /\ local = [sending[r] EXCEPT !.at = "proposal_exist"] /\ local.at = "proposal_exist"
            /\ local.to = sending[r].to /\ local.offer = sending[r].offer
      BY <1>5, <2>0
    <2>2. /\ sending' = [sending EXCEPT ![r] = local] /\ sending[r].to \in Partners
          /\ conversation' = conversation \cup {sending[r].to} /\ UNCHANGED <<proposals, repeated>>
      BY <1>5, <1>6, <2>0, <2>1 DEF ConversationInsert, GoOn
    <2>3. SendingLocals(local)'
      BY <2>1, <2>2 DEF SendingLocals
    <2>4. \A p \in Partners, o \in Offers : local.to = p /\ local.offer = o /\ <<p, o>> \notin repeated =>
            About(p, o) \subseteq {r} /\ local.at # "message_insert"
      BY <1>5, <2>0, <2>1
    <2>5. QED
      BY <1>1, <2>1, <2>2, <2>3, <2>4, MessagesKept
  <1>7. ASSUME NEW r \in Senders, sending[r].at # "idle", sending' = [sending EXCEPT ![r] = SendingIdle],
               UNCHANGED <<conversation, proposals, repeated>>
        PROVE  MessagesInv'
    BY <1>1, <1>2, <1>7, MessagesKept
  <1>8. ASSUME NEW r \in Senders, ProposalExist(r)
        PROVE  MessagesInv'
    <2>1. sending[r].at = "proposal_exist" /\ UNCHANGED <<conversation, proposals, repeated>>
          /\ sending[r].to \in conversation /\ sending[r].to \in Partners
      BY <1>5, <1>8 DEF ProposalExist, MessagesInv, SendingLocals
    <2>2. CASE Sent(r)
      BY <1>7, <2>1, <2>2 DEF Sent
    <2>3. CASE ~Sent(r)
      <3>0. PICK local \in Sending :
              /\ local = [sending[r] EXCEPT !.at = "message_insert"] /\ local.at = "message_insert"
              /\ local.to = sending[r].to /\ local.offer = sending[r].offer
        BY <1>5, <2>1
      <3>1. /\ sending' = [sending EXCEPT ![r] = local] /\ sending[r].offer # NoOffer
            /\ ~(proposals[<<sending[r].to, sending[r].offer>>] > 0)
        BY <1>8, <2>3, <3>0 DEF ProposalExist, GoOn
      <3>2. sending[r].offer \in Offers
        BY <1>5, <2>1, <3>1 DEF Sending
      <3>3. SendingLocals(local)'
        BY <2>1, <3>0, <3>2 DEF SendingLocals
      <3>4. proposals[<<sending[r].to, sending[r].offer>>] = 0
        <4>1. proposals[<<sending[r].to, sending[r].offer>>] \in 0..MaxProposals
          BY <1>1, <2>1, <3>2
        <4>2. QED
          BY <3>1, <4>1, ConversationsAssumption
      <3>5. UNCHANGED <<conversation, proposals, repeated>>
        BY <2>1
      <3>6. \A p \in Partners, o \in Offers : local.to = p /\ local.offer = o /\ <<p, o>> \notin repeated' =>
              About(p, o) \subseteq {r} /\ (local.at = "message_insert" => proposals[<<p, o>>] = 0)
        BY <1>5, <2>1, <3>0, <3>4
      <3>7. QED
        BY <1>1, <3>1, <3>3, <3>5, <3>6, MessagesKept
    <2>4. QED
      BY <2>2, <2>3
  <1>9. ASSUME NEW r \in Senders, MessageInsert(r)
        PROVE  MessagesInv'
    <2>1. PICK p \in Partners, o \in Offers :
            /\ p = sending[r].to /\ o = sending[r].offer /\ sending[r].at = "message_insert"
            /\ proposals[<<p, o>>] < MaxProposals
            /\ proposals' = [proposals EXCEPT ![<<p, o>>] = proposals[<<p, o>>] + 1]
            /\ sending' = [sending EXCEPT ![r] = SendingIdle] /\ UNCHANGED <<conversation, repeated>>
      BY <1>9 DEF MessageInsert, Sent, MessagesInv, SendingLocals
    <2>2. proposals[<<p, o>>] \in 0..MaxProposals /\ <<p, o>> \in Partners \X Offers
      BY <1>1
    <2>3. proposals[<<p, o>>] + 1 \in 0..MaxProposals
      BY <2>1, <2>2, ConversationsAssumption
    <2>4. proposals' \in [Partners \X Offers -> 0..MaxProposals]
      BY <1>1, <2>1, <2>3
    <2>5. ASSUME NEW d \in Partners, NEW j \in Offers
          PROVE  \/ proposals'[<<d, j>>] = proposals[<<d, j>>]
                 \/ r \in About(d, j) /\ proposals'[<<d, j>>] = proposals[<<d, j>>] + 1
      BY <1>1, <2>1 DEF About
    <2>6. QED
      BY <1>1, <1>2, <2>1, <2>4, <2>5, MessagesKept
  <1>10. ASSUME NEW r \in Senders, FailSend(r)
         PROVE  MessagesInv'
    BY <1>7, <1>10 DEF FailSend, Sent
  <1>11. QED
    BY <1>3, <1>4, <1>6, <1>8, <1>9, <1>10 DEF NextMessage, MessageRoutes, SendStep

\* The invariant of the messages holds in every reachable state.
LEMMA MessagesInvariant == Spec => []MessagesInv
  <1>1. Init => MessagesInv
    <2> SUFFICES ASSUME Init
                 PROVE  MessagesInv
      OBVIOUS
    <2>1. /\ conversation = {} /\ repeated = {} /\ \A r \in Senders : sending[r] = SendingIdle
          /\ \A p \in Partners, o \in Offers : proposals[<<p, o>>] = 0
          /\ TalkTypeOK
      BY ConversationsAssumption DEF Init, TalkInit, TalkTypeOK, SendingIdle, Sending
    <2>2. \A p \in Partners, o \in Offers : About(p, o) = {}
      BY <2>1, ConversationsAssumption DEF About, SendingIdle
    <2>3. QED
      BY <2>1, <2>2 DEF MessagesInv, ProposedOnce, SendingLocals, SendingIdle
  <1>2. MessagesInv /\ [Next]_recordVars => MessagesInv'
    <2>1. UNCHANGED talkVars /\ MessagesInv => MessagesInv'
      BY DEF talkVars, MessagesInv, TalkTypeOK, ProposedOnce, SendingLocals, About
    <2>2. [Next]_recordVars => NextMessage \/ UNCHANGED talkVars
      BY DEF Next, recordVars, NextPicture, NextImport, NextEntry, NextSkill, NextRecord, talkVars
    <2>3. QED
      BY <2>1, <2>2, MessagesInductive
  <1>3. QED
    BY <1>1, <1>2, PTL DEF Spec

\* A job is proposed once to a candidate, and in a conversation, however often create is called
\* or tried again, unless two calls overlapped or the proposal was sent as a message.
THEOREM JobsAreProposedOnce == Spec => []ProposedOnce
  BY MessagesInvariant, PTL DEF MessagesInv

----------------------------------------------------------------------------
(* Records *)

\* A request of the staff goes on to write, or is over.
LEMMA NotesMove ==
  ASSUME NotesInv, NEW r \in Recorders, NEW local \in Noting,
         noting' = [noting EXCEPT ![r] = local], UNCHANGED employee,
         overtaken' \in SUBSET Recorders, overtaken \ {r} \subseteq overtaken',
         NotingKnows(r)',
         interview' \in [Interviews -> Interview \cup {Nobody}], score' \in [Received -> Staff \cup {Nobody}],
         \A i \in Interviews : interview'[i] # Nobody =>
           interview'[i].company = EmployerOf[interview'[i].application],
         \A i \in Interviews : interview[i] # Nobody =>
           interview'[i] # Nobody /\ interview'[i].company = interview[i].company
  PROVE  NotesInv'
  <1>1. /\ noting' \in [Recorders -> Noting] /\ \A q \in Recorders \ {r} : noting'[q] = noting[q]
    BY DEF NotesInv, RecordsTypeOK
  <1>2. ASSUME NEW q \in Recorders, q # r
        PROVE  NotingKnows(q)'
    BY <1>1, <1>2 DEF NotesInv, NotingKnows, StillStaff
  <1>3. QED
    BY <1>1, <1>2 DEF NotesInv, RecordsTypeOK

\* Requests know that the user was on the staff when they looked.
LEMMA NotesInductive ==
  ASSUME NotesInv, NextRecord
  PROVE  NotesInv'
  <1>1. /\ employee \in [Employers -> SUBSET Staff] /\ interview \in [Interviews -> Interview \cup {Nobody}]
        /\ score \in [Received -> Staff \cup {Nobody}] /\ noting \in [Recorders -> Noting]
        /\ overtaken \in SUBSET Recorders
    BY DEF NotesInv, RecordsTypeOK
  <1>2. /\ NotingIdle \in Noting /\ NotingIdle.at = "idle"
        /\ \A r \in Recorders : noting'[r] = NotingIdle => NotingKnows(r)'
    BY DEF NotingIdle, Noting, NotingKnows
  <1>3. ASSUME NEW u \in Staff, NEW k \in Employers, JoinsStaff(u, k)
        PROVE  NotesInv'
    <2>1. /\ employee' \in [Employers -> SUBSET Staff] /\ \A c \in Employers : employee[c] \subseteq employee'[c]
          /\ UNCHANGED <<interview, score, noting, overtaken>>
      BY <1>1, <1>3 DEF JoinsStaff
    <2>2. ASSUME NEW r \in Recorders, NEW c \in Employers, StillStaff(r, c)
          PROVE  StillStaff(r, c)'
      BY <2>1, <2>2 DEF StillStaff
    <2>3. ASSUME NEW r \in Recorders
          PROVE  NotingKnows(r)'
      BY <1>1, <2>1, <2>2, RecordsAssumption DEF NotesInv, NotingKnows, Interview, StillStaff
    <2>4. QED
      BY <2>1, <2>3 DEF NotesInv, RecordsTypeOK
  <1>4. ASSUME NEW u \in Staff, NEW k \in Employers, LeavesStaff(u, k)
        PROVE  NotesInv'
    <2>1. /\ employee' \in [Employers -> SUBSET Staff]
          /\ \A c \in Employers : employee[c] \ {u} \subseteq employee'[c]
          /\ UNCHANGED <<interview, score, noting>>
          /\ overtaken' = overtaken \cup {r \in Recorders : noting[r].user = u}
      BY <1>1, <1>4 DEF LeavesStaff
    <2>2. ASSUME NEW r \in Recorders, NEW c \in Employers, StillStaff(r, c)
          PROVE  StillStaff(r, c)'
      BY <2>1, <2>2 DEF StillStaff
    <2>3. ASSUME NEW r \in Recorders
          PROVE  NotingKnows(r)'
      BY <1>1, <2>1, <2>2, RecordsAssumption DEF NotesInv, NotingKnows, Interview, StillStaff
    <2>4. QED
      BY <1>1, <2>1, <2>3 DEF NotesInv, RecordsTypeOK
  <1>5. ASSUME NEW r \in Recorders, NEW local \in Noting, Note(r, local), NotingKnows(r)'
        PROVE  NotesInv'
    BY <1>1, <1>5, NotesMove DEF Note, NotesInv
  <1>6. ASSUME NEW r \in Recorders, NEW u \in Staff, InterviewRoute(r, u)
        PROVE  NotesInv'
    <2>1. PICK a \in Received, k \in Employers : CreateInterview(r, u, a, k)
      BY <1>6 DEF InterviewRoute
    <2> DEFINE local == [NotingIdle EXCEPT !.at = "interview_insert", !.user = u, !.application = a, !.company = k]
    <2>2. EmployerOf[a] = k /\ u \in employee[k] /\ Note(r, local)
      BY <2>1 DEF CreateInterview, CreateInterviewUnchecked, Access
    <2>3. /\ local \in Noting /\ local.at = "interview_insert" /\ local.user = u /\ local.application = a
          /\ local.company = k
      BY DEF NotingIdle, Noting
    <2> HIDE DEF local
    <2>4. noting'[r] = local /\ UNCHANGED <<employee, interview, overtaken>>
      BY <1>1, <2>2 DEF Note
    <2>5. NotingKnows(r)'
      BY <2>2, <2>3, <2>4 DEF NotingKnows, StillStaff
    <2>6. QED
      BY <1>5, <2>2, <2>3, <2>5
  <1>7. ASSUME NEW r \in Recorders, NEW u \in Staff, FeedbackRoute(r, u)
        PROVE  NotesInv'
    <2>1. PICK i \in Interviews : AddFeedback(r, u, i)
      BY <1>7 DEF FeedbackRoute
    <2> DEFINE local == [NotingIdle EXCEPT !.at = "feedback_update", !.user = u, !.interview = i]
    <2>2. interview[i] # Nobody /\ u \in employee[interview[i].company] /\ Note(r, local)
      BY <2>1 DEF AddFeedback, Access
    <2>3. local \in Noting /\ local.at = "feedback_update" /\ local.user = u /\ local.interview = i
      BY DEF NotingIdle, Noting
    <2> HIDE DEF local
    <2>4. noting'[r] = local /\ UNCHANGED <<employee, interview, overtaken>>
      BY <1>1, <2>2 DEF Note
    <2>5. NotingKnows(r)'
      BY <2>2, <2>3, <2>4 DEF NotingKnows, StillStaff
    <2>6. QED
      BY <1>5, <2>2, <2>3, <2>5
  <1>8. ASSUME NEW r \in Recorders, NEW u \in Staff, ScoreRoute(r, u)
        PROVE  NotesInv'
    <2>1. PICK a \in Received : UpdateScore(r, u, a)
      BY <1>8 DEF ScoreRoute
    <2> DEFINE local == [NotingIdle EXCEPT !.at = "score_update", !.user = u, !.application = a]
    <2>2. u \in employee[EmployerOf[a]] /\ Note(r, local)
      BY <2>1 DEF UpdateScore, Access
    <2>3. local \in Noting /\ local.at = "score_update" /\ local.user = u /\ local.application = a
      BY DEF NotingIdle, Noting
    <2> HIDE DEF local
    <2>4. noting'[r] = local /\ UNCHANGED <<employee, interview, overtaken>>
      BY <1>1, <2>2 DEF Note
    <2>5. NotingKnows(r)'
      BY <2>2, <2>3, <2>4 DEF NotingKnows, StillStaff
    <2>6. QED
      BY <1>5, <2>2, <2>3, <2>5
  <1>9. ASSUME NEW r \in Recorders, Noted(r)
        PROVE  /\ noting' = [noting EXCEPT ![r] = NotingIdle] /\ NotingKnows(r)'
               /\ overtaken' \in SUBSET Recorders /\ overtaken \ {r} \subseteq overtaken'
    BY <1>1, <1>2, <1>9 DEF Noted
  <1>10. ASSUME NEW r \in Recorders, NEW i \in Interviews, InterviewInsert(r, i)
         PROVE  NotesInv'
    <2> DEFINE row == [application |-> noting[r].application, company |-> noting[r].company,
                       by |-> noting[r].user, feedback |-> Nobody]
    <2>1. /\ noting[r].at = "interview_insert" /\ interview[i] = Nobody /\ Noted(r)
          /\ interview' = [interview EXCEPT ![i] = row] /\ UNCHANGED <<employee, score>>
      BY <1>10 DEF InterviewInsert
    <2>2. /\ noting[r].user \in Staff /\ noting[r].application \in Received
          /\ noting[r].company = EmployerOf[noting[r].application]
      BY <2>1 DEF NotesInv, NotingKnows
    <2>3. row \in Interview /\ row.company = EmployerOf[row.application] /\ row # Nobody
      BY <2>2, RecordsAssumption DEF Interview
    <2> HIDE DEF row
    <2>4. /\ interview' \in [Interviews -> Interview \cup {Nobody}] /\ interview'[i] = row
          /\ \A j \in Interviews \ {i} : interview'[j] = interview[j]
      BY <1>1, <2>1, <2>3
    <2>5. \A j \in Interviews : interview'[j] # Nobody =>
            interview'[j].company = EmployerOf[interview'[j].application]
      BY <2>3, <2>4 DEF NotesInv
    <2>6. QED
      BY <1>1, <1>2, <1>9, <2>1, <2>4, <2>5, NotesMove
  <1>11. ASSUME NEW r \in Recorders, FeedbackUpdate(r)
         PROVE  NotesInv'
    <2>1. PICK i \in Interviews, u \in Staff :
            /\ i = noting[r].interview /\ u = noting[r].user /\ interview[i] # Nobody
            /\ interview' = [interview EXCEPT ![i].feedback = u]
            /\ Noted(r) /\ UNCHANGED <<employee, score>>
      BY <1>11 DEF FeedbackUpdate, NotesInv, NotingKnows
    <2>2. interview[i] \in Interview
      BY <1>1, <2>1
    <2>3. /\ interview' \in [Interviews -> Interview \cup {Nobody}]
          /\ \A j \in Interviews : interview[j] # Nobody =>
               interview'[j] # Nobody /\ interview'[j].company = interview[j].company
               /\ interview'[j].application = interview[j].application
          /\ \A j \in Interviews : interview[j] = Nobody => interview'[j] = Nobody
      <3>1. /\ [interview[i] EXCEPT !.feedback = u] \in Interview
            /\ [interview[i] EXCEPT !.feedback = u].company = interview[i].company
            /\ [interview[i] EXCEPT !.feedback = u].application = interview[i].application
        BY <2>2 DEF Interview
      <3>2. /\ interview'[i] = [interview[i] EXCEPT !.feedback = u]
            /\ \A j \in Interviews \ {i} : interview'[j] = interview[j]
            /\ DOMAIN interview' = Interviews
        BY <1>1, <2>1
      <3>3. Nobody \notin Interview
        BY RecordsAssumption DEF Interview
      <3>4. interview' \in [Interviews -> Interview \cup {Nobody}]
        BY <1>1, <2>1, <3>1
      <3>5. QED
        BY <2>1, <3>1, <3>2, <3>3, <3>4
    <2>4. \A j \in Interviews : interview'[j] # Nobody =>
            interview'[j].company = EmployerOf[interview'[j].application]
      BY <2>3 DEF NotesInv
    <2>5. QED
      BY <1>1, <1>2, <1>9, <2>1, <2>3, <2>4, NotesMove
  <1>12. ASSUME NEW r \in Recorders, ScoreUpdate(r)
         PROVE  NotesInv'
    <2>1. /\ noting[r].user \in Staff /\ score' = [score EXCEPT ![noting[r].application] = noting[r].user]
          /\ Noted(r) /\ UNCHANGED <<employee, interview>>
      BY <1>12 DEF ScoreUpdate, NotesInv, NotingKnows
    <2>2. score' \in [Received -> Staff \cup {Nobody}]
      BY <1>1, <2>1
    <2>3. QED
      BY <1>1, <1>2, <1>9, <2>1, <2>2, NotesMove DEF NotesInv
  <1>13. ASSUME NEW r \in Recorders, FailNote(r)
         PROVE  NotesInv'
    BY <1>1, <1>2, <1>9, <1>13, NotesMove DEF FailNote, NotesInv
  <1>14. QED
    BY <1>3, <1>4, <1>6, <1>7, <1>8, <1>10, <1>11, <1>12, <1>13 DEF NextRecord, MembershipStep, NoteStep

\* The invariant of the records holds in every reachable state.
LEMMA NotesInvariant == Spec => []NotesInv
  <1>1. Init => NotesInv
    BY RecordsAssumption DEF Init, RecordsInit, NotesInv, RecordsTypeOK, NotingKnows, NotingIdle, Noting
  <1>2. NotesInv /\ [Next]_recordVars => NotesInv'
    <2>1. UNCHANGED notedVars /\ NotesInv => NotesInv'
      BY DEF notedVars, NotesInv, RecordsTypeOK, NotingKnows, StillStaff
    <2>2. [Next]_recordVars => NextRecord \/ UNCHANGED notedVars
      BY DEF Next, recordVars, NextPicture, NextImport, NextEntry, NextSkill, NextMessage, notedVars
    <2>3. QED
      BY <2>1, <2>2, NotesInductive
  <1>3. QED
    BY <1>1, <1>2, PTL DEF Spec

\* Interviews, feedback and scores are put on record by the staff of the company the application
\* was sent to, or for a request whose user has left the staff since it looked.
THEOREM StaffKeepsRecords == Spec => RecordedByStaff
  <1> DEFINE A == /\ \A i \in Interviews : interview'[i] # interview[i] =>
                       Entitled(IF interview[i] = Nobody THEN interview'[i].by ELSE interview'[i].feedback,
                                interview'[i].application)
                  /\ \A a \in Received : score'[a] # score[a] => Entitled(score'[a], a)
  <1>1. NotesInv /\ [Next]_recordVars => [A]_notedVars
    <2> SUFFICES ASSUME NotesInv, NextRecord
                 PROVE  A
      BY DEF Next, recordVars, NextPicture, NextImport, NextEntry, NextSkill, NextMessage, notedVars
    <2>1. /\ interview \in [Interviews -> Interview \cup {Nobody}] /\ score \in [Received -> Staff \cup {Nobody}]
          /\ \A i \in Interviews : interview[i] # Nobody =>
               interview[i].company = EmployerOf[interview[i].application]
      BY DEF NotesInv, RecordsTypeOK
    <2>2. ASSUME NEW r \in Recorders, NEW a \in Received, StillStaff(r, EmployerOf[a])
          PROVE  Entitled(noting[r].user, a)
      BY <2>2 DEF StillStaff, Entitled
    <2>3. ASSUME NEW r \in Recorders, NEW i \in Interviews, InterviewInsert(r, i)
          PROVE  A
      <3>1. /\ interview[i] = Nobody /\ UNCHANGED score
            /\ interview' = [interview EXCEPT ![i] =
                 [application |-> noting[r].application, company |-> noting[r].company,
                  by |-> noting[r].user, feedback |-> Nobody]]
            /\ noting[r].application \in Received /\ StillStaff(r, EmployerOf[noting[r].application])
        BY <2>3 DEF InterviewInsert, NotesInv, NotingKnows
      <3>2. /\ interview'[i].by = noting[r].user /\ interview'[i].application = noting[r].application
            /\ \A j \in Interviews \ {i} : interview'[j] = interview[j]
        BY <2>1, <3>1
      <3>3. QED
        BY <2>2, <3>1, <3>2
    <2>4. ASSUME NEW r \in Recorders, FeedbackUpdate(r)
          PROVE  A
      <3>1. PICK i \in Interviews, u \in Staff :
              /\ i = noting[r].interview /\ u = noting[r].user /\ interview[i] # Nobody
              /\ interview' = [interview EXCEPT ![i].feedback = u] /\ UNCHANGED score
              /\ StillStaff(r, interview[i].company)
        BY <2>4 DEF FeedbackUpdate, NotesInv, NotingKnows
      <3>2. interview[i] \in Interview /\ interview[i].application \in Received
            /\ StillStaff(r, EmployerOf[interview[i].application])
        BY <2>1, <3>1 DEF Interview
      <3>3. [interview[i] EXCEPT !.feedback = u].feedback = u
            /\ [interview[i] EXCEPT !.feedback = u].application = interview[i].application
        BY <3>2 DEF Interview
      <3>4. /\ interview'[i] = [interview[i] EXCEPT !.feedback = u]
            /\ \A j \in Interviews \ {i} : interview'[j] = interview[j]
        BY <2>1, <3>1
      <3>5. Entitled(u, interview[i].application)
        BY <2>2, <3>1, <3>2
      <3>6. QED
        BY <3>1, <3>3, <3>4, <3>5
    <2>5. ASSUME NEW r \in Recorders, ScoreUpdate(r)
          PROVE  A
      <3>1. PICK a \in Received : /\ a = noting[r].application /\ UNCHANGED interview
                                  /\ score' = [score EXCEPT ![a] = noting[r].user]
                                  /\ StillStaff(r, EmployerOf[a])
        BY <2>5 DEF ScoreUpdate, NotesInv, NotingKnows
      <3>2. score'[a] = noting[r].user /\ \A b \in Received \ {a} : score'[b] = score[b]
        BY <2>1, <3>1
      <3>3. QED
        BY <2>2, <3>1, <3>2
    <2>6. CASE UNCHANGED <<interview, score>>
      BY <2>6
    <2>7. QED
      BY <2>3, <2>4, <2>5, <2>6 DEF NextRecord, MembershipStep, JoinsStaff, LeavesStaff, InterviewRoute,
        FeedbackRoute, ScoreRoute, CreateInterview, CreateInterviewUnchecked, AddFeedback, UpdateScore,
        Note, NoteStep, FailNote
  <1>2. QED
    BY <1>1, NotesInvariant, PTL DEF Spec, RecordedByStaff

----------------------------------------------------------------------------
(* Pictures: the steps of one request *)

\* A step of r, after which it is idle or has the locals of its await.
Moves(r) ==
  /\ req' \in [Requests -> PictureLocal] /\ \A q \in Requests \ {r} : req'[q] = req[q]
  /\ req'[r] = PictureIdle \/ HasLocals(req'[r])

\* What r is left with by a step of its own.
Turns(r, at, file, row, other, then) ==
  /\ Moves(r)
  /\ req'[r].at = at /\ req'[r].file = file /\ req'[r].row = row /\ req'[r].other = other
  /\ req'[r].then = then

IsOver(r) == Turns(r, "idle", None, None, None, "idle")

Awaits == Storing \cup {"row_save", "row_delete"} \cup Avatar \cup Deletion \cup Worker

\* Nobody is at an await without being at work.
LEMMA PictureIdleFacts ==
  /\ PictureIdle \in PictureLocal /\ ~HasLocals(PictureIdle)
  /\ PictureIdle.at = "idle" /\ PictureIdle.file = None /\ PictureIdle.row = None
  /\ PictureIdle.other = None /\ PictureIdle.then = "idle"
  /\ "idle" \notin Awaits
  BY DEF PictureIdle, PictureLocal, HasLocals, Awaits, Storing, Avatar, Deletion, Worker

\* A request is idle, or has the locals of its await.
LEMMA PictureLocalsOf ==
  ASSUME PicturesTyped, NEW r \in Requests
  PROVE  /\ req \in [Requests -> PictureLocal] /\ req[r] \in PictureLocal
         /\ At(r, "idle") => req[r] = PictureIdle
         /\ ~At(r, "idle") => HasLocals(req[r]) /\ req[r].at \in Awaits
  <1>1. req \in [Requests -> PictureLocal] /\ req[r] \in PictureLocal
    BY DEF PicturesTyped, PicturesTypeOK
  <1>2. req[r] = PictureIdle \/ HasLocals(req[r])
    BY DEF PicturesTyped
  <1>3. HasLocals(req[r]) => req[r].at \in Awaits
    BY DEF HasLocals, Awaits
  <1>4. QED
    BY <1>1, <1>2, <1>3, PictureIdleFacts DEF At

\* A request is given new locals.
LEMMA PictureTurns ==
  ASSUME PicturesTyped, NEW r \in Requests, NEW local \in PictureLocal,
         local = PictureIdle \/ HasLocals(local), req' = [req EXCEPT ![r] = local]
  PROVE  Turns(r, local.at, local.file, local.row, local.other, local.then)
  BY DEF PicturesTyped, PicturesTypeOK, Turns, Moves

\* A request that is over has no locals.
LEMMA PictureReturns ==
  ASSUME PicturesTyped, NEW r \in Requests, Goto(r, "idle")
  PROVE  IsOver(r)
  <1>1. req[r] \in PictureLocal
    BY PictureLocalsOf
  <1>2. DOMAIN req[r] = {"at", "file", "row", "other", "then"}
    BY <1>1 DEF PictureLocal
  <1>3. [k \in DOMAIN req[r] |-> IF k \in {"at", "then"} THEN "idle" ELSE None] = PictureIdle
    BY <1>2 DEF PictureIdle
  <1>4. req' = [req EXCEPT ![r] = PictureIdle]
    BY <1>3 DEF Goto
  <1>5. QED
    BY <1>4, PictureTurns, PictureIdleFacts DEF IsOver

\* A request that goes on keeps its locals.
LEMMA PictureGoesOn ==
  ASSUME PicturesTyped, NEW r \in Requests, NEW label \in Awaits, ~At(r, "idle"), Goto(r, label),
         \A local \in PictureLocal :
           /\ HasLocals(req[r]) /\ local.at = label /\ local.file = req[r].file /\ local.row = req[r].row
           /\ local.other = req[r].other /\ local.then = req[r].then
           => HasLocals(local)
  PROVE  Turns(r, label, req[r].file, req[r].row, req[r].other, req[r].then)
  <1>1. req[r] \in PictureLocal /\ HasLocals(req[r])
    BY PictureLocalsOf
  <1>2. label # "idle"
    BY PictureIdleFacts
  <1>3. label \in {"idle", "row_save", "row_delete", "avatar_previous", "avatar_set"} \cup StorageAwaits
    BY DEF Awaits, StorageAwaits, Storing, Avatar, Deletion, Worker
  <1>4. PICK local \in PictureLocal :
          /\ local = [req[r] EXCEPT !.at = label]
          /\ local.at = label /\ local.file = req[r].file /\ local.row = req[r].row
          /\ local.other = req[r].other /\ local.then = req[r].then
    <2>1. [req[r] EXCEPT !.at = label] \in PictureLocal
      BY <1>1, <1>3 DEF PictureLocal
    <2>2. QED
      BY <1>1, <2>1 DEF PictureLocal
  <1>5. req' = [req EXCEPT ![r] = local]
    BY <1>2, <1>4 DEF Goto
  <1>6. HasLocals(local)
    BY <1>1, <1>4
  <1>7. Turns(r, local.at, local.file, local.row, local.other, local.then)
    BY <1>5, <1>6, PictureTurns
  <1>8. QED
    BY <1>4, <1>7

----------------------------------------------------------------------------
(* Pictures: what a step must keep *)

\* A key that no object has had.
Fresh(f) == record[f] = None /\ f \notin object

Shows(x, f) == x \in Pictured /\ picture[x] = f

LapsedBy(r, f) == Lapsed(f) \/ (AtOne(r, Deletion) /\ req[r].file = f)

\* What rows and requests refer to is recorded, and what r puts is new.
KeepsNew(r) ==
  /\ \A f \in Files : record'[f] # record[f] => f = req[r].file /\ record'[f] # None
  /\ \A y \in Pictured : picture'[y] \in Files =>
       picture'[y] = picture[y] \/ record[picture'[y]] # None
  /\ req'[r].other \in Files => record[req'[r].other] # None
  /\ req'[r].file \in Files => (record'[req'[r].file] = None <=> req'[r].at = "insert_record")
  /\ req'[r].at = "insert_record" => \A q \in Requests \ {r} : req[q].file # req'[r].file

\* Nothing comes back to the bucket, unless a worker met the deletion.
KeepsErased(r) ==
  /\ crossed \subseteq crossed'
  /\ \A f \in object' \ object : f \in crossed' \/ record[f] = None
  /\ \A f \in object \ object' : f \in crossed' \/ Compressing(f) = {}
  /\ req'[r].at \in {"compress_put", "compress_save"} => req'[r].file \in object' \cup crossed'
  /\ req'[r].at \in Erasing => req'[r].file \notin object' \ (crossed' \cup Escaped)
  /\ \A f \in deleted' \ crossed' :
       /\ f \notin deleted => f \notin object' \ Escaped /\ Compressing(f) = {}
       /\ record'[f] = "gone"
  /\ req'[r].file \in deleted' \ crossed' =>
       req'[r].at \notin {"compress_get", "compress_put", "compress_save", "compress_failed"}
  /\ \A f \in Files : record'[f] = "gone" => f \in deleted'

\* r is about row x, or none, and writes, deletes and keeps what it has in hand or a new file.
KeepsRow(r, x) ==
  /\ x \in Pictured \cup {None} /\ req[r].row \in {None, x} /\ req'[r].row \in {None, x}
  /\ \A y \in Pictured \ {x} :
       /\ picture'[y] = picture[y] /\ (y \in reverted' <=> y \in reverted)
       /\ y \in lost => y \in lost'
  /\ pasted' = pasted
  /\ \A f \in object \ object' : Names(req[r], f)
  /\ \A f \in Files :
       Names(req'[r], f) \/ Shows(x, f)' => Names(req[r], f) \/ Shows(x, f) \/ Fresh(f)

\* What it has stored is in the bucket, and not yet shown.
KeepsStored(r, x) ==
  \A f \in Files \ pasted : Stores(req'[r], f) =>
    f \in object' /\ ~Shows(x, f)' /\ (Stores(req[r], f) \/ Fresh(f))

\* The picture of x is there, and not to be deleted: it is one that nobody else has in hand, or
\* the one that was shown.
KeepsShown(r, x) ==
  x \in Pictured \ reverted' /\ picture'[x] \in Files \ pasted' =>
    /\ \/ picture'[x] \in object' /\ \A q \in Requests \ {r} : ~Names(req[q], picture'[x])
       \/ /\ picture'[x] = picture[x] /\ x \notin reverted /\ (x \in lost => x \in lost')
          /\ picture[x] \in object \/ x \in Loses(r) =>
               picture[x] \in object' \/ x \in lost' \/ x \in Loses(r)'
    /\ req'[r].at = "url_object" => req'[r].file # picture'[x]

\* What is in the bucket is shown, stored by r or on its way out.
KeepsHeld(r, x) ==
  /\ \A f \in Files : LapsedBy(r, f) => LapsedBy(r, f)' \/ Fresh(f)
  /\ \A f \in Files : f \in object' \ object \/ Shows(x, f) \/ Stores(req[r], f) =>
       LapsedBy(r, f)' \/ Shows(x, f)' \/ Stores(req'[r], f) \/ (Away(f) /\ ~Fresh(f))
  /\ req'[r].at = "avatar_set" /\ req'[r].other # None => LapsedBy(r, req[r].file)'

Keeps(r, x) ==
  /\ Moves(r) /\ PicturesTyped'
  /\ KeepsNew(r) /\ KeepsErased(r) /\ KeepsRow(r, x)
  /\ KeepsStored(r, x) /\ KeepsShown(r, x) /\ KeepsHeld(r, x)

\* New objects stay new.
LEMMA NewFilesKept ==
  ASSUME PicturesInv, NEW r \in Requests, NEW x, Keeps(r, x)
  PROVE  FilesAreNew'
  <1>1. \A q \in Requests \ {r} : req'[q] = req[q]
    BY DEF Keeps, Moves
  <1>2. \A f \in Files : record[f] # None => record'[f] # None
    BY DEF Keeps, KeepsNew
  <1>3. \A y \in Pictured : picture'[y] \in Files => record'[picture'[y]] # None
    BY <1>2 DEF Keeps, KeepsNew, PicturesInv, FilesAreNew
  <1>4. \A q \in Requests : req'[q].other \in Files => record'[req'[q].other] # None
    BY <1>1, <1>2 DEF Keeps, KeepsNew, PicturesInv, FilesAreNew
  <1>5. ASSUME NEW q \in Requests \ {r}, req[q].file \in Files
        PROVE  record'[req[q].file] = None <=> At(q, "insert_record")
    <2>1. record[req[q].file] = None <=> At(q, "insert_record")
      BY <1>5 DEF PicturesInv, FilesAreNew
    <2>2. At(q, "insert_record") => req[r].file # req[q].file
      BY <1>5 DEF PicturesInv, FilesAreNew
    <2>3. QED
      BY <1>2, <1>5, <2>1, <2>2 DEF Keeps, KeepsNew
  <1>6. \A q \in Requests : req'[q].file \in Files =>
          (record'[req'[q].file] = None <=> req'[q].at = "insert_record")
    BY <1>1, <1>5 DEF Keeps, KeepsNew, At
  <1>7. ASSUME NEW q \in Requests, req'[q].at = "insert_record", NEW p \in Requests \ {q}
        PROVE  req'[p].file # req'[q].file
    <2>1. CASE q = r
      BY <1>1, <1>7, <2>1 DEF Keeps, KeepsNew
    <2>2. CASE q # r /\ p # r
      BY <1>1, <1>7, <2>2 DEF PicturesInv, FilesAreNew, At
    <2>3. CASE q # r /\ p = r
      <3>1. req[q].at = "insert_record" /\ req[q].file \in Files
        <4>1. req[q].at = "insert_record"
          BY <1>1, <1>7, <2>3
        <4>2. HasLocals(req[q])
          BY <4>1, PictureLocalsOf DEF PicturesInv, At
        <4>3. QED
          BY <4>1, <4>2 DEF HasLocals, Worker
      <3>2. record'[req[q].file] = None
        BY <1>5, <2>3, <3>1 DEF At
      <3>3. req'[r].file = req[q].file => req'[r].at = "insert_record"
        BY <3>1, <3>2 DEF Keeps, KeepsNew
      <3>4. req'[r].at = "insert_record" => req[q].file # req'[r].file
        BY <2>3 DEF Keeps, KeepsNew
      <3>5. QED
        BY <1>1, <2>3, <3>3, <3>4
    <2>4. QED
      BY <2>1, <2>2, <2>3
  <1>8. QED
    BY <1>3, <1>4, <1>6, <1>7 DEF FilesAreNew, At

\* Deleted files stay away.
LEMMA ErasedFilesKept ==
  ASSUME PicturesInv, NEW r \in Requests, NEW x, Keeps(r, x)
  PROVE  ErasedStayAway'
  <1>1. \A q \in Requests \ {r} : req'[q] = req[q]
    BY DEF Keeps, Moves
  <1>2. crossed \subseteq crossed' /\ \A f \in Files : record'[f] = "gone" => f \in deleted'
    BY DEF Keeps, KeepsErased
  <1>3. ASSUME NEW q \in Requests, req'[q].at \in {"compress_put", "compress_save"}
        PROVE  req'[q].file \in object' \cup crossed'
    <2>1. CASE q = r
      BY <1>3, <2>1 DEF Keeps, KeepsErased
    <2>2. CASE q # r
      <3>1. req[q].at \in {"compress_put", "compress_save"} /\ req[q].file \in object \cup crossed
        BY <1>1, <1>3, <2>2 DEF PicturesInv, ErasedStayAway, AtOne
      <3>2. q \in Compressing(req[q].file)
        BY <3>1 DEF Compressing, AtOne
      <3>3. req[q].file \in object => req[q].file \in object' \cup crossed'
        BY <3>2 DEF Keeps, KeepsErased
      <3>4. QED
        BY <1>1, <1>2, <2>2, <3>1, <3>3
    <2>3. QED
      BY <2>1, <2>2
  <1>4. ASSUME NEW q \in Requests, req'[q].at \in Erasing
        PROVE  req'[q].file \notin object' \ (crossed' \cup Escaped)
    <2>1. CASE q = r
      BY <1>4, <2>1 DEF Keeps, KeepsErased
    <2>2. CASE q # r
      <3>1. req[q].at \in Erasing /\ req[q].file \notin object \ (crossed \cup Escaped)
        BY <1>1, <1>2, <1>4, <2>2 DEF PicturesInv, ErasedStayAway, AtOne
      <3>2. req[q].file \in Files
        <4>1. HasLocals(req[q])
          BY <3>1, PictureLocalsOf DEF PicturesInv, At, Erasing, Deletion
        <4>2. QED
          BY <3>1, <4>1 DEF HasLocals, Erasing, Deletion
      <3>3. record[req[q].file] # None
        BY <3>1, <3>2 DEF PicturesInv, FilesAreNew, At, Erasing, Deletion
      <3>4. req[q].file \in object' \ object => req[q].file \in crossed'
        BY <3>3 DEF Keeps, KeepsErased
      <3>5. QED
        BY <1>1, <1>2, <2>2, <3>1, <3>4
    <2>3. QED
      BY <2>1, <2>2
  <1>5. ASSUME NEW f \in deleted' \ crossed'
        PROVE  f \notin object' \ Escaped /\ record'[f] = "gone" /\ Compressing(f)' = {}
    <2>1. record'[f] = "gone" /\ f \notin object' \ Escaped /\ Compressing(f) = {}
      <3>1. CASE f \in deleted
        <4>1. f \notin object \ Escaped /\ record[f] = "gone" /\ Compressing(f) = {}
          BY <1>2, <1>5, <3>1 DEF PicturesInv, ErasedStayAway
        <4>2. record[f] # None
          BY <4>1, NoneIsNoStatus
        <4>3. QED
          BY <1>5, <4>1, <4>2 DEF Keeps, KeepsErased
      <3>2. CASE f \notin deleted
        BY <1>5, <3>2 DEF Keeps, KeepsErased
      <3>3. QED
        BY <3>1, <3>2
    <2>2. r \notin Compressing(f)'
      BY <1>5 DEF Keeps, KeepsErased, Compressing, AtOne
    <2>3. QED
      BY <1>1, <2>1, <2>2 DEF Compressing, AtOne
  <1>6. QED
    BY <1>2, <1>3, <1>4, <1>5 DEF ErasedStayAway, AtOne

\* A key that no object has had is used by nobody.
LEMMA FreshIsUnused ==
  ASSUME PicturesInv, NEW f \in Files \ pasted, Fresh(f)
  PROVE  /\ \A y \in Pictured : ~Uses(y, f)
         /\ \A q \in Requests : ~Names(req[q], f)
  <1>1. ~Shown(f)
    BY DEF Shown, Fresh, PicturesInv, FilesAreNew
  <1>2. ASSUME NEW q \in Requests, Names(req[q], f)
        PROVE  FALSE
    <2>1. q \in Requests /\ f # req[q].other
      BY DEF Fresh, PicturesInv, FilesAreNew
    <2>2. f = req[q].file /\ At(q, "insert_record")
      BY <1>2, <2>1 DEF Names, Fresh, PicturesInv, FilesAreNew
    <2>3. Stores(req[q], f)
      BY <2>2 DEF Stores, At
    <2>4. f \in object
      BY <2>3 DEF PicturesInv, StoredStay
    <2>5. QED
      BY <2>4 DEF Fresh
  <1>3. QED
    BY <1>1, <1>2 DEF Uses, Shown

\* A file stays with its row.
LEMMA RowsKept ==
  ASSUME PicturesInv, NEW r \in Requests, NEW x, Keeps(r, x)
  PROVE  OneRowEach'
  <1>1. /\ \A q \in Requests \ {r} : req'[q] = req[q]
        /\ req[r].row \in {None, x} /\ req'[r].row \in {None, x} /\ pasted' = pasted
        /\ \A y \in Pictured \ {x} : picture'[y] = picture[y]
    BY DEF Keeps, Moves, KeepsRow
  <1>2. ASSUME NEW f \in Files, NEW y \in Pictured, Uses(y, f)'
        PROVE  Uses(y, f) \/ (Fresh(f) /\ y = x)
    <2>1. Names(req[r], f) /\ y = x => Uses(y, f)
      <3>1. ASSUME Names(req[r], f), y = x
            PROVE  req[r].row = y
        BY <1>1, <3>1 DEF Names
      <3>2. QED
        BY <3>1 DEF Uses
    <2>2. Names(req'[r], f) \/ Shows(x, f)' => Names(req[r], f) \/ Shows(x, f) \/ Fresh(f)
      BY DEF Keeps, KeepsRow
    <2>3. CASE picture'[y] = f
      <3>1. CASE y = x
        BY <2>1, <2>2, <2>3, <3>1 DEF Shows, Uses
      <3>2. CASE y # x
        BY <1>1, <2>3, <3>2 DEF Uses
      <3>3. QED
        BY <3>1, <3>2
    <2>4. CASE \E q \in Requests : req'[q].row = y /\ Names(req'[q], f)
      <3>1. PICK q \in Requests : req'[q].row = y /\ Names(req'[q], f)
        BY <2>4
      <3>2. CASE q = r
        <4>1. y = x
          BY <1>1, <3>1, <3>2 DEF Names
        <4>2. QED
          BY <2>1, <2>2, <3>1, <3>2, <4>1 DEF Shows, Uses
      <3>3. CASE q # r
        BY <1>1, <3>1, <3>3 DEF Uses
      <3>4. QED
        BY <3>2, <3>3
    <2>5. QED
      BY <1>2, <2>3, <2>4 DEF Uses
  <1>3. ASSUME NEW f \in Files \ pasted', NEW y \in Pictured, NEW z \in Pictured, Uses(y, f)', Uses(z, f)'
        PROVE  y = z
    <2>1. CASE Fresh(f)
      BY <1>1, <1>2, <1>3, <2>1, FreshIsUnused
    <2>2. CASE ~Fresh(f)
      BY <1>1, <1>2, <1>3, <2>2 DEF PicturesInv, OneRowEach
    <2>3. QED
      BY <2>1, <2>2
  <1>4. QED
    BY <1>3 DEF OneRowEach

\* What has been stored is known to nobody else.
LEMMA StoredFilesKept ==
  ASSUME PicturesInv, NEW r \in Requests, NEW x, Keeps(r, x)
  PROVE  StoredStay'
  <1>1. /\ \A q \in Requests \ {r} : req'[q] = req[q]
        /\ pasted' = pasted /\ \A y \in Pictured \ {x} : picture'[y] = picture[y]
        /\ \A f \in object \ object' : Names(req[r], f)
        /\ \A f \in Files :
             Names(req'[r], f) \/ Shows(x, f)' => Names(req[r], f) \/ Shows(x, f) \/ Fresh(f)
    BY DEF Keeps, Moves, KeepsRow
  <1>2. \A f : Shown(f)' => Shows(x, f)' \/ Shown(f)
    BY <1>1 DEF Shown, Shows
  <1>3. ASSUME NEW f \in Files \ pasted, Stores(req'[r], f)
        PROVE  f \in object' /\ ~Shown(f)' /\ \A q \in Requests \ {r} : ~Names(req'[q], f)
    <2>1. f \in object' /\ ~Shows(x, f)' /\ (Stores(req[r], f) \/ Fresh(f))
      BY <1>3 DEF Keeps, KeepsStored
    <2>2. ~Shown(f) /\ \A q \in Requests \ {r} : ~Names(req[q], f)
      <3>1. CASE Stores(req[r], f)
        BY <3>1 DEF PicturesInv, StoredStay
      <3>2. CASE Fresh(f)
        BY <3>2, FreshIsUnused DEF Shown, Uses
      <3>3. QED
        BY <2>1, <3>1, <3>2
    <2>3. QED
      BY <1>1, <1>2, <2>1, <2>2
  <1>4. ASSUME NEW p \in Requests \ {r}, NEW f \in Files \ pasted, Stores(req[p], f)
        PROVE  f \in object' /\ ~Shown(f)' /\ \A q \in Requests \ {p} : ~Names(req'[q], f)
    <2>1. f \in object /\ ~Shown(f) /\ \A q \in Requests \ {p} : ~Names(req[q], f)
      BY <1>4 DEF PicturesInv, StoredStay
    <2>2. ~Names(req[r], f) /\ ~Shows(x, f) /\ ~Fresh(f)
      BY <2>1 DEF Shown, Shows, Fresh
    <2>3. QED
      BY <1>1, <1>2, <2>1, <2>2
  <1>5. QED
    BY <1>1, <1>3, <1>4 DEF StoredStay

\* A picture that is shown is there.
LEMMA ShownFilesKept ==
  ASSUME PicturesInv, NEW r \in Requests, NEW x, Keeps(r, x)
  PROVE  ShownInv'
  <1>1. /\ \A q \in Requests \ {r} : req'[q] = req[q]
        /\ x \in Pictured \cup {None} /\ req[r].row \in {None, x} /\ req'[r].row \in {None, x}
        /\ \A y \in Pictured \ {x} :
             /\ picture'[y] = picture[y] /\ (y \in reverted' <=> y \in reverted)
             /\ y \in lost => y \in lost'
        /\ pasted' = pasted /\ \A f \in object \ object' : Names(req[r], f)
    BY DEF Keeps, Moves, KeepsRow
  <1>2. None \notin Pictured
    BY PicturesAssumption
  <1>3. \A q \in Requests : At(q, "url_object") => req[q].row \in Pictured /\ req[q].file \in Files
    BY PictureLocalsOf DEF PicturesInv, At, HasLocals, Worker
  <1>4. \A q \in Requests : At(q, "url_object") /\ req[q].row \notin reverted /\ req[q].file \notin pasted =>
          picture[req[q].row] # req[q].file
    BY DEF PicturesInv, ShownInv
  <1>5. ASSUME NEW y \in Pictured, y \notin reverted \cup lost, picture[y] \in Files \ pasted
        PROVE  picture[y] \in object \/ \E q \in Requests : y \in Loses(q)
    BY <1>5 DEF PicturesInv, ShownInv, ShownPicturesExist
  <1>6. \A y \in Pictured, q \in Requests : picture'[y] = picture[y] /\ req'[q] = req[q] =>
          (y \in Loses(q) => y \in Loses(q)')
    BY DEF Loses, AtOne, At
  <1>7. ASSUME NEW y \in Pictured, y \notin reverted' \cup lost', picture'[y] \in Files \ pasted'
        PROVE  picture'[y] \in object' \/ \E q \in Requests : y \in Loses(q)'
    <2>1. CASE y # x
      <3>1. y \notin reverted \cup lost /\ picture'[y] = picture[y] /\ picture[y] \in Files \ pasted
        BY <1>1, <1>7, <2>1
      <3>2. picture[y] \in object => picture[y] \in object'
        <4>1. ASSUME picture[y] \in object \ object'
              PROVE  FALSE
          <5>1. Names(req[r], picture[y])
            BY <1>1, <4>1
          <5>2. x \in Pictured /\ req[r].row = x
            BY <1>1, <5>1 DEF Names
          <5>3. Uses(x, picture[y]) /\ Uses(y, picture[y])
            BY <5>1, <5>2 DEF Uses
          <5>4. QED
            BY <2>1, <3>1, <5>2, <5>3 DEF PicturesInv, OneRowEach
        <4>2. QED
          BY <4>1
      <3>3. y \notin Loses(r)
        BY <1>1, <1>2, <2>1 DEF Loses
      <3>4. QED
        BY <1>1, <1>5, <1>6, <3>1, <3>2, <3>3
    <2>2. CASE y = x
      <3>1. \/ picture'[x] \in object'
            \/ /\ picture'[x] = picture[x] /\ x \notin reverted /\ (x \in lost => x \in lost')
               /\ picture[x] \in object \/ x \in Loses(r) =>
                    picture[x] \in object' \/ x \in lost' \/ x \in Loses(r)'
        BY <1>7, <2>2 DEF Keeps, KeepsShown
      <3>2. QED
        BY <1>1, <1>5, <1>6, <1>7, <2>2, <3>1
    <2>3. QED
      BY <2>1, <2>2
  <1>8. ASSUME NEW q \in Requests, req'[q].at = "url_object", req'[q].row \notin reverted',
               req'[q].file \notin pasted'
        PROVE  picture'[req'[q].row] # req'[q].file
    <2>1. PICK y, f : y = req'[q].row /\ f = req'[q].file
      OBVIOUS
    <2>2. y \in Pictured /\ f \in Files \ pasted'
      <3>1. HasLocals(req'[q])
        <4>1. req'[q] = PictureIdle \/ HasLocals(req'[q])
          BY DEF Keeps, PicturesTyped
        <4>2. QED
          BY <1>8, <4>1, PictureIdleFacts
      <3>2. QED
        BY <1>8, <2>1, <3>1 DEF HasLocals, Worker
    <2>3. SUFFICES ASSUME picture'[y] = f
                   PROVE  FALSE
      BY <2>1
    <2>4. CASE q = r
      <3>1. y = x
        BY <1>1, <1>2, <2>1, <2>2, <2>4
      <3>2. QED
        BY <1>8, <2>1, <2>2, <2>3, <2>4, <3>1 DEF Keeps, KeepsShown
    <2>5. CASE q # r
      <3>1. At(q, "url_object") /\ req[q].row = y /\ req[q].file = f
        BY <1>1, <1>8, <2>1, <2>5 DEF At
      <3>2. y \notin reverted => picture[y] # f
        BY <1>1, <1>4, <2>2, <3>1
      <3>3. Names(req[q], f)
        BY <1>2, <2>2, <3>1 DEF Names
      <3>4. CASE y = x
        BY <1>8, <2>1, <2>2, <2>3, <2>5, <3>2, <3>3, <3>4 DEF Keeps, KeepsShown
      <3>5. CASE y # x
        BY <1>1, <1>8, <2>1, <2>2, <2>3, <3>2, <3>5
      <3>6. QED
        BY <3>4, <3>5
    <2>6. QED
      BY <2>4, <2>5
  <1>9. QED
    BY <1>7, <1>8 DEF ShownInv, ShownPicturesExist, At

\* What is in the bucket is shown or held.
LEMMA HeldFilesKept ==
  ASSUME PicturesInv, NEW r \in Requests, NEW x, Keeps(r, x)
  PROVE  KeptInv'
  <1>1. /\ \A q \in Requests \ {r} : req'[q] = req[q]
        /\ \A y \in Pictured \ {x} : picture'[y] = picture[y]
    BY DEF Keeps, Moves, KeepsRow
  <1>2. \A f : Away(f) <=> LapsedBy(r, f) \/ \E q \in Requests \ {r} : AtOne(q, Deletion) /\ req[q].file = f
    BY DEF Away, LapsedBy
  <1>3. \A f : Away(f)' <=> LapsedBy(r, f)' \/ \E q \in Requests \ {r} : AtOne(q, Deletion) /\ req[q].file = f
    BY <1>1 DEF Away, LapsedBy, AtOne
  <1>4. \A f \in Files : Away(f) => Away(f)' \/ Fresh(f)
    BY <1>2, <1>3 DEF Keeps, KeepsHeld
  <1>5. ASSUME NEW f \in Files
        PROVE  Away(f)' \/ Shown(f)' \/ \E q \in Requests : Stores(req'[q], f)
    <2>1. Shows(x, f)' => Shown(f)'
      BY DEF Shows, Shown
    <2>2. f \in object' \ object \/ Shows(x, f) \/ Stores(req[r], f) =>
            Away(f)' \/ Shows(x, f)' \/ Stores(req'[r], f)
      BY <1>3, <1>4 DEF Keeps, KeepsHeld
    <2>3. Away(f) \/ Shown(f) \/ \E q \in Requests : Stores(req[q], f)
      BY DEF PicturesInv, KeptInv
    <2>4. CASE Away(f)
      <3>1. CASE Fresh(f)
        <4>1. f \in object' \ object \/ Lapsed(f)'
          BY <3>1 DEF Fresh, Lapsed
        <4>2. QED
          BY <1>3, <2>1, <2>2, <4>1 DEF LapsedBy
      <3>2. CASE ~Fresh(f)
        BY <1>4, <2>4, <3>2
      <3>3. QED
        BY <3>1, <3>2
    <2>5. CASE Shown(f)
      <3>1. Shows(x, f) \/ Shown(f)'
        BY <1>1, <2>5 DEF Shown, Shows
      <3>2. QED
        BY <1>3, <2>1, <2>2, <3>1
    <2>6. CASE \E q \in Requests : Stores(req[q], f)
      BY <1>1, <1>3, <2>1, <2>2, <2>6
    <2>7. QED
      BY <2>3, <2>4, <2>5, <2>6
  <1>6. ASSUME NEW q \in Requests, req'[q].at = "avatar_set", req'[q].other # None
        PROVE  Away(req[q].file)'
    <2>1. CASE q = r
      <3>1. LapsedBy(r, req[r].file)'
        BY <1>6, <2>1 DEF Keeps, KeepsHeld
      <3>2. QED
        BY <2>1, <3>1 DEF Away, LapsedBy
    <2>2. CASE q # r
      <3>1. At(q, "avatar_set") /\ req[q].other # None /\ req'[q].file = req[q].file
        BY <1>1, <1>6, <2>2 DEF At
      <3>2. Away(req[q].file) /\ req[q].file \in Files
        BY <3>1, PictureLocalsOf DEF PicturesInv, KeptInv, HasLocals, At
      <3>3. ~Fresh(req[q].file)
        BY <3>1, <3>2 DEF PicturesInv, FilesAreNew, Fresh, At
      <3>4. PICK f : f = req[q].file /\ Away(f)'
        BY <1>4, <3>2, <3>3
      <3>5. QED
        BY <3>1, <3>4
    <2>3. QED
      BY <2>1, <2>2
  <1>7. QED
    BY <1>5, <1>6 DEF KeptInv, At

\* A step that keeps all this keeps the invariant.
LEMMA PicturesKept ==
  ASSUME PicturesInv, NEW r \in Requests, NEW x, Keeps(r, x)
  PROVE  PicturesInv'
  BY NewFilesKept, ErasedFilesKept, RowsKept, StoredFilesKept, ShownFilesKept, HeldFilesKept
    DEF PicturesInv, Keeps

----------------------------------------------------------------------------
(* Pictures: requests that begin *)

\* A request of a service is at work on a row.
LEMMA AtWork ==
  ASSUME PicturesInv, NEW r \in Requests, ~At(r, "idle"), req[r].at \notin Worker
  PROVE  /\ req[r] \in PictureLocal /\ HasLocals(req[r]) /\ req[r].at \in Awaits
         /\ req[r].row \in Pictured /\ req[r].row # None
  <1>1. req[r] \in PictureLocal /\ HasLocals(req[r]) /\ req[r].at \in Awaits
    BY PictureLocalsOf DEF PicturesInv
  <1>2. QED
    BY <1>1, PicturesAssumption DEF HasLocals

\* Sets that a step leaves alone, and what they hold.
LEMMA PicturesFacts ==
  ASSUME PicturesInv
  PROVE  /\ object \in SUBSET Files /\ record \in [Files -> Records]
         /\ picture \in [Pictured -> Files \cup {None} \cup NoRow]
         /\ \A x \in Pictured : x \notin Portfolios => picture[x] \in Files \cup {None}
         /\ \A x \in Portfolios : picture[x] # None
         /\ reverted \in SUBSET Pictured /\ lost \in SUBSET Avatars /\ pasted \in SUBSET Files
         /\ left \in SUBSET Files /\ deleted \in SUBSET Files /\ crossed \in SUBSET Files
         /\ \A f \in Files : record[f] = "gone" => f \in deleted
         /\ \A f \in deleted \ crossed : f \notin object \ Escaped /\ record[f] = "gone" /\ Compressing(f) = {}
         /\ None \notin Files /\ None \notin Pictured /\ None \notin NoRow /\ NoRow \cap Files = {}
         /\ \A x \in Avatars : x \notin Portfolios \cup Logos
         /\ \A x \in Portfolios : x \notin Logos
  BY PicturesAssumption DEF PicturesInv, PicturesTyped, PicturesTypeOK, ErasedStayAway

\* A request that reads the row first has what is in it.
LEMMA StartKept ==
  ASSUME PicturesInv, NEW x \in Pictured, NEW r \in Requests, At(r, "idle"),
         NEW local \in PictureLocal, HasLocals(local), req' = [req EXCEPT ![r] = local],
         local.at \in {"put_object", "row_save", "row_delete"}, local.row = x,
         local.other \in {None, picture[x]}, local.file \in {None, picture[x]},
         local.at = "row_save" => local.then = "idle",
         UNCHANGED <<object, record, picture, pictureHistory>>
  PROVE  Keeps(r, x)
  <1>1. /\ UNCHANGED <<object, record, picture, reverted, lost, pasted, left, deleted, crossed>>
        /\ Moves(r) /\ req'[r] = local /\ req[r].row = None
    BY PictureLocalsOf, PictureIdleFacts DEF PicturesInv, PicturesTyped, PicturesTypeOK, Moves, pictureHistory
  <1>2. PicturesTyped'
    BY <1>1 DEF Moves, PicturesInv, PicturesTyped, PicturesTypeOK
  <1>3. KeepsNew(r)
    BY <1>1, PicturesFacts DEF KeepsNew, PicturesInv, FilesAreNew
  <1>4. KeepsErased(r)
    BY <1>1, PicturesFacts DEF KeepsErased, Erasing, Deletion
  <1>5. KeepsRow(r, x)
    BY <1>1, PicturesFacts DEF KeepsRow, Names, Shows
  <1>6. KeepsStored(r, x)
    BY <1>1 DEF KeepsStored, Stores, Deletion
  <1>7. KeepsShown(r, x)
    <2>1. x \notin Loses(r)
      BY <1>1, PicturesFacts DEF Loses
    <2>2. local.at # "url_object"
      OBVIOUS
    <2>3. QED
      BY <1>1, <2>1, <2>2 DEF KeepsShown
  <1>8. KeepsHeld(r, x)
    <2>1. ~AtOne(r, Deletion) /\ \A f : ~Stores(req[r], f)
      BY DEF AtOne, At, Deletion, Stores
    <2>2. \A f : Lapsed(f)' = Lapsed(f) /\ Shows(x, f)' = Shows(x, f)
      BY <1>1 DEF Lapsed, Shows
    <2>3. QED
      BY <1>1, <2>1, <2>2 DEF KeepsHeld, LapsedBy
  <1>9. QED
    BY <1>1, <1>2, <1>3, <1>4, <1>5, <1>6, <1>7, <1>8 DEF Keeps

\* create, update, remove, updateBranding and updateCandidateProfile begin.
LEMMA BeginKept ==
  ASSUME PicturesInv, NEW x \in Pictured, NEW r \in Requests,
         \/ CreatePortfolio(r, x) \/ Replace(r, x) \/ EditOther(r, x) \/ RemovePortfolio(r, x)
         \/ ReplaceAvatar(r, x)
  PROVE  Keeps(r, x)
  <1>1. At(r, "idle") /\ UNCHANGED <<object, record, picture, pictureHistory>>
    BY DEF CreatePortfolio, Replace, EditOther, RemovePortfolio, ReplaceAvatar, StartOn, Start
  <1>2. /\ picture[x] \in Files \cup {None} \cup NoRow /\ (x \notin Portfolios => picture[x] \in Files \cup {None})
        /\ (x \in Portfolios => picture[x] # None)
    BY PicturesFacts
  <1>3. x # None /\ (x \in Avatars => x \notin Portfolios \cup Logos) /\ None \notin NoRow \cup Files
    BY PicturesFacts
  <1>4. CASE CreatePortfolio(r, x)
    <2> DEFINE local == [[PictureIdle EXCEPT !.at = "put_object", !.then = "row_save"] EXCEPT !.row = x]
    <2>1. req' = [req EXCEPT ![r] = local]
      BY <1>4 DEF CreatePortfolio, StartOn, Start
    <2>2. x \in Portfolios
      BY <1>4 DEF CreatePortfolio
    <2>3. /\ local \in PictureLocal /\ local.at = "put_object" /\ local.file = None /\ local.row = x
          /\ local.other = None /\ local.then = "row_save"
      BY <2>2 DEF PictureLocal, StorageAwaits, PictureIdle
    <2> HIDE DEF local
    <2>4. HasLocals(local)
      BY <1>3, <2>2, <2>3 DEF HasLocals, Storing, Worker, Avatar, Deletion
    <2>5. QED
      BY <1>1, <2>1, <2>3, <2>4, StartKept
  <1>5. CASE Replace(r, x)
    <2> DEFINE local == [[PictureIdle EXCEPT !.at = "put_object", !.then = "row_save", !.other = picture[x]]
                         EXCEPT !.row = x]
    <2>1. req' = [req EXCEPT ![r] = local]
      BY <1>5 DEF Replace, StartOn, Start
    <2>2. x \notin Avatars /\ picture[x] \in Files \cup {None}
      BY <1>2, <1>3, <1>5 DEF Replace
    <2>3. /\ local \in PictureLocal /\ local.at = "put_object" /\ local.file = None /\ local.row = x
          /\ local.other = picture[x] /\ local.then = "row_save"
      BY <2>2 DEF PictureLocal, StorageAwaits, PictureIdle
    <2> HIDE DEF local
    <2>4. HasLocals(local)
      BY <1>3, <2>2, <2>3 DEF HasLocals, Storing, Worker, Avatar, Deletion
    <2>5. QED
      BY <1>1, <2>1, <2>3, <2>4, StartKept
  <1>6. CASE EditOther(r, x)
    <2> DEFINE local == [[PictureIdle EXCEPT !.at = "row_save", !.file = picture[x]] EXCEPT !.row = x]
    <2>1. req' = [req EXCEPT ![r] = local]
      BY <1>6 DEF EditOther, StartOn, Start
    <2>2. x \notin Avatars /\ picture[x] \in Files \cup {None} /\ (x \in Portfolios => picture[x] \in Files)
      BY <1>2, <1>3, <1>6 DEF EditOther
    <2>3. /\ local \in PictureLocal /\ local.at = "row_save" /\ local.file = picture[x] /\ local.row = x
          /\ local.other = None /\ local.then = "idle"
      BY <2>2 DEF PictureLocal, StorageAwaits, PictureIdle
    <2> HIDE DEF local
    <2>4. HasLocals(local)
      BY <1>3, <2>2, <2>3 DEF HasLocals, Storing, Worker, Avatar, Deletion
    <2>5. QED
      BY <1>1, <2>1, <2>3, <2>4, StartKept
  <1>7. CASE RemovePortfolio(r, x)
    <2> DEFINE local == [[PictureIdle EXCEPT !.at = "row_delete", !.file = picture[x]] EXCEPT !.row = x]
    <2>1. req' = [req EXCEPT ![r] = local]
      BY <1>7 DEF RemovePortfolio, StartOn, Start
    <2>2. x \in Portfolios /\ x \notin Avatars /\ picture[x] \in Files
      BY <1>2, <1>3, <1>7 DEF RemovePortfolio
    <2>3. /\ local \in PictureLocal /\ local.at = "row_delete" /\ local.file = picture[x] /\ local.row = x
          /\ local.other = None /\ local.then = "idle"
      BY <2>2 DEF PictureLocal, StorageAwaits, PictureIdle
    <2> HIDE DEF local
    <2>4. HasLocals(local)
      BY <1>3, <2>2, <2>3 DEF HasLocals, Storing, Worker, Avatar, Deletion
    <2>5. QED
      BY <1>1, <2>1, <2>3, <2>4, StartKept
  <1>8. CASE ReplaceAvatar(r, x)
    <2> DEFINE local == [[PictureIdle EXCEPT !.at = "put_object", !.other = picture[x],
               !.then = IF picture[x] = None THEN "avatar_set" ELSE "avatar_previous"]
                         EXCEPT !.row = x]
    <2>1. req' = [req EXCEPT ![r] = local]
      BY <1>8 DEF ReplaceAvatar, StartOn, Start
    <2>2. x \in Avatars /\ picture[x] \in Files \cup {None}
      BY <1>2, <1>3, <1>8 DEF ReplaceAvatar
    <2>3. /\ local \in PictureLocal /\ local.at = "put_object" /\ local.file = None /\ local.row = x
          /\ local.other = picture[x] /\ local.then = (IF picture[x] = None THEN "avatar_set" ELSE "avatar_previous")
      BY <2>2 DEF PictureLocal, StorageAwaits, PictureIdle
    <2> HIDE DEF local
    <2>4. HasLocals(local)
      BY <1>3, <2>2, <2>3 DEF HasLocals, Storing, Worker, Avatar, Deletion
    <2>5. QED
      BY <1>1, <2>1, <2>3, <2>4, StartKept
  <1>9. QED
    BY <1>4, <1>5, <1>6, <1>7, <1>8

\* A request at work on no row changes nothing that rows show.
LEMMA RowlessKept ==
  ASSUME PicturesInv, NEW r \in Requests, Moves(r), PicturesTyped', KeepsNew(r), KeepsErased(r),
         req[r].row = None, req[r].other = None, req[r].at \in {"idle"} \cup Worker,
         req'[r].row = None, req'[r].other = None, req'[r].at \in {"idle"} \cup Worker,
         UNCHANGED <<picture, reverted, lost, pasted, left, deleted, crossed>>,
         object \subseteq object', \A f \in object' \ object : f \in crossed
  PROVE  Keeps(r, None)
  <1>1. KeepsRow(r, None)
    BY PicturesFacts DEF KeepsRow, Names, Shows
  <1>2. \A f : ~Stores(req[r], f) /\ ~Stores(req'[r], f) /\ ~Shows(None, f)
    BY PicturesFacts DEF Stores, Worker, Avatar, Deletion, Shows
  <1>3. KeepsStored(r, None) /\ KeepsShown(r, None)
    BY <1>2, PicturesFacts DEF KeepsStored, KeepsShown
  <1>4. \A f : LapsedBy(r, f) => LapsedBy(r, f)'
    <2>1. ~AtOne(r, Deletion)
      BY DEF AtOne, Worker, Deletion
    <2>2. QED
      BY <2>1 DEF LapsedBy, Lapsed
  <1>5. KeepsHeld(r, None)
    BY <1>2, <1>4 DEF KeepsHeld, LapsedBy, Lapsed, Worker
  <1>6. QED
    BY <1>1, <1>3, <1>5 DEF Keeps

\* The worker begins with a file that was stored.
LEMMA CompressKept ==
  ASSUME PicturesInv, NEW r \in Requests, NEW f \in Files, Compress(r, f)
  PROVE  Keeps(r, None)
  <1> DEFINE local == [PictureIdle EXCEPT !.at = "compress_find", !.file = f]
  <1>1. /\ At(r, "idle") /\ record[f] # None
        /\ UNCHANGED <<object, record, picture, reverted, lost, pasted, left, deleted, crossed>>
    BY DEF Compress, Start, pictureHistory
  <1>2. /\ local \in PictureLocal /\ local.at = "compress_find" /\ local.file = f /\ local.row = None
        /\ local.other = None /\ local.then = "idle"
    BY DEF PictureLocal, StorageAwaits, PictureIdle
  <1>3. req' = [req EXCEPT ![r] = local]
    BY DEF Compress, Start
  <1> HIDE DEF local
  <1>4. HasLocals(local)
    BY <1>2, PicturesFacts DEF HasLocals, Storing, Worker, Avatar, Deletion
  <1>5. Turns(r, "compress_find", f, None, None, "idle")
    BY <1>2, <1>3, <1>4, PictureTurns DEF PicturesInv
  <1>6. PicturesTyped'
    BY <1>1, <1>5 DEF Turns, Moves, PicturesInv, PicturesTyped, PicturesTypeOK
  <1>7. KeepsNew(r)
    BY <1>1, <1>5, PicturesFacts DEF Turns, KeepsNew, PicturesInv, FilesAreNew
  <1>8. KeepsErased(r)
    BY <1>1, <1>5, PicturesFacts DEF Turns, KeepsErased, Erasing, Deletion
  <1>9. req[r].row = None /\ req[r].other = None /\ req[r].at = "idle"
    BY <1>1, PictureLocalsOf, PictureIdleFacts DEF PicturesInv
  <1>10. QED
    BY <1>1, <1>5, <1>6, <1>7, <1>8, <1>9, RowlessKept DEF Turns, Worker

----------------------------------------------------------------------------
(* Pictures: requests that fail *)

\* A request that ends half-way leaves what it holds, and loses the avatar it has deleted.
LEMMA EndKept ==
  ASSUME PicturesInv, NEW r \in Requests, NEW x, x = req[r].row, ~At(r, "idle"),
         Goto(r, "idle"), left' = left \cup Leaves(r), lost' = lost \cup Loses(r),
         UNCHANGED <<object, record, picture, reverted, pasted, deleted, crossed>>
  PROVE  Keeps(r, x)
  <1>1. /\ IsOver(r) /\ HasLocals(req[r]) /\ req[r] \in PictureLocal
        /\ req[r].row \in Pictured \cup {None}
    BY PictureReturns, PictureLocalsOf DEF PicturesInv, PictureLocal
  <1>2. Leaves(r) \in SUBSET Files
    <2>1. req[r].file \in Files \cup {None} /\ req[r].other \in Files \cup {None}
      BY <1>1 DEF PictureLocal
    <2>2. At(r, "insert_record") => req[r].file \in Files
      BY <1>1 DEF HasLocals, At, Worker
    <2>3. At(r, "row_save") /\ req[r].then = "row_save" => req[r].file \in Files
      BY <1>1 DEF HasLocals, At
    <2>4. QED
      BY <2>1, <2>2, <2>3 DEF Leaves, AtOne, At
  <1>3. Loses(r) \in SUBSET Avatars /\ Loses(r) \subseteq {req[r].row}
    BY DEF Loses
  <1>4. PicturesTyped'
    BY <1>1, <1>2, <1>3 DEF IsOver, Turns, Moves, PicturesInv, PicturesTyped, PicturesTypeOK
  <1>5. KeepsNew(r)
    BY <1>1, PicturesFacts DEF IsOver, Turns, KeepsNew
  <1>6. KeepsErased(r)
    BY <1>1, PicturesFacts DEF IsOver, Turns, KeepsErased, Erasing, Deletion
  <1>7. KeepsRow(r, x)
    <2>1. \A f \in Files : ~Names(req'[r], f)
      BY <1>1 DEF IsOver, Turns, Names
    <2>2. \A f : Shows(x, f)' = Shows(x, f)
      BY DEF Shows
    <2>3. QED
      BY <1>1, <2>1, <2>2 DEF KeepsRow, IsOver, Turns
  <1>8. KeepsStored(r, x)
    BY <1>1 DEF IsOver, Turns, KeepsStored, Stores, Deletion
  <1>9. KeepsShown(r, x)
    BY <1>1, <1>3 DEF IsOver, Turns, KeepsShown
  <1>10. KeepsHeld(r, x)
    <2>1. \A f \in Files : Stores(req[r], f) => f \in Leaves(r)
      BY PicturesFacts DEF Stores, Leaves, AtOne, At, Deletion
    <2>2. \A f \in Files : AtOne(r, Deletion) /\ req[r].file = f => f \in Leaves(r)
      BY PicturesFacts DEF Leaves, AtOne, Deletion
    <2>3. \A f : Lapsed(f) \/ f \in Leaves(r) => LapsedBy(r, f)'
      BY DEF Lapsed, LapsedBy
    <2>4. \A f : LapsedBy(r, f) => Lapsed(f) \/ (AtOne(r, Deletion) /\ req[r].file = f)
      BY DEF LapsedBy
    <2>5. req'[r].at = "idle"
      BY <1>1 DEF IsOver, Turns
    <2>6. \A f : Shows(x, f)' = Shows(x, f)
      BY DEF Shows
    <2>7. QED
      BY <2>1, <2>2, <2>3, <2>4, <2>5, <2>6 DEF KeepsHeld
  <1>11. QED
    BY <1>1, <1>4, <1>5, <1>6, <1>7, <1>8, <1>9, <1>10 DEF Keeps, IsOver, Turns

\* A request whose statement fails, or whose process dies.
LEMMA FailedKept ==
  ASSUME PicturesInv, NEW r \in Requests, NEW x, x = req[r].row, FailRequest(r) \/ DieRequest(r)
  PROVE  Keeps(r, x)
  BY EndKept DEF FailRequest, DieRequest, AtOne, At

----------------------------------------------------------------------------
(* Pictures: rows that are written *)

\* An item or a company is saved, and the picture that was in it is to be deleted.
LEMMA RowSaveKept ==
  ASSUME PicturesInv, NEW r \in Requests, NEW x, x = req[r].row, RowSave(r)
  PROVE  Keeps(r, x)
  <1>1. /\ req[r] \in PictureLocal /\ HasLocals(req[r]) /\ req[r].row = x /\ req[r].at = "row_save"
        /\ x \in Pictured /\ x # None
    BY AtWork DEF RowSave, At, Worker
  <1>2. PICK file, other, then : file = req[r].file /\ other = req[r].other /\ then = req[r].then
    OBVIOUS
  <1>3. /\ file \in Files \cup {None} /\ (x \in Portfolios => file \in Files) /\ x \notin Avatars
        /\ other \in Files \cup {None} /\ (other # None => then = "row_save")
        /\ (then = "row_save" => file \in Files) /\ (file \in Files => file # other)
    BY <1>1, <1>2 DEF PictureLocal, HasLocals
  <1>4. /\ picture' = [picture EXCEPT ![x] = file]
        /\ left' = left \cup {f \in Files \ {file, other} : picture[x] = f}
        /\ reverted' = IF then = "row_save" THEN reverted \ {x}
                       ELSE reverted \cup {y \in {x} : picture[x] # file}
        /\ UNCHANGED <<object, record, lost, pasted, deleted, crossed>>
    BY <1>1, <1>2 DEF RowSave, Missed, Reverts
  <1>5. IF other = None THEN IsOver(r) ELSE Turns(r, "url_object", other, x, None, "idle")
    <2>1. CASE other = None
      BY <1>2, <2>1, PictureReturns DEF RowSave, PicturesInv
    <2>2. CASE other # None
      <3>1. PICK local : local = [req[r] EXCEPT !.at = "url_object", !.file = req[r].other,
                                                !.other = None, !.then = "idle"]
        OBVIOUS
      <3>2. req' = [req EXCEPT ![r] = local]
        BY <1>2, <2>2, <3>1 DEF RowSave
      <3>3. /\ local \in PictureLocal /\ local.at = "url_object" /\ local.file = other /\ local.row = x
            /\ local.other = None /\ local.then = "idle"
        BY <1>1, <1>2, <3>1 DEF PictureLocal, StorageAwaits
      <3>4. HasLocals(local)
        BY <1>1, <1>3, <2>2, <3>3, PicturesFacts DEF HasLocals, Storing, Worker, Avatar, Deletion
      <3>5. QED
        BY <2>2, <3>2, <3>3, <3>4, PictureTurns DEF PicturesInv
    <2>3. QED
      BY <2>1, <2>2
  <1>6. /\ Moves(r) /\ req'[r].row \in {None, x} /\ req'[r].at \in {"idle", "url_object"}
        /\ req'[r].other = None /\ req'[r].file \in {None, other}
    BY <1>5 DEF IsOver, Turns
  <1>7. picture'[x] = file /\ \A y \in Pictured \ {x} : picture'[y] = picture[y]
    BY <1>1, <1>4, PicturesFacts
  <1>8. PicturesTyped'
    <2>1. picture' \in [Pictured -> Files \cup {None} \cup NoRow]
      BY <1>3, <1>4, PicturesFacts
    <2>2. /\ \A y \in Pictured : y \notin Portfolios => picture'[y] \in Files \cup {None}
          /\ \A y \in Portfolios : picture'[y] # None
      BY <1>3, <1>7, PicturesFacts DEF Pictured
    <2>3. left' \in SUBSET Files /\ reverted' \in SUBSET Pictured
      BY <1>1, <1>4, PicturesFacts
    <2>4. QED
      BY <1>4, <1>6, <2>1, <2>2, <2>3 DEF Moves, PicturesInv, PicturesTyped, PicturesTypeOK
  <1>9. KeepsNew(r)
    <2>1. (file \in Files => record[file] # None) /\ (other \in Files => record[other] # None)
      BY <1>1, <1>2 DEF PicturesInv, FilesAreNew, At
    <2>2. QED
      BY <1>4, <1>6, <1>7, <2>1, PicturesFacts DEF KeepsNew
  <1>10. KeepsErased(r)
    BY <1>4, <1>6, PicturesFacts DEF KeepsErased, Erasing, Deletion
  <1>11. KeepsRow(r, x)
    <2>1. \A f \in Files : Names(req'[r], f) \/ Shows(x, f)' => Names(req[r], f)
      BY <1>1, <1>2, <1>6, <1>7, PicturesFacts DEF Names, Shows
    <2>2. \A y \in Pictured \ {x} : y \in reverted' <=> y \in reverted
      BY <1>4
    <2>3. QED
      BY <1>1, <1>4, <1>6, <1>7, <2>1, <2>2 DEF KeepsRow
  <1>12. KeepsStored(r, x)
    BY <1>6, PicturesFacts DEF KeepsStored, Stores
  <1>13. KeepsShown(r, x)
    <2> SUFFICES ASSUME x \notin reverted', file \in Files \ pasted
                 PROVE  /\ \/ file \in object /\ \A q \in Requests \ {r} : ~Names(req[q], file)
                           \/ file = picture[x] /\ x \notin reverted /\ x \notin lost /\ x \notin Loses(r)
                        /\ req'[r].at = "url_object" => req'[r].file # file
      BY <1>4, <1>7 DEF KeepsShown
    <2>1. CASE then = "row_save"
      <3>1. Stores(req[r], file)
        BY <1>1, <1>2, <2>1 DEF Stores
      <3>2. file \in object /\ \A q \in Requests \ {r} : ~Names(req[q], file)
        BY <3>1 DEF PicturesInv, StoredStay
      <3>3. QED
        BY <1>3, <1>6, <3>2, PicturesFacts
    <2>2. CASE then # "row_save"
      <3>1. file = picture[x] /\ x \notin reverted
        BY <1>4, <2>2
      <3>2. x \notin lost /\ x \notin Loses(r)
        BY <1>3, PicturesFacts DEF Loses
      <3>3. QED
        BY <1>3, <1>6, <3>1, <3>2, PicturesFacts
    <2>3. QED
      BY <2>1, <2>2
  <1>14. KeepsHeld(r, x)
    <2>1. ~AtOne(r, Deletion) /\ req'[r].at # "avatar_set"
      BY <1>1, <1>6 DEF AtOne, Deletion
    <2>2. \A f : LapsedBy(r, f) => LapsedBy(r, f)'
      BY <1>4, <2>1 DEF LapsedBy, Lapsed
    <2>3. \A f \in Files : Shows(x, f) \/ Stores(req[r], f) => f \in {file, other} \cup left'
      BY <1>1, <1>2, <1>4 DEF Shows, Stores, Deletion
    <2>4. \A f \in left' : LapsedBy(r, f)'
      BY DEF LapsedBy, Lapsed
    <2>5. ASSUME NEW f \in Files, f \in object' \ object \/ Shows(x, f) \/ Stores(req[r], f)
          PROVE  LapsedBy(r, f)' \/ Shows(x, f)'
      <3>1. f \in {file, other} \cup left'
        BY <1>4, <2>3, <2>5
      <3>2. f = file => Shows(x, f)'
        BY <1>1, <1>7 DEF Shows
      <3>3. f = other => LapsedBy(r, f)'
        BY <1>5, PicturesFacts DEF Turns, AtOne, Deletion, LapsedBy
      <3>4. QED
        BY <2>4, <3>1, <3>2, <3>3
    <2>6. QED
      BY <2>1, <2>2, <2>5 DEF KeepsHeld
  <1>15. QED
    BY <1>6, <1>8, <1>9, <1>10, <1>11, <1>12, <1>13, <1>14 DEF Keeps

\* An item is removed, and its thumbnail is to be deleted.
LEMMA RowDeleteKept ==
  ASSUME PicturesInv, NEW r \in Requests, NEW x, x = req[r].row, RowDelete(r)
  PROVE  Keeps(r, x)
  <1>1. /\ req[r] \in PictureLocal /\ HasLocals(req[r]) /\ req[r].row = x /\ req[r].at = "row_delete"
        /\ x \in Pictured /\ x # None
    BY AtWork DEF RowDelete, At, Worker
  <1>2. PICK file : file = req[r].file
    OBVIOUS
  <1>3. /\ file \in Files /\ x \in Portfolios /\ x \notin Avatars
        /\ req[r].other = None /\ req[r].then = "idle"
    BY <1>1, <1>2, PicturesFacts DEF HasLocals, Worker
  <1>4. /\ picture' = [picture EXCEPT ![x] = "removed"]
        /\ left' = left \cup {f \in Files \ {file, None} : picture[x] = f}
        /\ UNCHANGED <<object, record, reverted, lost, pasted, deleted, crossed>>
    BY <1>1, <1>2, <1>3 DEF RowDelete, Missed
  <1>5. Turns(r, "url_object", file, x, None, "idle")
    <2>1. \A local \in PictureLocal :
            /\ HasLocals(req[r]) /\ local.at = "url_object" /\ local.file = req[r].file
            /\ local.row = req[r].row /\ local.other = req[r].other /\ local.then = req[r].then
            => HasLocals(local)
      BY <1>1, <1>2, <1>3 DEF HasLocals, Storing, Worker, Avatar, Deletion
    <2>2. "url_object" \in Awaits /\ ~At(r, "idle") /\ Goto(r, "url_object")
      BY <1>1 DEF Awaits, Deletion, At, RowDelete
    <2>3. Turns(r, "url_object", req[r].file, req[r].row, req[r].other, req[r].then)
      BY <2>1, <2>2, PictureGoesOn DEF PicturesInv
    <2>4. QED
      BY <1>1, <1>2, <1>3, <2>3
  <1>6. "removed" \in NoRow /\ "removed" \notin Files /\ "removed" # None
    BY PicturesAssumption DEF NoRow
  <1>7. picture'[x] = "removed" /\ \A y \in Pictured \ {x} : picture'[y] = picture[y]
    BY <1>1, <1>4, PicturesFacts
  <1>8. PicturesTyped'
    <2>1. picture' \in [Pictured -> Files \cup {None} \cup NoRow]
      BY <1>4, <1>6, PicturesFacts
    <2>2. /\ \A y \in Pictured : y \notin Portfolios => picture'[y] \in Files \cup {None}
          /\ \A y \in Portfolios : picture'[y] # None
      BY <1>3, <1>6, <1>7, PicturesFacts DEF Pictured
    <2>3. left' \in SUBSET Files
      BY <1>4, PicturesFacts
    <2>4. QED
      BY <1>4, <1>5, <2>1, <2>2, <2>3 DEF Turns, Moves, PicturesInv, PicturesTyped, PicturesTypeOK
  <1>9. KeepsNew(r)
    <2>1. record[file] # None
      BY <1>1, <1>2, <1>3 DEF PicturesInv, FilesAreNew, At
    <2>2. QED
      BY <1>4, <1>5, <1>6, <1>7, <2>1, PicturesFacts DEF KeepsNew, Turns
  <1>10. KeepsErased(r)
    BY <1>4, <1>5, PicturesFacts DEF Turns, KeepsErased, Erasing, Deletion
  <1>11. KeepsRow(r, x)
    <2>1. \A f \in Files : Names(req'[r], f) \/ Shows(x, f)' => Names(req[r], f)
      BY <1>1, <1>2, <1>5, <1>6, <1>7, PicturesFacts DEF Turns, Names, Shows
    <2>2. QED
      BY <1>1, <1>4, <1>5, <1>7, <2>1 DEF KeepsRow, Turns
  <1>12. KeepsStored(r, x)
    BY <1>5, PicturesFacts DEF KeepsStored, Stores, Turns
  <1>13. KeepsShown(r, x)
    BY <1>6, <1>7 DEF KeepsShown
  <1>14. KeepsHeld(r, x)
    <2>1. ~AtOne(r, Deletion) /\ req'[r].at # "avatar_set"
      BY <1>1, <1>5 DEF AtOne, Deletion, Turns
    <2>2. \A f : LapsedBy(r, f) => LapsedBy(r, f)'
      BY <1>4, <2>1 DEF LapsedBy, Lapsed
    <2>3. ASSUME NEW f \in Files, f \in object' \ object \/ Shows(x, f) \/ Stores(req[r], f)
          PROVE  LapsedBy(r, f)'
      <3>1. f = file \/ f \in left'
        BY <1>1, <1>2, <1>4, <2>3, PicturesFacts DEF Shows, Stores, Deletion
      <3>2. f = file => LapsedBy(r, f)'
        BY <1>5 DEF Turns, AtOne, Deletion, LapsedBy
      <3>3. QED
        BY <3>1, <3>2 DEF LapsedBy, Lapsed
    <2>4. QED
      BY <2>1, <2>2, <2>3 DEF KeepsHeld
  <1>15. QED
    BY <1>5, <1>8, <1>9, <1>10, <1>11, <1>12, <1>13, <1>14 DEF Keeps, Turns

----------------------------------------------------------------------------
(* Pictures: avatars *)

\* The new avatar is kept in place of the previous one while that is deleted.
LEMMA SwappedTurns ==
  ASSUME PicturesInv, NEW r \in Requests, At(r, "avatar_previous"),
         NEW label \in {"url_find", "avatar_set"}, Swapped(r, label)
  PROVE  /\ Turns(r, label, req[r].other, req[r].row, req[r].file, "avatar_set")
         /\ req[r].file \in Files /\ req[r].other \in Files /\ req[r].row \in Avatars
         /\ req[r].file # req[r].other
  <1>1. req[r] \in PictureLocal /\ HasLocals(req[r])
    BY PictureLocalsOf DEF PicturesInv, At
  <1>2. /\ req[r].file \in Files /\ req[r].other \in Files /\ req[r].row \in Avatars /\ req[r].other # None
        /\ req[r].file # req[r].other
    BY <1>1 DEF HasLocals, PictureLocal, At, Worker, Avatar
  <1>3. PICK local : local = [req[r] EXCEPT !.at = label, !.then = "avatar_set",
                                            !.file = req[r].other, !.other = req[r].file]
    OBVIOUS
  <1>4. req' = [req EXCEPT ![r] = local]
    BY <1>3 DEF Swapped
  <1>5. /\ local \in PictureLocal /\ local.at = label /\ local.file = req[r].other
        /\ local.row = req[r].row /\ local.other = req[r].file /\ local.then = "avatar_set"
    BY <1>1, <1>3 DEF PictureLocal, StorageAwaits
  <1>6. HasLocals(local)
    BY <1>2, <1>5, PicturesFacts DEF HasLocals, Storing, Worker, Avatar, Deletion, Pictured
  <1>7. QED
    BY <1>2, <1>4, <1>5, <1>6, PictureTurns DEF PicturesInv

\* Once the new avatar is kept in its place, the previous one may go.
LEMMA SwappedKept ==
  ASSUME PicturesInv, NEW r \in Requests, NEW x, x = req[r].row, At(r, "avatar_previous"),
         NEW label \in {"url_find", "avatar_set"}, Swapped(r, label),
         object \ object' \subseteq {req[r].other}, object' \subseteq object,
         UNCHANGED <<record, picture, reverted, lost, pasted, deleted>>,
         left \subseteq left', left' \in SUBSET Files,
         crossed \subseteq crossed', crossed' \in SUBSET Files,
         \A f \in object \ object' : f \in crossed' \/ Compressing(f) = {},
         label = "url_find" => req[r].other \notin object' \ Escaped,
         label = "avatar_set" => req[r].other \in left'
  PROVE  Keeps(r, x)
  <1>1. PICK file, other : file = req[r].file /\ other = req[r].other
    OBVIOUS
  <1>2. /\ Turns(r, label, other, x, file, "avatar_set") /\ file \in Files /\ other \in Files
        /\ x \in Avatars /\ file # other /\ x \in Pictured /\ x # None
    BY <1>1, SwappedTurns, PicturesFacts DEF Pictured
  <1>3. /\ object' \in SUBSET Files
        /\ \A f \in object \ object' : f = other /\ (f \in crossed' \/ Compressing(f) = {})
    BY <1>1, <1>2, PicturesFacts
  <1>4. PicturesTyped'
    BY <1>2, <1>3 DEF Turns, Moves, PicturesInv, PicturesTyped, PicturesTypeOK
  <1>5. KeepsNew(r)
    <2>1. record[file] # None /\ record[other] # None
      BY <1>1, <1>2 DEF PicturesInv, FilesAreNew, At
    <2>2. QED
      BY <1>2, <2>1 DEF KeepsNew, Turns
  <1>6. KeepsErased(r)
    <2>1. label \in Erasing => other \notin object' \ Escaped
      BY <1>1 DEF Erasing, Deletion
    <2>2. QED
      BY <1>2, <1>3, <2>1, PicturesFacts DEF Turns, KeepsErased
  <1>7. KeepsRow(r, x)
    BY <1>1, <1>2, <1>3 DEF KeepsRow, Turns, Names, Shows
  <1>8. KeepsStored(r, x)
    <2>1. ASSUME NEW f \in Files \ pasted, Stores(req'[r], f)
          PROVE  f \in object' /\ ~Shows(x, f)' /\ Stores(req[r], f)
      <3>1. f = file
        BY <1>2, <2>1, PicturesFacts DEF Turns, Stores
      <3>2. Stores(req[r], f)
        BY <1>1, <3>1 DEF Stores, At
      <3>3. f \in object /\ ~Shown(f)
        BY <2>1, <3>2 DEF PicturesInv, StoredStay
      <3>4. QED
        BY <1>2, <1>3, <3>1, <3>2, <3>3 DEF Shown, Shows
    <2>2. QED
      BY <2>1 DEF KeepsStored
  <1>9. KeepsShown(r, x)
    <2>1. picture[x] \notin object' /\ picture[x] \in object => x \in Loses(r)'
      <3>1. ASSUME picture[x] = other
            PROVE  x \in Loses(r)'
        BY <1>2, <3>1, PicturesFacts DEF Turns, Loses, AtOne, At, Deletion
      <3>2. QED
        BY <1>3, <3>1
    <2>2. x \notin Loses(r) /\ req'[r].at # "url_object"
      BY <1>2 DEF Loses, AtOne, At, Deletion, Turns
    <2>3. QED
      BY <2>1, <2>2 DEF KeepsShown
  <1>10. KeepsHeld(r, x)
    <2>1. ~AtOne(r, Deletion)
      BY DEF At, AtOne, Deletion
    <2>2. \A f : LapsedBy(r, f) => LapsedBy(r, f)'
      BY <1>3, <2>1 DEF LapsedBy, Lapsed
    <2>3. \A f : Stores(req[r], f) => Stores(req'[r], f)
      BY <1>1, <1>2 DEF Stores, Turns, At, Deletion
    <2>4. \A f : Shows(x, f)' = Shows(x, f)
      BY DEF Shows
    <2>5. req'[r].at = "avatar_set" => LapsedBy(r, req[r].file)'
      BY <1>1, <1>2 DEF Turns, LapsedBy, Lapsed
    <2>6. QED
      BY <2>2, <2>3, <2>4, <2>5 DEF KeepsHeld
  <1>11. QED
    BY <1>2, <1>4, <1>5, <1>6, <1>7, <1>8, <1>9, <1>10 DEF Keeps, Turns

\* The previous avatar is deleted.
LEMMA AvatarPreviousKept ==
  ASSUME PicturesInv, NEW r \in Requests, NEW x, x = req[r].row, AvatarPrevious(r)
  PROVE  Keeps(r, x)
  <1>1. /\ At(r, "avatar_previous") /\ Swapped(r, "url_find")
        /\ UNCHANGED <<record, picture, reverted, lost, pasted, left, deleted>>
        /\ crossed' = crossed \cup {f \in {req[r].other} : Compressing(f) # {}}
        /\ object' = object \ ({req[r].other} \ Escaped)
    BY DEF AvatarPrevious, WithoutUrl
  <1>2. /\ object \ object' \subseteq {req[r].other} /\ object' \subseteq object
        /\ left \subseteq left' /\ left' \in SUBSET Files /\ req[r].other \notin object' \ Escaped
        /\ crossed \subseteq crossed' /\ crossed' \in SUBSET Files
        /\ \A f \in object \ object' : f \in crossed' \/ Compressing(f) = {}
    BY <1>1, SwappedTurns, PicturesFacts
  <1>3. QED
    BY <1>1, <1>2, SwappedKept

\* The user is updated.
LEMMA AvatarSetKept ==
  ASSUME PicturesInv, NEW r \in Requests, NEW x, x = req[r].row, AvatarSet(r)
  PROVE  Keeps(r, x)
  <1>1. /\ req[r] \in PictureLocal /\ HasLocals(req[r]) /\ req[r].row = x /\ At(r, "avatar_set")
        /\ x \in Pictured /\ x # None
    BY AtWork DEF AvatarSet, At, Worker
  <1>2. PICK file, other, new : /\ file = req[r].file /\ other = req[r].other
                                /\ new = IF other = None THEN file ELSE other
    OBVIOUS
  <1>3. file \in Files /\ other \in Files \cup {None} /\ new \in Files /\ x \in Avatars /\ x \notin Portfolios
    BY <1>1, <1>2, PicturesFacts DEF PictureLocal, HasLocals, At, Avatar, Worker
  <1>4. IsOver(r)
    BY PictureReturns DEF AvatarSet, PicturesInv
  <1>5. /\ picture' = [picture EXCEPT ![x] = new] /\ lost' = lost \ {x}
        /\ left' = left \cup {f \in Files \ {file, other} : picture[x] = f}
        /\ UNCHANGED <<object, record, reverted, pasted, deleted, crossed>>
    BY <1>1, <1>2 DEF AvatarSet, Missed
  <1>6. picture'[x] = new /\ \A y \in Pictured \ {x} : picture'[y] = picture[y]
    BY <1>1, <1>5, PicturesFacts
  <1>7. PicturesTyped'
    <2>1. picture' \in [Pictured -> Files \cup {None} \cup NoRow]
      BY <1>3, <1>5, PicturesFacts
    <2>2. /\ \A y \in Pictured : y \notin Portfolios => picture'[y] \in Files \cup {None}
          /\ \A y \in Portfolios : picture'[y] # None
      BY <1>3, <1>6, PicturesFacts DEF Pictured
    <2>3. left' \in SUBSET Files /\ lost' \in SUBSET Avatars
      BY <1>5, PicturesFacts
    <2>4. QED
      BY <1>4, <1>5, <2>1, <2>2, <2>3 DEF IsOver, Turns, Moves, PicturesInv, PicturesTyped, PicturesTypeOK
  <1>8. KeepsNew(r)
    <2>1. record[new] # None
      BY <1>1, <1>2, <1>3 DEF PicturesInv, FilesAreNew, At
    <2>2. QED
      BY <1>4, <1>5, <1>6, <2>1, PicturesFacts DEF KeepsNew, IsOver, Turns
  <1>9. KeepsErased(r)
    BY <1>4, <1>5, PicturesFacts DEF IsOver, Turns, KeepsErased, Erasing, Deletion
  <1>10. KeepsRow(r, x)
    <2>1. \A f \in Files : Names(req'[r], f) \/ Shows(x, f)' => Names(req[r], f)
      BY <1>1, <1>2, <1>4, <1>6, PicturesFacts DEF IsOver, Turns, Names, Shows
    <2>2. QED
      BY <1>1, <1>4, <1>5, <1>6, <2>1 DEF KeepsRow, IsOver, Turns
  <1>11. KeepsStored(r, x)
    BY <1>4 DEF IsOver, Turns, KeepsStored, Stores, Deletion
  <1>12. KeepsShown(r, x)
    <2>1. Stores(req[r], new)
      BY <1>1, <1>2 DEF Stores, At
    <2>2. new \notin pasted => new \in object /\ \A q \in Requests \ {r} : ~Names(req[q], new)
      BY <1>3, <2>1 DEF PicturesInv, StoredStay
    <2>3. req'[r].at # "url_object"
      BY <1>4 DEF IsOver, Turns
    <2>4. QED
      BY <1>5, <1>6, <2>2, <2>3 DEF KeepsShown
  <1>13. KeepsHeld(r, x)
    <2>1. ~AtOne(r, Deletion) /\ req'[r].at = "idle"
      BY <1>1, <1>4 DEF At, AtOne, Deletion, IsOver, Turns
    <2>2. \A f : LapsedBy(r, f) => LapsedBy(r, f)'
      BY <1>5, <2>1 DEF LapsedBy, Lapsed
    <2>3. other # None => Away(file) /\ ~Fresh(file)
      BY <1>1, <1>2, <1>3 DEF PicturesInv, KeptInv, FilesAreNew, Fresh, At
    <2>4. ASSUME NEW f \in Files, f \in object' \ object \/ Shows(x, f) \/ Stores(req[r], f)
          PROVE  LapsedBy(r, f)' \/ Shows(x, f)' \/ (Away(f) /\ ~Fresh(f))
      <3>1. f \in {file, other} \cup left'
        BY <1>1, <1>2, <1>5, <2>4 DEF Shows, Stores
      <3>2. f = new => Shows(x, f)'
        BY <1>1, <1>6 DEF Shows
      <3>3. f \in left' => LapsedBy(r, f)'
        BY DEF LapsedBy, Lapsed
      <3>4. QED
        BY <1>2, <2>3, <2>4, <3>1, <3>2, <3>3, PicturesFacts
    <2>5. QED
      BY <2>1, <2>2, <2>4 DEF KeepsHeld
  <1>14. QED
    BY <1>4, <1>7, <1>8, <1>9, <1>10, <1>11, <1>12, <1>13 DEF Keeps, IsOver, Turns

----------------------------------------------------------------------------
(* Pictures: files that are deleted *)

\* What a deletion knows of its file.
LEMMA DeletionFacts ==
  ASSUME PicturesInv, NEW r \in Requests, AtOne(r, Deletion)
  PROVE  /\ req[r] \in PictureLocal /\ HasLocals(req[r]) /\ ~At(r, "idle")
         /\ req[r].row \in Pictured /\ req[r].row # None /\ req[r].file \in Files
         /\ req[r].other \in Files \cup {None} /\ req[r].file # req[r].other
         /\ record[req[r].file] \in Records \ {None}
         /\ req[r].other \in Files => record[req[r].other] # None
         /\ IF req[r].then = "idle" THEN req[r].row \notin Avatars /\ req[r].other = None
            ELSE req[r].then = "avatar_set" /\ req[r].row \in Avatars /\ req[r].other \in Files
         /\ At(r, "url_object") => req[r].then = "idle"
         /\ ~At(r, "url_object") => req[r].file \notin object \ (crossed \cup Escaped)
  <1>1. /\ req[r] \in PictureLocal /\ HasLocals(req[r]) /\ req[r].row \in Pictured /\ req[r].row # None
        /\ ~At(r, "idle")
    BY AtWork DEF AtOne, At, Worker, Deletion
  <1>2. req[r].file \in Files /\ req[r].other \in Files \cup {None} /\ req[r].file # req[r].other
    BY <1>1 DEF HasLocals, PictureLocal, AtOne, Deletion
  <1>3. record[req[r].file] \in Records \ {None} /\ (req[r].other \in Files => record[req[r].other] # None)
    BY <1>2, PicturesFacts DEF PicturesInv, FilesAreNew, AtOne, At, Deletion
  <1>4. IF req[r].then = "idle" THEN req[r].row \notin Avatars /\ req[r].other = None
        ELSE req[r].then = "avatar_set" /\ req[r].row \in Avatars /\ req[r].other \in Files
    BY <1>1, <1>2 DEF HasLocals, AtOne
  <1>5. ~At(r, "url_object") => req[r].file \notin object \ (crossed \cup Escaped)
    BY DEF PicturesInv, ErasedStayAway, AtOne, At, Erasing
  <1>6. QED
    BY <1>1, <1>2, <1>3, <1>4, <1>5 DEF HasLocals, At

\* A deletion goes on with the caller of deleteByUrl.
LEMMA DeletionReturns ==
  ASSUME PicturesInv, NEW r \in Requests, AtOne(r, Deletion), Goto(r, req[r].then)
  PROVE  IF req[r].then = "idle" THEN IsOver(r)
         ELSE Turns(r, "avatar_set", req[r].file, req[r].row, req[r].other, req[r].then)
  <1>1. CASE req[r].then = "idle"
    BY <1>1, PictureReturns DEF PicturesInv
  <1>2. CASE req[r].then # "idle"
    <2>1. Goto(r, "avatar_set") /\ "avatar_set" \in Awaits /\ ~At(r, "idle")
      BY <1>2, DeletionFacts DEF Awaits, Avatar
    <2>2. \A local \in PictureLocal :
            /\ HasLocals(req[r]) /\ local.at = "avatar_set" /\ local.file = req[r].file
            /\ local.row = req[r].row /\ local.other = req[r].other /\ local.then = req[r].then
            => HasLocals(local)
      BY <1>2, DeletionFacts DEF HasLocals, Storing, Worker, Avatar, Deletion, Pictured
    <2>3. QED
      BY <1>2, <2>1, <2>2, PictureGoesOn DEF PicturesInv
  <1>3. QED
    BY <1>1, <1>2

\* A deletion that is over: its file is away, or left to the history.
LEMMA ReturnKept ==
  ASSUME PicturesInv, NEW r \in Requests, NEW x, x = req[r].row, AtOne(r, Deletion),
         Goto(r, req[r].then), UNCHANGED <<object, picture, reverted, lost, pasted>>,
         left \subseteq left', crossed \subseteq crossed', deleted \subseteq deleted',
         left' \in SUBSET Files, crossed' \in SUBSET Files, deleted' \in SUBSET Files,
         record' \in [Files -> Records],
         req[r].file \notin object \ (left' \cup crossed' \cup (Escaped \cap deleted')),
         \A f \in Files : record'[f] # record[f] => f = req[r].file /\ record'[f] # None,
         \A f \in Files : record'[f] = "gone" => f \in deleted',
         \A f \in deleted' \ crossed' :
           (f \notin deleted => f \notin object' \ Escaped /\ Compressing(f) = {}) /\ record'[f] = "gone"
  PROVE  Keeps(r, x)
  <1>1. PICK file, other, then : file = req[r].file /\ other = req[r].other /\ then = req[r].then
    OBVIOUS
  <1>2. /\ x \in Pictured /\ x # None /\ file \in Files /\ other \in Files \cup {None}
        /\ record[file] # None /\ (other \in Files => record[other] # None)
        /\ (then = "idle" => other = None) /\ (then # "idle" => other \in Files /\ x \in Avatars)
    BY <1>1, DeletionFacts
  <1>3. IF then = "idle" THEN IsOver(r) ELSE Turns(r, "avatar_set", file, x, other, then)
    BY <1>1, DeletionReturns
  <1>4. /\ Moves(r) /\ req'[r].row \in {None, x} /\ req'[r].at \in {"idle", "avatar_set"}
        /\ req'[r].other \in {None, other} /\ req'[r].file \in {None, file}
        /\ (req'[r].at = "avatar_set" => req'[r].other = other /\ req'[r].file = file)
    BY <1>3 DEF IsOver, Turns
  <1>5. PicturesTyped'
    BY <1>4 DEF Moves, PicturesInv, PicturesTyped, PicturesTypeOK
  <1>6. KeepsNew(r)
    <2>1. record'[file] # None
      BY <1>1, <1>2
    <2>2. QED
      BY <1>1, <1>2, <1>4, <2>1, PicturesFacts DEF KeepsNew
  <1>7. KeepsErased(r)
    BY <1>4 DEF KeepsErased, Erasing, Deletion
  <1>8. KeepsRow(r, x)
    <2>1. \A f \in Files : Names(req'[r], f) \/ Shows(x, f)' => Names(req[r], f) \/ Shows(x, f)
      BY <1>1, <1>2, <1>4, PicturesFacts DEF Names, Shows
    <2>2. QED
      BY <1>2, <1>4, <2>1 DEF KeepsRow
  <1>9. KeepsStored(r, x)
    <2>1. ASSUME NEW f \in Files \ pasted, Stores(req'[r], f)
          PROVE  f \in object' /\ ~Shows(x, f)' /\ Stores(req[r], f)
      <3>1. Stores(req[r], f)
        BY <1>1, <1>2, <1>3, <2>1, PicturesFacts DEF IsOver, Turns, Stores, AtOne, Deletion
      <3>2. QED
        BY <2>1, <3>1 DEF PicturesInv, StoredStay, Shown, Shows
    <2>2. QED
      BY <2>1 DEF KeepsStored
  <1>10. KeepsShown(r, x)
    <2>1. x \in Loses(r) => x \in Loses(r)'
      BY <1>1, <1>3 DEF Loses, Turns, IsOver, AtOne, At, Deletion
    <2>2. QED
      BY <1>4, <2>1 DEF KeepsShown
  <1>11. KeepsHeld(r, x)
    <2>1. LapsedBy(r, file)'
      BY <1>1 DEF LapsedBy, Lapsed
    <2>2. \A f : LapsedBy(r, f) => LapsedBy(r, f)'
      BY <1>1, <2>1 DEF LapsedBy, Lapsed
    <2>3. \A f \in Files : Stores(req[r], f) => Stores(req'[r], f)
      BY <1>1, <1>2, <1>3, PicturesFacts DEF Turns, Stores, AtOne, Deletion
    <2>4. req'[r].at = "avatar_set" => LapsedBy(r, req[r].file)'
      BY <1>1, <1>4, <2>1 DEF LapsedBy, Lapsed
    <2>5. \A f : Shows(x, f)' = Shows(x, f)
      BY DEF Shows
    <2>6. QED
      BY <2>2, <2>3, <2>4, <2>5 DEF KeepsHeld
  <1>12. QED
    BY <1>4, <1>5, <1>6, <1>7, <1>8, <1>9, <1>10, <1>11 DEF Keeps

\* deleteByUrl throws, and its caller goes on.
LEMMA FailDeletionKept ==
  ASSUME PicturesInv, NEW r \in Requests, NEW x, x = req[r].row, FailDeletion(r)
  PROVE  Keeps(r, x)
  <1>1. UNCHANGED <<object, record, picture, reverted, lost, pasted, deleted, crossed>>
    BY DEF FailDeletion
  <1>2. CASE AtOne(r, Deletion) /\ Goto(r, req[r].then) /\ left' = left \cup {req[r].file}
    <2>1. left' \in SUBSET Files /\ req[r].file \in left'
      BY <1>2, DeletionFacts, PicturesFacts
    <2>2. /\ crossed' \in SUBSET Files /\ deleted' \in SUBSET Files /\ record' \in [Files -> Records]
          /\ \A f \in Files : record'[f] = "gone" => f \in deleted'
          /\ \A f \in deleted' \ crossed' :
               (f \notin deleted => f \notin object' \ Escaped /\ Compressing(f) = {}) /\ record'[f] = "gone"
      BY <1>1, PicturesFacts
    <2>3. QED
      BY <1>1, <1>2, <2>1, <2>2, ReturnKept
  <1>3. CASE At(r, "avatar_previous") /\ Swapped(r, "avatar_set") /\ left' = left \cup {req[r].other}
    <2>1. req[r].other \in Files
      BY <1>3, SwappedTurns
    <2>2. left' \in SUBSET Files /\ left \subseteq left' /\ req[r].other \in left'
      BY <1>3, <2>1, PicturesFacts
    <2>3. crossed \subseteq crossed' /\ crossed' \in SUBSET Files /\ object' = object
      BY <1>1, PicturesFacts
    <2>4. QED
      BY <1>1, <1>3, <2>2, <2>3, SwappedKept
  <1>4. QED
    BY <1>2, <1>3 DEF FailDeletion

----------------------------------------------------------------------------
(* Pictures: files that are stored *)

\* What a step of StoredFiles leaves as it is.
LEMMA FileStepFrame ==
  ASSUME PicturesInv, NEW r \in Requests, FileStep(r)
  PROVE  /\ UNCHANGED <<picture, reverted, lost, pasted, left>>
         /\ crossed \subseteq crossed' /\ crossed' \in SUBSET Files /\ deleted' \in SUBSET Files
         /\ ~AtOne(r, Deletion) => crossed' = crossed
         /\ AtOne(r, Deletion) /\ Compressing(req[r].file) # {} => req[r].file \in crossed'
         /\ ~At(r, "delete_remove") /\ ~At(r, "delete_save") => deleted' = deleted
         /\ At(r, "delete_save") => deleted' = deleted \ {req[r].file}
         /\ At(r, "delete_remove") => deleted' = deleted \cup {req[r].file}
  <1>1. AtOne(r, Deletion) => req[r].file \in Files
    BY DeletionFacts
  <1>2. crossed' = IF AtOne(r, Deletion) /\ Compressing(req[r].file) # {} THEN crossed \cup {req[r].file} ELSE crossed
    BY DEF FileStep
  <1>3. /\ At(r, "delete_remove") => deleted' = deleted \cup {req[r].file}
        /\ At(r, "delete_save") => deleted' = deleted \ {req[r].file}
        /\ ~At(r, "delete_remove") /\ ~At(r, "delete_save") => deleted' = deleted
    BY DEF FileStep, At
  <1>4. At(r, "delete_remove") => AtOne(r, Deletion)
    BY DEF At, AtOne, Deletion
  <1>5. crossed' \in SUBSET Files /\ deleted' \in SUBSET Files
    BY <1>1, <1>2, <1>3, <1>4, PicturesFacts
  <1>6. QED
    BY <1>2, <1>3, <1>5 DEF FileStep

\* A new object.
LEMMA PutObjectKept ==
  ASSUME PicturesInv, NEW r \in Requests, NEW x, x = req[r].row, FileStep(r),
         NEW f \in Files, PutObject(r, f)
  PROVE  Keeps(r, x)
  <1>1. /\ req[r] \in PictureLocal /\ HasLocals(req[r]) /\ req[r].row = x /\ req[r].at = "put_object"
        /\ x \in Pictured /\ x # None
    BY AtWork DEF PutObject, At, Worker
  <1>2. PICK other, then : other = req[r].other /\ then = req[r].then
    OBVIOUS
  <1>3. /\ Fresh(f) /\ object' = object \cup {f} /\ record' = record
        /\ \A q \in Requests : ~At(q, "idle") => req[q].file # f
    BY DEF PutObject, Fresh
  <1>4. f # other /\ (other \in Files => record[other] # None) /\ \A q \in Requests : req[q].file # f
    BY <1>2, <1>3, PictureLocalsOf, PictureIdleFacts, PicturesFacts DEF PicturesInv, FilesAreNew, Fresh
  <1>5. Turns(r, "insert_record", f, x, other, then)
    <2>1. req \in [Requests -> PictureLocal]
      BY PictureLocalsOf DEF PicturesInv
    <2>2. /\ req' \in [Requests -> PictureLocal] /\ \A q \in Requests \ {r} : req'[q] = req[q]
          /\ req'[r].at = "insert_record" /\ req'[r].file = f /\ req'[r].row = x
          /\ req'[r].other = other /\ req'[r].then = then
      BY <1>1, <1>2, <2>1 DEF PutObject, PictureLocal, StorageAwaits
    <2>3. HasLocals(req'[r])
      BY <1>1, <1>2, <1>4, <2>2 DEF HasLocals, Storing, Worker, Avatar, Deletion
    <2>4. QED
      BY <2>2, <2>3 DEF Turns, Moves
  <1>6. UNCHANGED <<picture, reverted, lost, pasted, left>> /\ deleted' = deleted /\ crossed' = crossed
    BY <1>1, FileStepFrame DEF AtOne, At, Deletion
  <1>7. PicturesTyped'
    BY <1>3, <1>5, <1>6 DEF Turns, Moves, PicturesInv, PicturesTyped, PicturesTypeOK
  <1>8. KeepsNew(r)
    BY <1>3, <1>4, <1>5, <1>6 DEF KeepsNew, Turns, Fresh
  <1>9. KeepsErased(r)
    <2>1. f \notin deleted \ crossed
      BY <1>3, PicturesFacts, NoneIsNoStatus DEF Fresh
    <2>2. QED
      BY <1>3, <1>5, <1>6, <2>1, PicturesFacts DEF Turns, KeepsErased, Erasing, Deletion, Fresh
  <1>10. KeepsRow(r, x)
    <2>1. \A g \in Files : Names(req'[r], g) => Names(req[r], g) \/ Fresh(g)
      BY <1>1, <1>2, <1>3, <1>5 DEF Turns, Names
    <2>2. \A g : Shows(x, g)' = Shows(x, g)
      BY <1>6 DEF Shows
    <2>3. QED
      BY <1>1, <1>3, <1>5, <1>6, <2>1, <2>2 DEF KeepsRow, Turns
  <1>11. KeepsStored(r, x)
    <2>1. \A g : Stores(req'[r], g) => g = f
      BY <1>5 DEF Turns, Stores, Deletion
    <2>2. picture[x] # f
      BY <1>1, <1>3 DEF PicturesInv, FilesAreNew, Fresh
    <2>3. QED
      BY <1>3, <1>6, <2>1, <2>2 DEF KeepsStored, Shows
  <1>12. KeepsShown(r, x)
    <2>1. x \notin Loses(r) /\ req'[r].at # "url_object"
      BY <1>1, <1>5 DEF Loses, AtOne, At, Deletion, Turns
    <2>2. QED
      BY <1>3, <1>6, <2>1 DEF KeepsShown
  <1>13. KeepsHeld(r, x)
    <2>1. ~AtOne(r, Deletion) /\ req'[r].at = "insert_record" /\ Stores(req'[r], f)
      BY <1>1, <1>5 DEF AtOne, Deletion, Turns, Stores
    <2>2. \A g : ~Stores(req[r], g)
      BY <1>1 DEF Stores, Deletion
    <2>3. \A g : LapsedBy(r, g) => LapsedBy(r, g)' \/ g = f
      BY <1>3, <1>6, <2>1 DEF LapsedBy, Lapsed
    <2>4. \A g : Shows(x, g)' = Shows(x, g)
      BY <1>6 DEF Shows
    <2>5. QED
      BY <1>3, <2>1, <2>2, <2>3, <2>4 DEF KeepsHeld
  <1>14. QED
    BY <1>5, <1>7, <1>8, <1>9, <1>10, <1>11, <1>12, <1>13 DEF Keeps, Turns

\* Its row.
LEMMA InsertRecordKept ==
  ASSUME PicturesInv, NEW r \in Requests, NEW x, x = req[r].row, FileStep(r), InsertRecord(r)
  PROVE  Keeps(r, x)
  <1>1. /\ req[r] \in PictureLocal /\ HasLocals(req[r]) /\ req[r].row = x /\ req[r].at = "insert_record"
        /\ x \in Pictured /\ x # None
    BY AtWork DEF InsertRecord, At, Worker
  <1>2. PICK file, other, then : file = req[r].file /\ other = req[r].other /\ then = req[r].then
    OBVIOUS
  <1>3. /\ file \in Files /\ other \in Files \cup {None} /\ file # other
        /\ then = IF x \notin Avatars THEN "row_save" ELSE IF other = None THEN "avatar_set" ELSE "avatar_previous"
    BY <1>1, <1>2 DEF HasLocals, PictureLocal, Worker, Storing
  <1>4. record' = [record EXCEPT ![file] = "active"] /\ object' = object /\ Goto(r, then)
    BY <1>2 DEF InsertRecord
  <1>5. Turns(r, then, file, x, other, then)
    <2>1. \A local \in PictureLocal :
            /\ HasLocals(req[r]) /\ local.at = then /\ local.file = req[r].file /\ local.row = req[r].row
            /\ local.other = req[r].other /\ local.then = req[r].then
            => HasLocals(local)
      BY <1>1, <1>2, <1>3 DEF HasLocals, Storing, Worker, Avatar, Deletion
    <2>2. then \in Awaits /\ ~At(r, "idle")
      BY <1>1, <1>3 DEF Awaits, Avatar, At
    <2>3. QED
      BY <1>1, <1>2, <1>4, <2>1, <2>2, PictureGoesOn DEF PicturesInv
  <1>6. UNCHANGED <<picture, reverted, lost, pasted, left>> /\ deleted' = deleted /\ crossed' = crossed
    BY <1>1, FileStepFrame DEF AtOne, At, Deletion
  <1>7. /\ record \in [Files -> Records] /\ record' \in [Files -> Records] /\ record'[file] = "active"
        /\ \A f \in Files \ {file} : record'[f] = record[f]
    BY <1>3, <1>4, PicturesFacts DEF Records
  <1>8. record[file] = None /\ (other \in Files => record[other] # None)
    BY <1>1, <1>2, <1>3 DEF PicturesInv, FilesAreNew, At
  <1>9. PicturesTyped'
    BY <1>4, <1>5, <1>6, <1>7 DEF Turns, Moves, PicturesInv, PicturesTyped, PicturesTypeOK
  <1>10. KeepsNew(r)
    BY <1>2, <1>3, <1>5, <1>6, <1>7, <1>8, NoneIsNoStatus DEF KeepsNew, Turns
  <1>11. KeepsErased(r)
    <2>1. \A g \in deleted \ crossed : g \in Files /\ record[g] = "gone" /\ g # file
      BY <1>8, PicturesFacts, NoneIsNoStatus
    <2>2. \A g \in deleted' \ crossed' : g \in deleted /\ record'[g] = "gone" /\ g # file
      BY <1>6, <1>7, <2>1
    <2>3. /\ req'[r].at \notin Erasing /\ req'[r].at \notin {"compress_put", "compress_save"}
          /\ req'[r].file = file
      BY <1>3, <1>5 DEF Turns, Erasing, Deletion
    <2>4. \A g \in Files : record'[g] = "gone" => g \in deleted'
      BY <1>6, <1>7, PicturesFacts
    <2>5. QED
      BY <1>4, <1>6, <2>2, <2>3, <2>4 DEF KeepsErased
  <1>12. KeepsRow(r, x)
    <2>1. \A g : (Names(req'[r], g) => Names(req[r], g)) /\ Shows(x, g)' = Shows(x, g)
      BY <1>1, <1>2, <1>5, <1>6 DEF Turns, Names, Shows
    <2>2. QED
      BY <1>1, <1>4, <1>5, <1>6, <2>1 DEF KeepsRow, Turns
  <1>13. \A g \in Files : Stores(req'[r], g) <=> g = file
    BY <1>3, <1>5, PicturesFacts DEF Turns, Stores, Deletion
  <1>14. \A g : Stores(req[r], g) <=> g = file
    BY <1>1, <1>2 DEF Stores, Deletion
  <1>15. KeepsStored(r, x)
    BY <1>4, <1>6, <1>13, <1>14 DEF PicturesInv, StoredStay, KeepsStored, Shown, Shows
  <1>16. KeepsShown(r, x)
    <2>1. x \notin Loses(r) /\ req'[r].at # "url_object"
      BY <1>1, <1>3, <1>5 DEF Loses, AtOne, At, Deletion, Turns
    <2>2. QED
      BY <1>4, <1>6, <2>1 DEF KeepsShown
  <1>17. KeepsHeld(r, x)
    <2>1. ~AtOne(r, Deletion) /\ (req'[r].at = "avatar_set" => req'[r].other = None)
      BY <1>1, <1>3, <1>5 DEF AtOne, Deletion, Turns
    <2>2. \A g : LapsedBy(r, g) => LapsedBy(r, g)'
      BY <1>4, <1>6, <2>1 DEF LapsedBy, Lapsed
    <2>3. \A g : Shows(x, g)' = Shows(x, g)
      BY <1>6 DEF Shows
    <2>4. QED
      BY <1>4, <1>13, <1>14, <2>1, <2>2, <2>3 DEF KeepsHeld
  <1>18. QED
    BY <1>5, <1>9, <1>10, <1>11, <1>12, <1>15, <1>16, <1>17 DEF Keeps, Turns

----------------------------------------------------------------------------
(* Pictures: the steps of deleteByUrl *)

\* A deletion that goes on: its file is out of the bucket, or a worker was met, or its URL is not
\* its key.
LEMMA ErasingKept ==
  ASSUME PicturesInv, NEW r \in Requests, NEW x, x = req[r].row, FileStep(r), AtOne(r, Deletion),
         NEW label \in Erasing, Goto(r, label),
         object' = IF At(r, "url_object") THEN object \ ({req[r].file} \ Escaped) ELSE object,
         record' \in [Files -> Records],
         \A f \in Files : record'[f] # record[f] => f = req[r].file /\ record'[f] # None,
         \A f \in Files : record'[f] = "gone" => f \in deleted',
         deleted \ {req[r].file} \subseteq deleted',
         \A f \in deleted' \ crossed' : f \in deleted /\ record'[f] = "gone"
  PROVE  Keeps(r, x)
  <1>1. PICK file, other, then : file = req[r].file /\ other = req[r].other /\ then = req[r].then
    OBVIOUS
  <1>2. /\ x \in Pictured /\ x # None /\ file \in Files /\ other \in Files \cup {None} /\ file # other
        /\ record[file] # None /\ (other \in Files => record[other] # None)
        /\ (then = "idle" => other = None) /\ (then # "idle" => other \in Files /\ x \in Avatars)
        /\ (At(r, "url_object") => then = "idle")
        /\ (~At(r, "url_object") => file \notin object \ (crossed \cup Escaped))
    BY <1>1, DeletionFacts
  <1>3. Turns(r, label, file, x, other, then)
    <2>1. \A local \in PictureLocal :
            /\ HasLocals(req[r]) /\ local.at = label /\ local.file = req[r].file /\ local.row = req[r].row
            /\ local.other = req[r].other /\ local.then = req[r].then
            => HasLocals(local)
      <3>1. /\ req[r].row \in Pictured /\ req[r].file \in Files /\ req[r].file # req[r].other
            /\ IF req[r].then = "idle" THEN req[r].row \notin Avatars /\ req[r].other = None
               ELSE req[r].then = "avatar_set" /\ req[r].row \in Avatars /\ req[r].other # None
        BY DeletionFacts, PicturesFacts
      <3>2. label \in {"url_find", "delete_save", "delete_remove"}
        BY DEF Erasing, Deletion
      <3>3. QED
        BY <3>1, <3>2 DEF HasLocals, Storing, Worker, Avatar, Deletion
    <2>2. label \in Awaits /\ ~At(r, "idle")
      BY DEF Awaits, Erasing, Deletion, AtOne, At
    <2>3. QED
      BY <1>1, <2>1, <2>2, PictureGoesOn DEF PicturesInv
  <1>4. /\ UNCHANGED <<picture, reverted, lost, pasted, left>> /\ crossed \subseteq crossed'
        /\ crossed' \in SUBSET Files /\ deleted' \in SUBSET Files
        /\ Compressing(file) # {} => file \in crossed'
    BY <1>1, FileStepFrame
  <1>5. /\ object' \subseteq object /\ \A f \in object \ object' : f = file
        /\ (At(r, "url_object") => file \notin object' \ Escaped)
        /\ (~At(r, "url_object") => object' = object)
    BY <1>1
  <1>6. PicturesTyped'
    BY <1>3, <1>4, <1>5 DEF Turns, Moves, PicturesInv, PicturesTyped, PicturesTypeOK
  <1>7. KeepsNew(r)
    <2>1. record'[file] # None /\ label # "insert_record"
      BY <1>1, <1>2 DEF Erasing, Deletion
    <2>2. QED
      BY <1>1, <1>2, <1>3, <1>4, <2>1 DEF KeepsNew, Turns
  <1>8. KeepsErased(r)
    <2>1. file \notin object' \ (crossed' \cup Escaped)
      BY <1>2, <1>4, <1>5
    <2>2. QED
      BY <1>3, <1>4, <1>5, <2>1 DEF Turns, KeepsErased, Erasing, Deletion
  <1>9. KeepsRow(r, x)
    <2>1. \A f : (Names(req'[r], f) => Names(req[r], f)) /\ Shows(x, f)' = Shows(x, f)
      BY <1>1, <1>3, <1>4 DEF Turns, Names, Shows
    <2>2. Names(req[r], file)
      BY <1>1, <1>2 DEF Names
    <2>3. QED
      BY <1>2, <1>3, <1>4, <1>5, <2>1, <2>2 DEF KeepsRow, Turns
  <1>10. \A f : Stores(req'[r], f) <=> Stores(req[r], f)
    BY <1>1, <1>3 DEF Turns, Stores, AtOne, Deletion, Erasing
  <1>11. KeepsStored(r, x)
    <2>1. ASSUME NEW f \in Files \ pasted, Stores(req'[r], f)
          PROVE  f \in object' /\ ~Shows(x, f)' /\ Stores(req[r], f)
      <3>1. Stores(req[r], f) /\ f = other
        BY <1>1, <1>10, <2>1 DEF Stores, AtOne, Deletion
      <3>2. f \in object /\ ~Shown(f)
        BY <2>1, <3>1 DEF PicturesInv, StoredStay
      <3>3. QED
        BY <1>2, <1>4, <1>5, <3>1, <3>2 DEF Shown, Shows
    <2>2. QED
      BY <2>1 DEF KeepsStored
  <1>12. KeepsShown(r, x)
    <2>1. x \in Loses(r) => x \in Loses(r)'
      BY <1>1, <1>3, <1>4 DEF Loses, Turns, AtOne, At, Erasing, Deletion
    <2>2. x \notin reverted /\ file \notin pasted /\ At(r, "url_object") => picture[x] # file
      BY <1>1 DEF PicturesInv, ShownInv
    <2>3. label # "url_object"
      BY DEF Erasing
    <2>4. x \notin reverted /\ picture[x] \notin pasted /\ picture[x] \in object => picture[x] \in object'
      BY <1>5, <2>2
    <2>5. QED
      BY <1>3, <1>4, <2>1, <2>3, <2>4 DEF KeepsShown, Turns
  <1>13. KeepsHeld(r, x)
    <2>1. AtOne(r, Deletion)' /\ req'[r].file = file /\ req'[r].at # "avatar_set"
      BY <1>3 DEF Turns, AtOne, Erasing, Deletion
    <2>2. \A f : LapsedBy(r, f) => LapsedBy(r, f)'
      BY <1>1, <1>4, <1>5, <2>1 DEF LapsedBy, Lapsed
    <2>3. \A f : Shows(x, f)' = Shows(x, f)
      BY <1>4 DEF Shows
    <2>4. QED
      BY <1>5, <1>10, <2>1, <2>2, <2>3 DEF KeepsHeld
  <1>14. QED
    BY <1>3, <1>6, <1>7, <1>8, <1>9, <1>11, <1>12, <1>13 DEF Keeps, Turns

\* The steps of deleteByUrl.
LEMMA EraseKept ==
  ASSUME PicturesInv, NEW r \in Requests, NEW x, x = req[r].row, FileStep(r), AtOne(r, Deletion),
         UrlObject(r) \/ UrlFind(r) \/ DeleteSave(r) \/ DeleteRemove(r)
  PROVE  Keeps(r, x)
  <1>1. /\ UNCHANGED <<picture, reverted, lost, pasted, left>> /\ crossed \subseteq crossed'
        /\ crossed' \in SUBSET Files /\ deleted' \in SUBSET Files
        /\ Compressing(req[r].file) # {} => req[r].file \in crossed'
        /\ ~At(r, "delete_remove") /\ ~At(r, "delete_save") => deleted' = deleted
        /\ At(r, "delete_save") => deleted' = deleted \ {req[r].file}
        /\ At(r, "delete_remove") => deleted' = deleted \cup {req[r].file}
    BY FileStepFrame
  <1>2. /\ req[r].file \in Files /\ record[req[r].file] \in Records \ {None}
        /\ ~At(r, "url_object") => req[r].file \notin object \ (crossed \cup Escaped)
    BY DeletionFacts
  <1>3. CASE UrlObject(r)
    <2>1. /\ At(r, "url_object") /\ Goto(r, "url_find") /\ record' = record
          /\ object' = object \ ({req[r].file} \ Escaped)
      BY <1>3 DEF UrlObject, WithoutUrl
    <2>2. deleted' = deleted
      BY <1>1, <2>1 DEF At
    <2>3. "url_find" \in Erasing
      BY DEF Erasing, Deletion
    <2>4. QED
      BY <1>1, <2>1, <2>2, <2>3, ErasingKept, PicturesFacts
  <1>4. CASE UrlFind(r) /\ Found(req[r].file)
    <2>1. At(r, "url_find") /\ Goto(r, "delete_save") /\ object' = object /\ record' = record
      BY <1>4 DEF UrlFind
    <2>2. deleted' = deleted /\ ~At(r, "url_object")
      BY <1>1, <2>1 DEF At
    <2>3. "delete_save" \in Erasing
      BY DEF Erasing, Deletion
    <2>4. QED
      BY <1>1, <2>1, <2>2, <2>3, ErasingKept, PicturesFacts
  <1>5. CASE UrlFind(r) /\ ~Found(req[r].file)
    <2>1. At(r, "url_find") /\ Goto(r, req[r].then) /\ object' = object /\ record' = record
      BY <1>5 DEF UrlFind
    <2>2. deleted' = deleted /\ ~At(r, "url_object")
      BY <1>1, <2>1 DEF At
    <2>3. req[r].file \in deleted
      BY <1>2, <1>5, PicturesFacts DEF Records, Found
    <2>4. req[r].file \notin object \ (left' \cup crossed' \cup (Escaped \cap deleted'))
      BY <1>1, <1>2, <2>2, <2>3
    <2>5. /\ left' \in SUBSET Files /\ left \subseteq left' /\ record' \in [Files -> Records]
          /\ \A f \in Files : record'[f] = "gone" => f \in deleted'
          /\ \A f \in deleted' \ crossed' :
               (f \notin deleted => f \notin object' \ Escaped /\ Compressing(f) = {}) /\ record'[f] = "gone"
      BY <1>1, <2>1, <2>2, PicturesFacts
    <2>6. QED
      BY <1>1, <2>1, <2>2, <2>4, <2>5, ReturnKept
  <1>6. CASE DeleteSave(r)
    <2>1. /\ At(r, "delete_save") /\ Goto(r, "delete_remove") /\ object' = object
          /\ record' = [record EXCEPT ![req[r].file] = "deleted"]
      BY <1>6 DEF DeleteSave
    <2>2. deleted' = deleted \ {req[r].file} /\ ~At(r, "url_object")
      BY <1>1, <2>1 DEF At
    <2>3. "delete_remove" \in Erasing
      BY DEF Erasing, Deletion
    <2>4. /\ record' \in [Files -> Records]
          /\ \A f \in Files : record'[f] # record[f] => f = req[r].file /\ record'[f] # None
          /\ \A f \in Files : record'[f] = "gone" => f \in deleted'
      BY <1>2, <2>1, <2>2, PicturesFacts, NoneIsNoStatus DEF Records
    <2>5. \A f \in deleted' \ crossed' : f \in deleted /\ record'[f] = "gone"
      BY <1>1, <2>1, <2>2, PicturesFacts
    <2>6. QED
      BY <2>1, <2>2, <2>3, <2>4, <2>5, ErasingKept
  <1>7. CASE DeleteRemove(r)
    <2>1. /\ At(r, "delete_remove") /\ Goto(r, req[r].then) /\ object' = object
          /\ record' = [record EXCEPT ![req[r].file] = "gone"]
      BY <1>7 DEF DeleteRemove
    <2>2. deleted' = deleted \cup {req[r].file} /\ ~At(r, "url_object")
      BY <1>1, <2>1 DEF At
    <2>3. req[r].file \notin object \ (left' \cup crossed' \cup (Escaped \cap deleted'))
      BY <1>1, <1>2, <2>2
    <2>4. /\ record' \in [Files -> Records]
          /\ \A f \in Files : record'[f] # record[f] => f = req[r].file /\ record'[f] # None
          /\ \A f \in Files : record'[f] = "gone" => f \in deleted'
      BY <1>2, <2>1, <2>2, PicturesFacts, NoneIsNoStatus DEF Records
    <2>5. \A f \in deleted' \ crossed' :
            (f \notin deleted => f \notin object' \ Escaped /\ Compressing(f) = {}) /\ record'[f] = "gone"
      <3>1. req[r].file \notin crossed' => req[r].file \notin object \ Escaped /\ Compressing(req[r].file) = {}
        BY <1>1, <1>2, <2>2
      <3>2. QED
        BY <1>1, <1>2, <2>1, <2>2, <3>1, PicturesFacts
    <2>6. left' \in SUBSET Files /\ left \subseteq left' /\ deleted \subseteq deleted'
      BY <1>1, <2>2, PicturesFacts
    <2>7. QED
      BY <1>1, <2>1, <2>3, <2>4, <2>5, <2>6, ReturnKept
  <1>8. QED
    BY <1>3, <1>4, <1>5, <1>6, <1>7

----------------------------------------------------------------------------
(* Pictures: files that are compressed *)

\* A worker that leaves deleted files alone.
LEMMA WorkKept ==
  ASSUME PicturesInv, NEW r \in Requests, FileStep(r), req[r].at \in Worker,
         NEW label \in {"idle"} \cup Worker, Goto(r, label), label # "compress_find",
         object' = object \/ (object' = object \cup {req[r].file} /\ req[r].file \in object \cup crossed),
         record' = record \/ \E s \in {"active", "failed"} : record' = [record EXCEPT ![req[r].file] = s],
         label \in {"compress_put", "compress_save"} => req[r].file \in object \cup crossed,
         record' # record \/ label # "idle" => req[r].file \notin deleted \ crossed
  PROVE  Keeps(r, None)
  <1>1. req[r] \in PictureLocal /\ HasLocals(req[r]) /\ ~At(r, "idle")
    BY PictureLocalsOf DEF PicturesInv, At, Worker
  <1>2. PICK file : file = req[r].file
    OBVIOUS
  <1>3. file \in Files /\ req[r].row = None /\ req[r].other = None /\ req[r].then = "idle"
    BY <1>1, <1>2 DEF HasLocals, Worker
  <1>4. /\ Moves(r) /\ req'[r].at = label /\ req'[r].row = None /\ req'[r].other = None
        /\ req'[r].file = IF label = "idle" THEN None ELSE file
    <2>1. CASE label = "idle"
      BY <2>1, PictureReturns DEF PicturesInv, IsOver, Turns
    <2>2. CASE label # "idle"
      <3>1. label \in Awaits
        BY <2>2 DEF Awaits
      <3>2. \A local \in PictureLocal :
              /\ HasLocals(req[r]) /\ local.at = label /\ local.file = req[r].file
              /\ local.row = req[r].row /\ local.other = req[r].other /\ local.then = req[r].then
              => HasLocals(local)
        BY <1>2, <1>3, <2>2, PicturesFacts DEF HasLocals, Storing, Worker, Avatar, Deletion
      <3>3. Turns(r, label, req[r].file, req[r].row, req[r].other, req[r].then)
        BY <1>1, <3>1, <3>2, PictureGoesOn DEF PicturesInv
      <3>4. QED
        BY <1>2, <1>3, <2>2, <3>3 DEF Turns
    <2>3. QED
      BY <2>1, <2>2
  <1>5. UNCHANGED <<picture, reverted, lost, pasted, left>> /\ deleted' = deleted /\ crossed' = crossed
    BY FileStepFrame DEF AtOne, At, Deletion, Worker
  <1>6. /\ record \in [Files -> Records] /\ record' \in [Files -> Records]
        /\ \A f \in Files : record'[f] # record[f] => f = file /\ record'[f] # None /\ record'[f] # "gone"
    BY <1>2, <1>3, PicturesFacts, NoneIsNoStatus DEF Records
  <1>7. object' \in SUBSET Files /\ object \subseteq object' /\ \A f \in object' \ object : f \in crossed
    BY <1>2, <1>3, PicturesFacts
  <1>8. PicturesTyped'
    BY <1>4, <1>5, <1>6, <1>7 DEF Moves, PicturesInv, PicturesTyped, PicturesTypeOK
  <1>9. KeepsNew(r)
    <2>1. record[file] # None
      BY <1>2, <1>3 DEF PicturesInv, FilesAreNew, At, Worker
    <2>2. record'[file] # None
      BY <1>3, <1>6, <2>1
    <2>3. label # "insert_record"
      BY DEF Worker
    <2>4. QED
      BY <1>2, <1>4, <1>5, <1>6, <2>2, <2>3, PicturesFacts DEF KeepsNew
  <1>10. KeepsErased(r)
    <2>1. \A f \in deleted \ crossed : record'[f] = "gone"
      <3>1. \A f \in deleted \ crossed : f \in Files /\ record[f] = "gone"
        BY PicturesFacts
      <3>2. QED
        BY <1>2, <1>6, <3>1
    <2>2. label \notin Erasing
      BY DEF Worker, Erasing, Deletion
    <2>3. label \in {"compress_put", "compress_save"} => req'[r].file \in object' \cup crossed'
      BY <1>2, <1>4, <1>5, <1>7
    <2>4. req'[r].file \in deleted \ crossed => label = "idle"
      BY <1>2, <1>4
    <2>5. \A f \in Files : record'[f] = "gone" => f \in deleted'
      BY <1>5, <1>6, PicturesFacts
    <2>6. QED
      BY <1>4, <1>5, <1>7, <2>1, <2>2, <2>3, <2>4, <2>5 DEF KeepsErased
  <1>11. QED
    BY <1>3, <1>4, <1>5, <1>7, <1>8, <1>9, <1>10, RowlessKept

\* The steps of the worker.
LEMMA CompressStepKept ==
  ASSUME PicturesInv, NEW r \in Requests, FileStep(r), CompressStep(r)
  PROVE  Keeps(r, None)
  <1>1. req[r].at \in {"compress_get", "compress_put", "compress_save", "compress_failed"}
          => req[r].file \notin deleted \ crossed
    BY DEF PicturesInv, ErasedStayAway, Compressing, AtOne
  <1>2. Found(req[r].file) => req[r].file \notin deleted \ crossed
    BY DEF PicturesInv, ErasedStayAway, Found
  <1>3. req[r].at \in {"compress_put", "compress_save"} => req[r].file \in object \cup crossed
    BY DEF PicturesInv, ErasedStayAway, AtOne
  <1>4. CASE CompressFind(r)
    <2>1. PICK label : label = IF Found(req[r].file) THEN "compress_get" ELSE "idle"
      OBVIOUS
    <2>2. /\ Goto(r, label) /\ object' = object /\ record' = record /\ req[r].at \in Worker
          /\ label \in {"idle"} \cup Worker
      BY <1>4, <2>1 DEF CompressFind, At, Worker
    <2>3. label = "idle" \/ (label = "compress_get" /\ req[r].file \notin deleted \ crossed)
      BY <1>2, <2>1
    <2>4. QED
      BY <2>2, <2>3, WorkKept
  <1>5. CASE CompressGet(r)
    <2>1. /\ Goto(r, "compress_put") /\ object' = object /\ record' = record /\ req[r].at \in Worker
          /\ "compress_put" \in {"idle"} \cup Worker /\ req[r].file \in object
      BY <1>5 DEF CompressGet, At, Worker
    <2>2. QED
      BY <1>1, <1>5, <2>1, WorkKept DEF CompressGet, At
  <1>6. CASE CompressPut(r)
    <2>1. /\ Goto(r, "compress_save") /\ object' = object \cup {req[r].file} /\ record' = record
          /\ req[r].at \in Worker /\ "compress_save" \in {"idle"} \cup Worker
      BY <1>6 DEF CompressPut, At, Worker
    <2>2. QED
      BY <1>1, <1>3, <1>6, <2>1, WorkKept DEF CompressPut, At
  <1>7. CASE CompressSave(r)
    <2>1. /\ Goto(r, "idle") /\ object' = object /\ record' = [record EXCEPT ![req[r].file] = "active"]
          /\ req[r].at \in Worker
      BY <1>7 DEF CompressSave, At, Worker
    <2>2. QED
      BY <1>1, <1>7, <2>1, WorkKept DEF CompressSave, At
  <1>8. CASE CompressFail(r)
    <2>1. /\ Goto(r, "compress_failed") /\ object' = object /\ record' = record
          /\ req[r].at \in Worker /\ "compress_failed" \in {"idle"} \cup Worker
      BY <1>8 DEF CompressFail, Worker
    <2>2. QED
      BY <1>1, <1>8, <2>1, WorkKept DEF CompressFail
  <1>9. CASE CompressFailed(r)
    <2>1. /\ Goto(r, "idle") /\ object' = object /\ record' = [record EXCEPT ![req[r].file] = "failed"]
          /\ req[r].at \in Worker
      BY <1>9 DEF CompressFailed, At, Worker
    <2>2. QED
      BY <1>1, <1>9, <2>1, WorkKept DEF CompressFailed, At
  <1>10. QED
    BY <1>4, <1>5, <1>6, <1>7, <1>8, <1>9 DEF CompressStep

\* A step of StoredFiles.
LEMMA FileStepKept ==
  ASSUME PicturesInv, NEW r \in Requests, FileStep(r)
  PROVE  PicturesInv'
  <1>1. ~At(r, "delete_find") /\ ~At(r, "delete_object")
    BY PictureLocalsOf DEF PicturesInv, At, Awaits, Storing, Avatar, Deletion, Worker
  <1>2. PICK x : x = req[r].row
    OBVIOUS
  <1>3. CASE \E f \in Files : PutObject(r, f)
    BY <1>2, <1>3, PutObjectKept, PicturesKept
  <1>4. CASE InsertRecord(r)
    BY <1>2, <1>4, InsertRecordKept, PicturesKept
  <1>5. CASE UrlObject(r) \/ UrlFind(r) \/ DeleteSave(r) \/ DeleteRemove(r)
    <2>1. AtOne(r, Deletion)
      BY <1>5 DEF UrlObject, UrlFind, DeleteSave, DeleteRemove, AtOne, At, Deletion
    <2>2. QED
      BY <1>2, <1>5, <2>1, EraseKept, PicturesKept
  <1>6. CASE CompressStep(r)
    BY <1>6, CompressStepKept, PicturesKept
  <1>7. QED
    BY <1>1, <1>3, <1>4, <1>5, <1>6 DEF FileStep, StorageStep, DeleteFind, DeleteObject

----------------------------------------------------------------------------
(* Pictures: the invariant *)

\* A company is given a logo by hand: a file that is shown nowhere else is then left, and what is
\* known of the one it is given no longer holds.
LEMMA SetLogoKept ==
  ASSUME PicturesInv, NEW x \in Logos, NEW file \in Files \cup {None}, SetLogo(x, file)
  PROVE  PicturesInv'
  <1>1. /\ file # None => record[file] # None
        /\ picture' = [picture EXCEPT ![x] = file]
        /\ left' = left \cup {g \in Files \ {file} : picture[x] = g}
        /\ pasted' = pasted \cup ({file} \ {None, picture[x]})
        /\ UNCHANGED <<object, record, req, reverted, lost, deleted, crossed>>
    BY DEF SetLogo
  <1>2. /\ x \in Pictured /\ x \notin Portfolios /\ x \notin Avatars
        /\ picture'[x] = file /\ \A y \in Pictured \ {x} : picture'[y] = picture[y]
    BY <1>1, PicturesFacts DEF Pictured
  <1>3. file \in Files => file = picture[x] \/ file \in pasted'
    BY <1>1, PicturesFacts
  <1>4. \A y \in Pictured : picture'[y] \in Files \ pasted' => picture'[y] = picture[y]
    BY <1>2, <1>3
  <1>5. pasted \subseteq pasted' /\ left \subseteq left'
    BY <1>1
  <1>6. PicturesTyped'
    <2>1. picture' \in [Pictured -> Files \cup {None} \cup NoRow]
      BY <1>1, PicturesFacts
    <2>2. /\ \A y \in Pictured : y \notin Portfolios => picture'[y] \in Files \cup {None}
          /\ \A y \in Portfolios : picture'[y] # None
      BY <1>2, PicturesFacts DEF Pictured
    <2>3. left' \in SUBSET Files /\ pasted' \in SUBSET Files
      BY <1>1, PicturesFacts
    <2>4. QED
      BY <1>1, <2>1, <2>2, <2>3 DEF PicturesInv, PicturesTyped, PicturesTypeOK
  <1>7. FilesAreNew'
    BY <1>1, <1>2, PicturesFacts DEF PicturesInv, FilesAreNew, At
  <1>8. ErasedStayAway'
    BY <1>1 DEF PicturesInv, ErasedStayAway, AtOne, Compressing
  <1>9. OneRowEach'
    <2>1. ASSUME NEW f \in Files \ pasted', NEW y \in Pictured, Uses(y, f)'
          PROVE  Uses(y, f)
      BY <1>1, <1>4, <2>1 DEF Uses
    <2>2. QED
      BY <1>5, <2>1 DEF PicturesInv, OneRowEach
  <1>10. StoredStay'
    <2>1. ASSUME NEW f \in Files \ pasted', Shown(f)'
          PROVE  Shown(f)
      BY <1>4, <2>1 DEF Shown
    <2>2. QED
      BY <1>1, <1>5, <2>1 DEF PicturesInv, StoredStay
  <1>11. ShownInv'
    <2>1. \A r \in Requests : Loses(r)' = Loses(r)
      <3>1. \A y \in Avatars : picture'[y] = picture[y]
        BY <1>2 DEF Pictured
      <3>2. QED
        BY <1>1, <3>1 DEF Loses, AtOne, At
    <2>2. ShownPicturesExist'
      BY <1>1, <1>4, <1>5, <2>1 DEF PicturesInv, ShownInv, ShownPicturesExist
    <2>3. \A r \in Requests : At(r, "url_object") => req[r].row \in Pictured /\ req[r].file \in Files
      BY PictureLocalsOf DEF PicturesInv, At, HasLocals, Worker
    <2>4. ASSUME NEW r \in Requests, At(r, "url_object"), req[r].row \notin reverted,
                 req[r].file \notin pasted'
          PROVE  picture'[req[r].row] # req[r].file
      <3>1. picture[req[r].row] # req[r].file
        BY <1>5, <2>4 DEF PicturesInv, ShownInv
      <3>2. QED
        BY <1>4, <2>3, <2>4, <3>1
    <2>5. QED
      BY <1>1, <2>2, <2>4 DEF ShownInv, At
  <1>12. KeptInv'
    <2>1. \A f : Away(f) => Away(f)'
      BY <1>1 DEF Away, Lapsed, AtOne
    <2>2. ASSUME NEW f \in Files, Shown(f)
          PROVE  Shown(f)' \/ Away(f)'
      <3>1. PICK y \in Pictured : picture[y] = f
        BY <2>2 DEF Shown
      <3>2. CASE y = x /\ f # file
        BY <1>1, <3>1, <3>2 DEF Away, Lapsed
      <3>3. CASE ~(y = x /\ f # file)
        BY <1>2, <3>1, <3>3 DEF Shown
      <3>4. QED
        BY <3>2, <3>3
    <2>3. \A f \in Files : Away(f)' \/ Shown(f)' \/ \E r \in Requests : Stores(req[r], f)
      BY <2>1, <2>2 DEF PicturesInv, KeptInv
    <2>4. \A r \in Requests : At(r, "avatar_set") /\ req[r].other # None => Away(req[r].file)
      BY DEF PicturesInv, KeptInv
    <2>5. ASSUME NEW r \in Requests, At(r, "avatar_set"), req[r].other # None
          PROVE  Away(req[r].file)'
      <3>1. PICK f : f = req[r].file /\ Away(f)'
        BY <2>1, <2>4, <2>5
      <3>2. QED
        BY <1>1, <3>1
    <2>6. QED
      BY <1>1, <2>3, <2>5 DEF KeptInv, At
  <1>13. QED
    BY <1>6, <1>7, <1>8, <1>9, <1>10, <1>11, <1>12 DEF PicturesInv

\* Every step about pictures keeps the invariant.
LEMMA PictureStepsKeep ==
  ASSUME PicturesInv, NextPicture
  PROVE  PicturesInv'
  <1>1. CASE \E r \in Requests, x \in Pictured :
               PortfolioRoutes(r, x) \/ BrandingRoute(r, x) \/ ReplaceAvatar(r, x)
    <2>1. PICK r \in Requests, x \in Pictured :
            PortfolioRoutes(r, x) \/ BrandingRoute(r, x) \/ ReplaceAvatar(r, x)
      BY <1>1
    <2>2. \/ CreatePortfolio(r, x) \/ Replace(r, x) \/ EditOther(r, x) \/ RemovePortfolio(r, x)
          \/ ReplaceAvatar(r, x)
      BY <2>1 DEF PortfolioRoutes, BrandingRoute
    <2>3. QED
      BY <2>2, BeginKept, PicturesKept
  <1>2. CASE \E x \in Pictured : CompanyRoute(x)
    BY <1>2, SetLogoKept DEF CompanyRoute
  <1>3. CASE \E r \in Requests : PictureStep(r)
    <2>1. PICK r \in Requests : PictureStep(r)
      BY <1>3
    <2>2. PICK x : x = req[r].row
      OBVIOUS
    <2>3. CASE RowSave(r) \/ RowDelete(r) \/ AvatarPrevious(r) \/ AvatarSet(r) \/ FailDeletion(r)
      BY <2>2, <2>3, RowSaveKept, RowDeleteKept, AvatarPreviousKept, AvatarSetKept, FailDeletionKept,
        PicturesKept
    <2>4. CASE FailRequest(r) \/ DieRequest(r)
      BY <2>2, <2>4, FailedKept, PicturesKept
    <2>5. CASE FileStep(r) \/ \E f \in Files : Compress(r, f)
      BY <2>5, FileStepKept, CompressKept, PicturesKept
    <2>6. QED
      BY <2>1, <2>3, <2>4, <2>5 DEF PictureStep
  <1>4. QED
    BY <1>1, <1>2, <1>3 DEF NextPicture

----------------------------------------------------------------------------
(* Imports *)

\* Where a step of r leaves it, and its draft.
GoesTo(r, at, file) ==
  /\ req' \in [Requests -> ImportLocal] /\ \A q \in Requests \ {r} : req'[q] = req[q]
  /\ req'[r] = PictureIdle \/ ImportHasLocals(req'[r])
  /\ req'[r].at = at /\ req'[r].file = file

Drafts(r, at) ==
  /\ draft' \in [Requests -> Draft] /\ \A q \in Requests \ {r} : draft'[q] = draft[q]
  /\ at \in {"idle"} \cup Taking => draft'[r] = NoDraft
  /\ at = "import_save" => draft'[r].next \in Items

\* What a step of r must keep of the files ...
KeepsWorkbooks(r) ==
  /\ \A f \in Files : record'[f] # record[f] => f = req[r].file /\ record'[f] # None
  /\ \A f \in object' \ object : record[f] = None /\ f = req'[r].file
  /\ \A f \in object \ object' : f = req[r].file
  /\ \A f \in object' : record'[f] \notin {"deleted", "gone"}
  /\ req[r].file \in object' => req[r].file \in stray' \cup imported' \cup {req'[r].file}
  /\ req'[r].file \in Files => (record'[req'[r].file] = None <=> req'[r].at = "insert_record")
  /\ req'[r].at = "insert_record" =>
       req'[r].file \in object' /\ \A q \in Requests \ {r} : req[q].file # req'[r].file
  /\ req'[r].at \in {"delete_save", "delete_remove"} => req'[r].file \notin object'

\* ... and of the items.
KeepsSources(r) ==
  /\ imported \subseteq imported' /\ stray \subseteq stray' /\ withdrawn \subseteq withdrawn'
  /\ \A f \in imported' \ imported : f = req[r].file /\ record'[f] # None /\ (f \notin withdrawn' => Available(f)')
  /\ req'[r].file \in Files \ withdrawn' =>
       /\ \A q \in Requests \ {r} : req[q].file # req'[r].file
       /\ req'[r].at \in Importing => req'[r].file = req[r].file /\ Available(req[r].file)'
       /\ req'[r].file \notin imported'
  /\ \A i \in Items : item'[i] \in Files => item'[i] \in imported'
  /\ req'[r].at = "item_save" /\ draft'[r].source \in Files => draft'[r].source \in imported'

ImportsKeep(r) ==
  /\ GoesTo(r, req'[r].at, req'[r].file) /\ Drafts(r, req'[r].at)
  /\ object' \in SUBSET Files /\ record' \in [Files -> Records]
  /\ item' \in [Items -> Files \cup {ByHand, None}] /\ imported' \in SUBSET Files
  /\ stray' \in SUBSET Files /\ withdrawn' \in SUBSET Files
  /\ KeepsWorkbooks(r) /\ KeepsSources(r)

\* Such a step keeps the files.
LEMMA WorkbooksKept ==
  ASSUME IInv, NEW r \in Requests, ImportsKeep(r)
  PROVE  WorkbooksAreNew'
  <1>1. \A q \in Requests \ {r} : req'[q] = req[q]
    BY DEF ImportsKeep, GoesTo
  <1>2. KeepsWorkbooks(r) /\ KeepsSources(r)
    BY DEF ImportsKeep
  <1>3. imported \in SUBSET Files /\ object \in SUBSET Files /\ object' \in SUBSET Files
    BY DEF ImportsKeep, IInv, ImportsTyped, ImportsTypeOK, PicturesTypeOK
  <1>4. \A f \in Files : record[f] # None => record'[f] # None
    BY <1>2 DEF KeepsWorkbooks
  <1>5. \A f \in imported' : record'[f] # None
    BY <1>2, <1>3, <1>4 DEF KeepsSources, IInv, WorkbooksAreNew
  <1>6. ASSUME NEW f \in object'
        PROVE  f \in stray' \cup imported' \/ \E q \in Requests : req'[q].file = f
    <2>1. CASE f \in object
      <3>1. f \in stray \cup imported \/ \E q \in Requests : req[q].file = f
        BY <2>1 DEF IInv, WorkbooksAreNew
      <3>2. CASE f \in stray \cup imported
        BY <1>2, <3>2 DEF KeepsSources
      <3>3. CASE \E q \in Requests : req[q].file = f
        <4>1. PICK q \in Requests : req[q].file = f
          BY <3>3
        <4>2. q = r => f \in stray' \cup imported' \cup {req'[r].file}
          BY <1>2, <1>6, <4>1 DEF KeepsWorkbooks
        <4>3. QED
          BY <1>1, <4>1, <4>2
      <3>4. QED
        BY <3>1, <3>2, <3>3
    <2>2. CASE f \notin object
      BY <1>2, <2>2 DEF KeepsWorkbooks
    <2>3. QED
      BY <2>1, <2>2
  <1>7. ASSUME NEW q \in Requests
        PROVE  /\ req'[q].file \in Files => (record'[req'[q].file] = None <=> req'[q].at = "insert_record")
               /\ req'[q].at = "insert_record" => req'[q].file \in object'
               /\ req'[q].at \in {"delete_save", "delete_remove"} => req'[q].file \notin object'
               /\ req'[q].at = "insert_record" => \A p \in Requests \ {q} : req'[p].file # req'[q].file
    <2>1. CASE q = r
      BY <1>1, <1>2, <2>1 DEF KeepsWorkbooks
    <2>2. CASE q # r
      <3>1. /\ req[q].file \in Files => (record[req[q].file] = None <=> req[q].at = "insert_record")
            /\ req[q].at = "insert_record" => req[q].file \in object
            /\ req[q].at \in {"delete_save", "delete_remove"} => req[q].file \notin object
            /\ req[q].at = "insert_record" => \A p \in Requests \ {q} : req[p].file # req[q].file
        BY DEF IInv, WorkbooksAreNew, At
      <3>2. req'[q] = req[q]
        BY <1>1, <2>2
      <3>3. req[q].at = "insert_record" => req[q].file # req[r].file /\ req[q].file \in Files /\ record[req[q].file] = None
        BY <1>3, <2>2, <3>1
      <3>4. req[q].at = "insert_record" => record'[req[q].file] = None /\ req[q].file \in object'
        BY <1>2, <3>1, <3>3 DEF KeepsWorkbooks
      <3>5. req[q].file \in Files => (record'[req[q].file] = None <=> req[q].at = "insert_record")
        BY <1>4, <3>1, <3>4
      <3>6. req[q].at \in {"delete_save", "delete_remove"} => req[q].file \notin object'
        BY <1>2, <1>3, <3>1 DEF KeepsWorkbooks
      <3>7. ASSUME req[q].at = "insert_record"
            PROVE  req'[r].file # req[q].file
        <4>1. SUFFICES ASSUME req'[r].file = req[q].file
                       PROVE  FALSE
          OBVIOUS
        <4>2. req'[r].at = "insert_record"
          BY <1>2, <3>3, <3>4, <3>7, <4>1 DEF KeepsWorkbooks
        <4>3. QED
          BY <1>2, <2>2, <4>1, <4>2 DEF KeepsWorkbooks
      <3>8. QED
        BY <1>1, <2>2, <3>1, <3>2, <3>4, <3>5, <3>6, <3>7
    <2>3. QED
      BY <2>1, <2>2
  <1>8. \A f \in object' : record'[f] \notin {"deleted", "gone"}
    BY <1>2 DEF KeepsWorkbooks
  <1>9. QED
    BY <1>5, <1>6, <1>7, <1>8 DEF WorkbooksAreNew, At

\* And the sources of items.
LEMMA SourcesKept ==
  ASSUME IInv, NEW r \in Requests, ImportsKeep(r)
  PROVE  WorkbooksStay'
  <1>1. /\ \A q \in Requests \ {r} : req'[q] = req[q]
        /\ \A q \in Requests \ {r} : draft'[q] = draft[q]
    BY DEF ImportsKeep, GoesTo, Drafts
  <1>2. KeepsWorkbooks(r) /\ KeepsSources(r)
    BY DEF ImportsKeep
  <1>3. imported \in SUBSET Files
    BY DEF IInv, ImportsTyped, ImportsTypeOK
  <1>4. ASSUME NEW f \in Files, f # req[r].file, Available(f)
        PROVE  Available(f)'
    BY <1>2, <1>4 DEF KeepsWorkbooks, Available
  <1>5. \A q \in Requests : req[q].file \in Files \ withdrawn =>
          /\ \A p \in Requests \ {q} : req[p].file # req[q].file
          /\ req[q].at \in Importing => Available(req[q].file)
          /\ req[q].file \notin imported
    BY DEF IInv, WorkbooksStay
  <1>6. ASSUME NEW q \in Requests, req'[q].file \in Files \ withdrawn'
        PROVE  /\ \A p \in Requests \ {q} : req'[p].file # req'[q].file
               /\ req'[q].at \in Importing => req'[q].file \in object' /\ record'[req'[q].file] = "active"
               /\ req'[q].file \notin imported'
    <2>1. CASE q = r
      <3>1. req'[r].at \in Importing => req'[r].file \in object' /\ record'[req'[r].file] = "active"
        <4>1. req'[r].at \in Importing => req'[r].file = req[r].file /\ Available(req[r].file)'
          BY <1>2, <1>6, <2>1 DEF KeepsSources
        <4>2. QED
          BY <4>1 DEF Available
      <3>2. QED
        BY <1>1, <1>2, <1>6, <2>1, <3>1 DEF KeepsSources
    <2>2. CASE q # r
      <3>1. req'[q] = req[q] /\ req[q].file \in Files \ withdrawn
        BY <1>1, <1>2, <1>6, <2>2 DEF KeepsSources
      <3>2. req[q].file # req[r].file
        BY <1>5, <2>2, <3>1
      <3>3. req[q].file # req'[r].file
        BY <1>2, <1>6, <2>2, <3>1 DEF KeepsSources
      <3>4. req[q].file \notin imported'
        BY <1>2, <1>5, <3>1, <3>2 DEF KeepsSources
      <3>5. req[q].at \in Importing => Available(req[q].file)'
        BY <1>4, <1>5, <3>1, <3>2
      <3>6. QED
        BY <1>1, <1>5, <3>1, <3>3, <3>4, <3>5 DEF Available
    <2>3. QED
      BY <2>1, <2>2
  <1>7. ASSUME NEW f \in imported' \ withdrawn'
        PROVE  Available(f)'
    <2>1. CASE f \in imported
      <3>1. f \notin withdrawn /\ Available(f) /\ f \in Files
        BY <1>2, <1>3, <1>7, <2>1 DEF KeepsSources, IInv, WorkbooksStay
      <3>2. f # req[r].file
        BY <1>5, <2>1, <3>1
      <3>3. QED
        BY <1>4, <3>1, <3>2
    <2>2. CASE f \notin imported
      BY <1>2, <1>7, <2>2 DEF KeepsSources
    <2>3. QED
      BY <2>1, <2>2
  <1>8. ASSUME NEW q \in Requests, req'[q].at = "item_save", draft'[q].source \in Files
        PROVE  draft'[q].source \in imported'
    <2>1. CASE q = r
      BY <1>2, <1>8, <2>1 DEF KeepsSources
    <2>2. CASE q # r
      BY <1>1, <1>2, <1>8, <2>2 DEF KeepsSources, IInv, WorkbooksStay, At
    <2>3. QED
      BY <2>1, <2>2
  <1>9. \A i \in Items : item'[i] \in Files => item'[i] \in imported'
    BY <1>2 DEF KeepsSources
  <1>10. QED
    BY <1>6, <1>7, <1>8, <1>9 DEF WorkbooksStay, At, Available

\* A step that keeps all this keeps the invariant.
LEMMA ImportsKept ==
  ASSUME IInv, UNCHANGED <<picture, pictureHistory>>, NEW r \in Requests, ImportsKeep(r)
  PROVE  IInv'
  <1>1. PicturesTypeOK(ImportLocal)'
    BY DEF ImportsKeep, GoesTo, IInv, ImportsTyped, PicturesTypeOK, pictureHistory
  <1>2. /\ req' \in [Requests -> ImportLocal] /\ \A q \in Requests \ {r} : req'[q] = req[q]
        /\ req'[r] = PictureIdle \/ ImportHasLocals(req'[r])
        /\ draft' \in [Requests -> Draft] /\ \A q \in Requests \ {r} : draft'[q] = draft[q]
        /\ req'[r].at \in {"idle"} \cup Taking => draft'[r] = NoDraft
        /\ req'[r].at = "import_save" => draft'[r].next \in Items
    BY DEF ImportsKeep, GoesTo, Drafts
  <1>3. \A q \in Requests : /\ req[q] = PictureIdle \/ ImportHasLocals(req[q])
                            /\ req[q].at \in {"idle"} \cup Taking => draft[q] = NoDraft
                            /\ req[q].at = "import_save" => draft[q].next \in Items
    BY DEF IInv, ImportsTyped, ImportsTypeOK, At
  <1>4. \A q \in Requests : /\ req'[q] = PictureIdle \/ ImportHasLocals(req'[q])
                            /\ req'[q].at \in {"idle"} \cup Taking => draft'[q] = NoDraft
                            /\ req'[q].at = "import_save" => draft'[q].next \in Items
    BY <1>2, <1>3
  <1>5. ImportsTypeOK'
    BY <1>2, <1>4 DEF ImportsKeep, ImportsTypeOK, At
  <1>6. ImportsTyped'
    BY <1>1, <1>4, <1>5 DEF ImportsTyped, At
  <1>7. QED
    BY <1>6, WorkbooksKept, SourcesKept DEF IInv

\* What an import at an await has.
LEMMA ImportFacts ==
  ASSUME IInv, NEW r \in Requests
  PROVE  /\ req \in [Requests -> ImportLocal] /\ req[r] \in ImportLocal
         /\ draft \in [Requests -> Draft] /\ draft[r] \in Draft
         /\ At(r, "idle") => req[r] = PictureIdle /\ draft[r] = NoDraft
         /\ ~At(r, "idle") => ImportHasLocals(req[r])
         /\ object \in SUBSET Files /\ record \in [Files -> Records]
         /\ item \in [Items -> Files \cup {ByHand, None}]
         /\ imported \in SUBSET Files /\ stray \in SUBSET Files /\ withdrawn \in SUBSET Files
         /\ req[r].file \in Files => (record[req[r].file] = None <=> At(r, "insert_record"))
         /\ \A i \in Items : item[i] \in Files => item[i] \in imported
         /\ req[r].file \in Files \ withdrawn =>
              /\ \A q \in Requests \ {r} : req[q].file # req[r].file
              /\ req[r].at \in Importing => Available(req[r].file)
              /\ req[r].file \notin imported
         /\ \A f \in object : record[f] \notin {"deleted", "gone"}
  <1>1. /\ req \in [Requests -> ImportLocal] /\ draft \in [Requests -> Draft]
        /\ object \in SUBSET Files /\ record \in [Files -> Records]
        /\ item \in [Items -> Files \cup {ByHand, None}]
        /\ imported \in SUBSET Files /\ stray \in SUBSET Files /\ withdrawn \in SUBSET Files
        /\ At(r, "idle") => draft[r] = NoDraft
        /\ req[r] = PictureIdle \/ ImportHasLocals(req[r])
    BY DEF IInv, ImportsTyped, PicturesTypeOK, ImportsTypeOK
  <1>2. ImportHasLocals(req[r]) => ~At(r, "idle")
    BY DEF ImportHasLocals, Storing, Importing, Taking, At
  <1>3. req[r] = PictureIdle => At(r, "idle")
    BY DEF PictureIdle, At
  <1>4. QED
    BY <1>1, <1>2, <1>3 DEF IInv, WorkbooksAreNew, WorkbooksStay

\* A request is given new locals.
LEMMA GoesToLocal ==
  ASSUME IInv, NEW r \in Requests, NEW local \in ImportLocal,
         local = PictureIdle \/ ImportHasLocals(local), req' = [req EXCEPT ![r] = local]
  PROVE  GoesTo(r, local.at, local.file)
  BY ImportFacts DEF GoesTo

\* It is over ...
LEMMA GoesIdle ==
  ASSUME IInv, NEW r \in Requests, Goto(r, "idle")
  PROVE  GoesTo(r, "idle", None) /\ req'[r].at = "idle" /\ req'[r].file = None
  <1>1. DOMAIN req[r] = {"at", "file", "row", "other", "then"}
    BY ImportFacts DEF ImportLocal
  <1>2. [k \in DOMAIN req[r] |-> IF k \in {"at", "then"} THEN "idle" ELSE None] = PictureIdle
    BY <1>1 DEF PictureIdle
  <1>3. req' = [req EXCEPT ![r] = PictureIdle]
    BY <1>2 DEF Goto
  <1>4. PictureIdle \in ImportLocal /\ PictureIdle.at = "idle" /\ PictureIdle.file = None
    BY DEF PictureIdle, ImportLocal
  <1>5. GoesTo(r, "idle", None)
    BY <1>3, <1>4, GoesToLocal
  <1>6. QED
    BY <1>5 DEF GoesTo

\* ... or goes on with its file.
LEMMA GoesOn ==
  ASSUME IInv, NEW r \in Requests, NEW label \in {"item_save"} \cup Importing \cup Taking, Goto(r, label),
         IF label = "item_save" THEN req[r].file = None ELSE req[r].file \in Files,
         label \in Taking => req[r].then = "idle"
  PROVE  GoesTo(r, label, req[r].file) /\ req'[r].at = label /\ req'[r].file = req[r].file
  <1>1. label # "idle" /\ label \notin Storing /\ label # "put_object"
    BY DEF Importing, Taking, Storing
  <1>2. PICK local : local = [req[r] EXCEPT !.at = label]
    OBVIOUS
  <1>3. req' = [req EXCEPT ![r] = local]
    BY <1>1, <1>2 DEF Goto
  <1>4. label \in {"idle"} \cup ImportAwaits \cup StorageAwaits
    BY DEF Importing, Taking, ImportAwaits, StorageAwaits
  <1>5. local \in ImportLocal /\ local.at = label /\ local.file = req[r].file /\ local.then = req[r].then
    BY <1>2, <1>4, ImportFacts DEF ImportLocal
  <1>6. ImportHasLocals(local)
    BY <1>1, <1>5 DEF ImportHasLocals
  <1>7. GoesTo(r, label, req[r].file)
    BY <1>3, <1>5, <1>6, GoesToLocal
  <1>8. QED
    BY <1>7 DEF GoesTo

\* A request is given a new draft.
LEMMA DraftsThis ==
  ASSUME IInv, NEW r \in Requests, NEW local \in Draft, Drafted(r, local), NEW at,
         at \in {"idle"} \cup Taking => local = NoDraft, at = "import_save" => local.next \in Items
  PROVE  Drafts(r, at) /\ draft'[r] = local
  BY ImportFacts DEF Drafts, Drafted

\* No draft is one.
LEMMA NoDraftIsDraft ==
  NoDraft \in Draft /\ NoDraft.next = None /\ NoDraft.source = None
  BY DEF NoDraft, Draft

\* A step that leaves the files alone.
LEMMA FilesRest ==
  ASSUME IInv, NEW r \in Requests, object' = object, record' = record,
         req'[r].at \notin {"insert_record", "delete_save", "delete_remove"},
         req'[r].file \in Files => record[req'[r].file] # None,
         req[r].file \in object => req[r].file \in stray' \cup imported' \cup {req'[r].file}
  PROVE  /\ KeepsWorkbooks(r) /\ object' \in SUBSET Files /\ record' \in [Files -> Records]
  BY ImportFacts DEF KeepsWorkbooks

\* importWorkbook, upsert, disable and deleteFile begin.
LEMMA ImportBegins ==
  ASSUME IInv, NEW r \in Requests,
         \/ ImportRoutes(r) \/ ItemRoutes(r) \/ \E f \in Files : FilesDelete(r, f)
  PROVE  ImportsKeep(r)
  <1>1. At(r, "idle") /\ UNCHANGED <<object, record, item, imported, stray>>
    BY DEF ImportRoutes, ItemRoutes, ImportWorkbook, UpsertFind, DisableFind, FilesDelete
  <1>2. req[r] = PictureIdle /\ draft[r] = NoDraft /\ req[r].file = None /\ None \notin Files
    BY <1>1, ImportFacts, ImportsAssumption DEF PictureIdle
  <1> req[r] \in ImportLocal /\ req[r].then = "idle"
    BY <1>2, ImportFacts DEF PictureIdle
  <1>3. CASE ImportRoutes(r)
    <2>1. PICK rows \in SUBSET Items : ImportWorkbook(r, rows)
      BY <1>3 DEF ImportRoutes
    <2>2. PICK local : local = [req[r] EXCEPT !.at = "put_object", !.then = "import_rows"]
      OBVIOUS
    <2>3. req' = [req EXCEPT ![r] = local]
      BY <2>1, <2>2 DEF ImportWorkbook
    <2>4. local \in ImportLocal /\ local.at = "put_object" /\ local.file = None /\ local.then = "import_rows"
      <3>1. req[r].file = None
        BY <1>2
      <3>2. QED
        BY <2>2, <3>1 DEF ImportLocal, StorageAwaits
    <2>5. ImportHasLocals(local)
      BY <2>4 DEF ImportHasLocals, Storing, Importing, Taking
    <2>6. GoesTo(r, "put_object", None) /\ req'[r].at = "put_object" /\ req'[r].file = None
      <3>1. GoesTo(r, "put_object", None)
        BY <2>3, <2>4, <2>5, GoesToLocal
      <3>2. QED
        BY <3>1 DEF GoesTo
    <2>7. Drafts(r, "put_object")
      <3>1. PICK next : next = [NoDraft EXCEPT !.todo = rows]
        OBVIOUS
      <3>2. next \in Draft /\ Drafted(r, next)
        BY <2>1, <3>1, NoDraftIsDraft DEF Draft, ImportWorkbook
      <3>3. "put_object" \notin {"idle"} \cup Taking
        BY DEF Taking
      <3>4. QED
        BY <3>2, <3>3, DraftsThis
    <2>8. withdrawn' = withdrawn
      BY <2>1 DEF ImportWorkbook
    <2>9. KeepsWorkbooks(r) /\ object' \in SUBSET Files /\ record' \in [Files -> Records]
      BY <1>1, <1>2, <2>6, FilesRest, ImportFacts
    <2>10. KeepsSources(r)
      BY <1>1, <1>2, <2>6, <2>8, ImportFacts DEF KeepsSources
    <2>11. QED
      BY <1>1, <2>6, <2>7, <2>8, <2>9, <2>10, ImportFacts DEF ImportsKeep
  <1>4. CASE ItemRoutes(r)
    <2>1. PICK i \in Items : UpsertFind(r, i) \/ DisableFind(r, i)
      BY <1>4 DEF ItemRoutes
    <2>2. Goto(r, "item_save") /\ withdrawn' = withdrawn
      BY <2>1 DEF UpsertFind, DisableFind
    <2>3. GoesTo(r, "item_save", None) /\ req'[r].at = "item_save" /\ req'[r].file = None
      BY <1>2, <2>2, GoesOn DEF Taking
    <2>4. PICK next \in Draft : /\ Drafted(r, next)
                                /\ next.source = ByHand \/ (next.source = item[i] /\ item[i] # None)
      <3>1. CASE UpsertFind(r, i)
        <4>1. PICK next : next = [NoDraft EXCEPT !.next = i, !.found = item[i] # None, !.source = ByHand]
          OBVIOUS
        <4>2. next \in Draft /\ next.source = ByHand
          BY <4>1, NoDraftIsDraft DEF Draft
        <4>3. Drafted(r, next)
          BY <3>1, <4>1 DEF UpsertFind
        <4>4. QED
          BY <4>2, <4>3
      <3>2. CASE DisableFind(r, i)
        <4>1. PICK next : next = [NoDraft EXCEPT !.next = i, !.found = TRUE, !.source = item[i]]
          OBVIOUS
        <4>2. item[i] \in Files \cup {ByHand, None}
          BY ImportFacts
        <4>3. next \in Draft /\ next.source = item[i]
          BY <4>1, <4>2, NoDraftIsDraft DEF Draft
        <4>4. Drafted(r, next) /\ item[i] # None
          BY <3>2, <4>1 DEF DisableFind
        <4>5. QED
          BY <4>3, <4>4
      <3>3. QED
        BY <2>1, <3>1, <3>2
    <2>5. Drafts(r, "item_save") /\ draft'[r] = next
      <3>1. "item_save" \notin {"idle"} \cup Taking
        BY DEF Taking
      <3>2. QED
        BY <2>4, <3>1, DraftsThis
    <2>6. KeepsWorkbooks(r) /\ object' \in SUBSET Files /\ record' \in [Files -> Records]
      BY <1>1, <1>2, <2>3, FilesRest, ImportFacts
    <2>7. draft'[r].source \in Files => draft'[r].source \in imported
      BY <2>4, <2>5, ImportFacts, ImportsAssumption
    <2>8. KeepsSources(r)
      BY <1>1, <1>2, <2>2, <2>3, <2>7, ImportFacts DEF KeepsSources
    <2>9. QED
      BY <1>1, <2>2, <2>3, <2>5, <2>6, <2>8, ImportFacts DEF ImportsKeep
  <1>5. CASE \E f \in Files : FilesDelete(r, f)
    <2>1. PICK f \in Files : FilesDelete(r, f)
      BY <1>5
    <2>2. PICK local : local = [req[r] EXCEPT !.at = "delete_find", !.file = f]
      OBVIOUS
    <2>3. req' = [req EXCEPT ![r] = local]
      BY <2>1, <2>2 DEF FilesDelete
    <2>4. local \in ImportLocal /\ local.at = "delete_find" /\ local.file = f /\ local.then = "idle"
      BY <2>2 DEF ImportLocal, StorageAwaits
    <2>5. ImportHasLocals(local)
      BY <2>4 DEF ImportHasLocals, Storing, Importing, Taking
    <2>6. GoesTo(r, "delete_find", f) /\ req'[r].at = "delete_find" /\ req'[r].file = f
      <3>1. GoesTo(r, "delete_find", f)
        BY <2>3, <2>4, <2>5, GoesToLocal
      <3>2. QED
        BY <3>1 DEF GoesTo
    <2>7. Drafts(r, "delete_find")
      BY <1>2, <2>1, ImportFacts DEF Drafts, FilesDelete
    <2>8. withdrawn' = withdrawn \cup {f} /\ record[f] # None
      BY <2>1, NoneIsNoStatus DEF FilesDelete, Found
    <2>9. KeepsWorkbooks(r) /\ object' \in SUBSET Files /\ record' \in [Files -> Records]
      BY <1>1, <1>2, <2>6, <2>8, FilesRest, ImportFacts
    <2>10. KeepsSources(r)
      BY <1>1, <2>6, <2>8, ImportFacts DEF KeepsSources
    <2>11. QED
      BY <1>1, <2>6, <2>7, <2>8, <2>9, <2>10, ImportFacts DEF ImportsKeep
  <1>6. QED
    BY <1>3, <1>4, <1>5

\* A request that goes on with its import.
LEMMA ImportGoesOn ==
  ASSUME IInv, NEW r \in Requests, req[r].at \in Importing, NEW label \in Importing, Goto(r, label),
         NEW next \in Draft, Drafted(r, next), label = "import_save" => next.next \in Items,
         UNCHANGED <<object, record, item, imported, stray, withdrawn>>
  PROVE  ImportsKeep(r)
  <1>1. ~At(r, "idle") /\ ~At(r, "insert_record") /\ label \notin {"idle", "item_save"} \cup Taking \cup Storing
    BY DEF At, Importing, Taking, Storing
  <1>2. req[r].file \in Files /\ record[req[r].file] # None
    <2>1. req[r].file \in Files
      BY <1>1, ImportFacts DEF ImportHasLocals, Importing
    <2>2. QED
      BY <1>1, <2>1, ImportFacts
  <1>3. GoesTo(r, label, req[r].file) /\ req'[r].at = label /\ req'[r].file = req[r].file
    BY <1>1, <1>2, GoesOn
  <1>4. Drafts(r, label)
    BY <1>1, DraftsThis
  <1>5. label \notin {"insert_record", "delete_save", "delete_remove"} /\ label # "item_save"
    BY DEF Importing
  <1>6. KeepsWorkbooks(r) /\ object' \in SUBSET Files /\ record' \in [Files -> Records]
    BY <1>2, <1>3, <1>5, FilesRest
  <1>7. KeepsSources(r)
    <2>1. Available(req[r].file) => Available(req[r].file)'
      BY <1>3 DEF Available
    <2>2. QED
      BY <1>3, <1>5, <2>1, ImportFacts DEF KeepsSources
  <1>8. QED
    BY <1>3, <1>4, <1>6, <1>7, ImportFacts DEF ImportsKeep

\* A request that ends, with its file in no use, committed or left.
LEMMA ImportEnds ==
  ASSUME IInv, NEW r \in Requests, ~At(r, "idle"), Goto(r, "idle"), Drafted(r, NoDraft),
         UNCHANGED <<object, record, withdrawn>>,
         imported \subseteq imported', imported' \in SUBSET Files, stray \subseteq stray', stray' \in SUBSET Files,
         item' \in [Items -> Files \cup {ByHand, None}],
         \A i \in Items : item'[i] \in Files => item'[i] \in imported',
         \A f \in imported' \ imported : f = req[r].file /\ req[r].at \in Importing,
         req[r].file \in object => req[r].file \in stray' \cup imported'
  PROVE  ImportsKeep(r)
  <1>1. GoesTo(r, "idle", None) /\ req'[r].at = "idle" /\ req'[r].file = None
    BY GoesIdle
  <1>2. Drafts(r, "idle")
    BY DraftsThis, NoDraftIsDraft
  <1>3. KeepsWorkbooks(r) /\ object' \in SUBSET Files /\ record' \in [Files -> Records]
    BY <1>1, FilesRest, ImportsAssumption
  <1>4. \A f \in imported' \ imported : f = req[r].file /\ record'[f] # None /\ (f \notin withdrawn' => Available(f)')
    <2>1. ASSUME NEW f \in imported' \ imported
          PROVE  f = req[r].file /\ record'[f] # None /\ (f \notin withdrawn' => Available(f)')
      <3>1. f = req[r].file /\ req[r].at \in Importing /\ f \in Files
        BY <2>1
      <3>2. record[f] # None
        BY <3>1, ImportFacts DEF At, Importing
      <3>3. f \notin withdrawn => Available(f)
        BY <3>1, ImportFacts
      <3>4. QED
        BY <3>1, <3>2, <3>3 DEF Available
    <2>2. QED
      BY <2>1
  <1>5. KeepsSources(r)
    BY <1>1, <1>4, ImportsAssumption DEF KeepsSources
  <1>6. QED
    BY <1>1, <1>2, <1>3, <1>5, ImportFacts DEF ImportsKeep

\* The steps of an import, but for its file.
LEMMA ImportStepsKeep ==
  ASSUME IInv, NEW r \in Requests,
         \/ \E i \in Items : ImportFind(r, i)
         \/ ImportSave(r) \/ ImportCommit(r) \/ ImportFail(r) \/ ItemSave(r) \/ FailImport(r)
  PROVE  ImportsKeep(r)
  <1>1. CASE \E i \in Items : ImportFind(r, i)
    <2>1. PICK i \in Items : ImportFind(r, i)
      BY <1>1
    <2>2. PICK next : next = [draft[r] EXCEPT !.next = i, !.found = item[i] # None, !.source = req[r].file]
      OBVIOUS
    <2>3. draft[r] \in Draft /\ req[r].file \in Files \cup {None}
      BY ImportFacts DEF ImportLocal
    <2>4. next \in Draft /\ next.next = i
      BY <2>2, <2>3 DEF Draft
    <2>5. /\ Drafted(r, next) /\ Goto(r, "import_save") /\ req[r].at \in Importing
          /\ UNCHANGED <<object, record, item, imported, stray, withdrawn>> /\ "import_save" \in Importing
      BY <2>1, <2>2 DEF ImportFind, At, Importing
    <2>6. QED
      BY <2>4, <2>5, ImportGoesOn
  <1>2. CASE ImportSave(r)
    <2>1. draft[r] \in Draft /\ draft[r].next \in Items
      BY <1>2, ImportFacts DEF ImportSave, IInv, ImportsTyped
    <2>2. PICK next : next = [draft[r] EXCEPT !.todo = draft[r].todo \ {draft[r].next},
                                              !.written = draft[r].written \cup {draft[r].next}]
      OBVIOUS
    <2>3. next \in Draft
      BY <2>1, <2>2 DEF Draft
    <2>4. Drafted(r, next)
      BY <1>2, <2>2 DEF ImportSave
    <2>5. /\ Goto(r, "import_rows") /\ req[r].at \in Importing
          /\ UNCHANGED <<object, record, item, imported, stray, withdrawn>> /\ "import_rows" \in Importing
      BY <1>2 DEF ImportSave, At, Importing
    <2>6. QED
      BY <2>3, <2>4, <2>5, ImportGoesOn
  <1>3. CASE ImportCommit(r)
    <2>1. /\ At(r, "import_rows") /\ Goto(r, "idle") /\ Drafted(r, NoDraft)
          /\ item' = [i \in Items |-> IF i \in draft[r].written THEN req[r].file ELSE item[i]]
          /\ imported' = imported \cup {req[r].file} /\ UNCHANGED <<object, record, stray, withdrawn>>
      BY <1>3 DEF ImportCommit
    <2>2. req[r].file \in Files /\ ~At(r, "idle") /\ req[r].at \in Importing
      BY <2>1, ImportFacts DEF ImportHasLocals, At, Importing
    <2>3. /\ item \in [Items -> Files \cup {ByHand, None}] /\ imported \in SUBSET Files /\ stray \in SUBSET Files
          /\ \A i \in Items : item[i] \in Files => item[i] \in imported
      BY ImportFacts
    <2>4. /\ item' \in [Items -> Files \cup {ByHand, None}] /\ imported' \in SUBSET Files
          /\ \A i \in Items : item'[i] \in Files => item'[i] \in imported'
      BY <2>1, <2>2, <2>3
    <2>5. QED
      BY <2>1, <2>2, <2>3, <2>4, ImportEnds
  <1>4. CASE ImportFail(r)
    <2>1. /\ req[r].at \in {"import_rows", "import_save"} /\ Drafted(r, NoDraft)
          /\ req' = [req EXCEPT ![r] = [req[r] EXCEPT !.at = "delete_find", !.then = "idle"]]
          /\ UNCHANGED <<object, record, item, imported, stray, withdrawn>>
      BY <1>4 DEF ImportFail
    <2>2. req[r].file \in Files /\ req[r] \in ImportLocal /\ record[req[r].file] # None
      <3>1. req[r].file \in Files /\ req[r] \in ImportLocal /\ ~At(r, "insert_record")
        BY <2>1, ImportFacts DEF ImportHasLocals, At
      <3>2. QED
        BY <3>1, ImportFacts
    <2>3. PICK local : local = [req[r] EXCEPT !.at = "delete_find", !.then = "idle"]
      OBVIOUS
    <2>4. local \in ImportLocal /\ local.at = "delete_find" /\ local.file = req[r].file /\ local.then = "idle"
      BY <2>2, <2>3 DEF ImportLocal, StorageAwaits
    <2>5. ImportHasLocals(local)
      BY <2>2, <2>4 DEF ImportHasLocals, Storing, Importing, Taking
    <2>6. GoesTo(r, "delete_find", req[r].file) /\ req'[r].at = "delete_find" /\ req'[r].file = req[r].file
      <3>1. GoesTo(r, "delete_find", req[r].file)
        BY <2>1, <2>3, <2>4, <2>5, GoesToLocal
      <3>2. QED
        BY <3>1 DEF GoesTo
    <2>7. Drafts(r, "delete_find")
      BY <2>1, DraftsThis, NoDraftIsDraft
    <2>8. KeepsWorkbooks(r) /\ object' \in SUBSET Files /\ record' \in [Files -> Records]
      BY <2>1, <2>2, <2>6, FilesRest
    <2>9. KeepsSources(r)
      BY <2>1, <2>6, ImportFacts DEF KeepsSources, Importing
    <2>10. QED
      BY <2>1, <2>6, <2>7, <2>8, <2>9, ImportFacts DEF ImportsKeep
  <1>5. CASE ItemSave(r)
    <2>1. /\ At(r, "item_save") /\ Goto(r, "idle") /\ Drafted(r, NoDraft)
          /\ item' = [item EXCEPT ![draft[r].next] = draft[r].source]
          /\ UNCHANGED <<object, record, imported, stray, withdrawn>>
      BY <1>5 DEF ItemSave
    <2>2. ~At(r, "idle") /\ req[r].file = None
      BY <2>1, ImportFacts DEF ImportHasLocals, At
    <2>3. draft[r].source \in Files \cup {ByHand, None} /\ (draft[r].source \in Files => draft[r].source \in imported)
      BY <2>1, ImportFacts DEF Draft, IInv, WorkbooksStay
    <2>4. item' \in [Items -> Files \cup {ByHand, None}] /\ \A i \in Items : item'[i] \in Files => item'[i] \in imported
      BY <2>1, <2>3, ImportFacts
    <2>5. None \notin object /\ imported \in SUBSET Files /\ stray \in SUBSET Files
      BY ImportFacts, ImportsAssumption
    <2>6. QED
      BY <2>1, <2>2, <2>4, <2>5, ImportEnds
  <1>6. CASE FailImport(r)
    <2>1. /\ ~At(r, "idle") /\ Goto(r, "idle") /\ Drafted(r, NoDraft)
          /\ stray' = stray \cup ({req[r].file} \ (imported \cup {None}))
          /\ UNCHANGED <<object, record, item, imported, withdrawn>>
      BY <1>6 DEF FailImport
    <2>2. /\ req[r].file \in Files \cup {None} /\ stray \in SUBSET Files /\ imported \in SUBSET Files
          /\ item \in [Items -> Files \cup {ByHand, None}] /\ None \notin object
          /\ \A i \in Items : item[i] \in Files => item[i] \in imported
      BY ImportFacts, ImportsAssumption DEF ImportLocal
    <2>3. stray' \in SUBSET Files /\ (req[r].file \in object => req[r].file \in stray' \cup imported')
      BY <2>1, <2>2
    <2>4. QED
      BY <2>1, <2>2, <2>3, ImportEnds
  <1>7. QED
    BY <1>1, <1>2, <1>3, <1>4, <1>5, <1>6

\* The draft stays as it is while files are stored and deleted.
LEMMA DraftRests ==
  ASSUME IInv, NEW r \in Requests, draft' = draft, NEW at, at # "import_save",
         at \in {"idle"} \cup Taking => req[r].at \in {"idle"} \cup Taking
  PROVE  Drafts(r, at)
  <1>1. req[r].at \in {"idle"} \cup Taking => draft[r] = NoDraft
    BY ImportFacts DEF IInv, ImportsTyped, At
  <1>2. QED
    BY <1>1, ImportFacts DEF Drafts

\* A step of deleteFile.
LEMMA TakingKept ==
  ASSUME IInv, NEW r \in Requests, UNCHANGED importVars, req[r].at \in Taking,
         NEW label \in {"idle"} \cup Taking, Goto(r, label),
         object' \subseteq object, \A f \in object \ object' : f = req[r].file,
         record' \in [Files -> Records],
         \A f \in Files : record'[f] # record[f] => f = req[r].file /\ record'[f] # None,
         \A f \in object' : record'[f] \notin {"deleted", "gone"},
         label \in {"idle", "delete_save", "delete_remove"} => req[r].file \notin object'
  PROVE  ImportsKeep(r)
  <1>1. /\ ~At(r, "idle") /\ ~At(r, "insert_record")
        /\ label \notin {"put_object", "insert_record", "item_save", "import_save"} \cup Importing
    BY DEF At, Taking, Importing
  <1>2. /\ req[r].file \in Files /\ record[req[r].file] # None /\ req[r].then = "idle"
    <2>1. ImportHasLocals(req[r]) /\ req[r].at \notin {"put_object", "item_save"}
      BY <1>1, ImportFacts DEF Taking
    <2>2. QED
      BY <1>1, <2>1, ImportFacts DEF ImportHasLocals
  <1>3. PICK file : file = IF label = "idle" THEN None ELSE req[r].file
    OBVIOUS
  <1>4. GoesTo(r, label, file) /\ req'[r].at = label /\ req'[r].file = file
    <2>1. CASE label = "idle"
      BY <1>3, <2>1, GoesIdle
    <2>2. CASE label # "idle"
      BY <1>1, <1>2, <1>3, <2>2, GoesOn
    <2>3. QED
      BY <2>1, <2>2
  <1>5. UNCHANGED <<item, draft, imported, stray, withdrawn>>
    BY DEF importVars
  <1>6. Drafts(r, label)
    BY <1>1, <1>5, DraftRests
  <1>7. KeepsWorkbooks(r)
    <2>1. record'[req[r].file] # None
      BY <1>2
    <2>2. req'[r].file \in Files => record'[req'[r].file] # None
      BY <1>3, <1>4, <2>1, ImportsAssumption
    <2>3. req[r].file \in object' => req[r].file = req'[r].file
      BY <1>3, <1>4
    <2>4. req'[r].at \in {"delete_save", "delete_remove"} => req'[r].file \notin object'
      BY <1>3, <1>4
    <2>5. req'[r].at # "insert_record"
      BY <1>1, <1>4
    <2>6. QED
      BY <2>2, <2>3, <2>4, <2>5 DEF KeepsWorkbooks
  <1>8. KeepsSources(r)
    <2>1. req'[r].file \in Files => req'[r].file = req[r].file
      BY <1>3, <1>4, ImportsAssumption
    <2>2. req'[r].at \notin Importing /\ req'[r].at # "item_save"
      BY <1>1, <1>4
    <2>3. QED
      BY <1>5, <2>1, <2>2, ImportFacts DEF KeepsSources
  <1>9. object' \in SUBSET Files
    BY ImportFacts
  <1>10. QED
    BY <1>4, <1>5, <1>6, <1>7, <1>8, <1>9, ImportFacts DEF ImportsKeep

\* The steps of StoredFiles, about workbooks.
LEMMA StorageKeepsImports ==
  ASSUME IInv, NEW r \in Requests, StorageStep(r), UNCHANGED importVars
  PROVE  ImportsKeep(r)
  <1>1. UNCHANGED <<item, draft, imported, stray, withdrawn>>
    BY DEF importVars
  <1>2. /\ object \in SUBSET Files /\ record \in [Files -> Records]
        /\ \A f \in object : record[f] \notin {"deleted", "gone"}
        /\ req[r].at \in {"delete_save", "delete_remove"} => req[r].file \notin object
        /\ ~At(r, "idle") => ImportHasLocals(req[r])
        /\ req[r] \in ImportLocal
    BY ImportFacts DEF IInv, WorkbooksAreNew
  <1>3. CASE \E f \in Files : PutObject(r, f)
    <2>1. PICK f \in Files : PutObject(r, f)
      BY <1>3
    <2>2. /\ At(r, "put_object") /\ record[f] = None /\ f \notin object /\ object' = object \cup {f}
          /\ record' = record /\ \A q \in Requests : ~At(q, "idle") => req[q].file # f
      BY <2>1 DEF PutObject
    <2>3. req[r].file = None /\ req[r].then = "import_rows"
      BY <1>2, <2>2 DEF ImportHasLocals, At, Storing
    <2>4. /\ req' \in [Requests -> ImportLocal] /\ \A q \in Requests \ {r} : req'[q] = req[q]
          /\ req'[r].at = "insert_record" /\ req'[r].file = f /\ req'[r].then = "import_rows"
      BY <1>2, <2>1, <2>3, ImportFacts DEF PutObject, ImportLocal, StorageAwaits
    <2>5. ImportHasLocals(req'[r])
      BY <2>4 DEF ImportHasLocals, Storing, Taking
    <2>6. GoesTo(r, "insert_record", f)
      BY <2>4, <2>5 DEF GoesTo
    <2>7. Drafts(r, "insert_record")
      <3>1. "insert_record" \notin {"idle"} \cup Taking
        BY DEF Taking
      <3>2. QED
        BY <1>1, <3>1, DraftRests
    <2>8. \A q \in Requests : req[q].file # f
      <3>1. \A q \in Requests : At(q, "idle") => req[q].file = None
        BY ImportFacts DEF PictureIdle
      <3>2. QED
        BY <2>2, <3>1, ImportsAssumption
    <2>9. KeepsWorkbooks(r)
      <3>1. req[r].file \notin object'
        BY <1>2, <2>2, <2>3, ImportsAssumption
      <3>2. record'[f] \notin {"deleted", "gone"} /\ record'[f] = None
        BY <2>2, NoneIsNoStatus
      <3>3. QED
        BY <1>2, <2>2, <2>4, <2>8, <3>1, <3>2 DEF KeepsWorkbooks
    <2>10. KeepsSources(r)
      <3>1. f \notin imported
        BY <2>2 DEF IInv, WorkbooksAreNew
      <3>2. "insert_record" \notin Importing
        BY DEF Importing
      <3>3. QED
        BY <1>1, <2>4, <2>8, <3>1, <3>2, ImportFacts DEF KeepsSources
    <2>11. QED
      BY <1>1, <1>2, <2>2, <2>4, <2>6, <2>7, <2>9, <2>10, ImportFacts DEF ImportsKeep
  <1>4. CASE InsertRecord(r)
    <2>1. PICK file : file = req[r].file
      OBVIOUS
    <2>2. At(r, "insert_record") /\ record' = [record EXCEPT ![file] = "active"] /\ object' = object
      BY <1>4, <2>1 DEF InsertRecord
    <2>3. file \in Files /\ req[r].then = "import_rows"
      BY <1>2, <2>1, <2>2 DEF ImportHasLocals, At, Storing
    <2>4. /\ GoesTo(r, "import_rows", file) /\ req'[r].at = "import_rows" /\ req'[r].file = file
      <3>1. Goto(r, "import_rows") /\ "import_rows" \in Importing /\ "import_rows" \notin Taking
        BY <1>4, <2>3 DEF InsertRecord, Importing, Taking
      <3>2. QED
        BY <2>1, <2>3, <3>1, GoesOn
    <2>5. Drafts(r, "import_rows")
      <3>1. "import_rows" \notin {"idle"} \cup Taking
        BY DEF Taking
      <3>2. QED
        BY <1>1, <3>1, DraftRests
    <2>6. /\ record' \in [Files -> Records] /\ record'[file] = "active"
          /\ \A f \in Files \ {file} : record'[f] = record[f]
      BY <1>2, <2>2, <2>3 DEF Records
    <2>7. /\ record[file] = None /\ file \in object
          /\ \A q \in Requests \ {r} : req[q].file # file
      BY <2>1, <2>2, <2>3 DEF IInv, WorkbooksAreNew
    <2>8. KeepsWorkbooks(r)
      BY <1>2, <2>1, <2>2, <2>4, <2>6, <2>7, NoneIsNoStatus DEF KeepsWorkbooks
    <2>9. KeepsSources(r)
      <3>1. file \notin imported
        BY <2>7 DEF IInv, WorkbooksAreNew
      <3>2. Available(req[r].file)'
        BY <2>2, <2>4, <2>6, <2>7 DEF Available
      <3>3. QED
        BY <1>1, <2>1, <2>4, <2>7, <3>1, <3>2, ImportFacts DEF KeepsSources
    <2>10. QED
      BY <1>1, <1>2, <2>2, <2>4, <2>5, <2>6, <2>8, <2>9, ImportFacts DEF ImportsKeep
  <1>5. CASE DeleteFind(r)
    <2>1. At(r, "delete_find") /\ req[r].at \in Taking /\ UNCHANGED <<object, record>>
      BY <1>5 DEF DeleteFind, At, Taking
    <2>2. req[r].file \in Files /\ req[r].then = "idle" /\ record[req[r].file] # None
      <3>1. req[r].file \in Files /\ req[r].then = "idle" /\ ~At(r, "insert_record")
        BY <1>2, <2>1 DEF ImportHasLocals, At
      <3>2. QED
        BY <3>1, ImportFacts
    <2>3. PICK label : label = IF Found(req[r].file) THEN "delete_object" ELSE "idle"
      OBVIOUS
    <2>4. Goto(r, label) /\ label \in {"idle"} \cup Taking /\ label \notin {"delete_save", "delete_remove"}
      BY <1>5, <2>2, <2>3 DEF DeleteFind, Taking
    <2>5. label = "idle" => req[r].file \notin object
      BY <1>2, <2>2, <2>3 DEF Found, Records
    <2>6. QED
      BY <1>2, <2>1, <2>4, <2>5, TakingKept
  <1>6. CASE DeleteObject(r)
    <2>1. /\ At(r, "delete_object") /\ req[r].at \in Taking /\ Goto(r, "delete_save")
          /\ object' = object \ {req[r].file} /\ record' = record /\ "delete_save" \in {"idle"} \cup Taking
      BY <1>2, <1>6 DEF DeleteObject, At, Taking, ImportHasLocals, Storing, Importing
    <2>2. QED
      BY <1>2, <2>1, TakingKept
  <1>7. CASE DeleteSave(r)
    <2>1. /\ At(r, "delete_save") /\ req[r].at \in Taking /\ Goto(r, "delete_remove") /\ object' = object
          /\ record' = [record EXCEPT ![req[r].file] = "deleted"] /\ "delete_remove" \in {"idle"} \cup Taking
      BY <1>7 DEF DeleteSave, At, Taking
    <2>2. req[r].file \notin object
      BY <1>2, <2>1 DEF At
    <2>3. /\ record' \in [Files -> Records]
          /\ \A f \in Files : record'[f] # record[f] => f = req[r].file /\ record'[f] # None
          /\ \A f \in object' : record'[f] \notin {"deleted", "gone"}
      BY <1>2, <2>1, <2>2, NoneIsNoStatus DEF Records
    <2>4. QED
      BY <2>1, <2>2, <2>3, TakingKept
  <1>8. CASE DeleteRemove(r)
    <2>1. /\ At(r, "delete_remove") /\ req[r].at \in Taking /\ Goto(r, req[r].then) /\ object' = object
          /\ record' = [record EXCEPT ![req[r].file] = "gone"]
      BY <1>8 DEF DeleteRemove, At, Taking
    <2>2. req[r].file \notin object /\ req[r].then = "idle"
      BY <1>2, <2>1 DEF At, ImportHasLocals
    <2>3. /\ record' \in [Files -> Records]
          /\ \A f \in Files : record'[f] # record[f] => f = req[r].file /\ record'[f] # None
          /\ \A f \in object' : record'[f] \notin {"deleted", "gone"}
      BY <1>2, <2>1, <2>2, NoneIsNoStatus DEF Records
    <2>4. QED
      BY <2>1, <2>2, <2>3, TakingKept
  <1>9. QED
    BY <1>3, <1>4, <1>5, <1>6, <1>7, <1>8 DEF StorageStep

\* Every step about the catalogues keeps the invariant.
LEMMA ImportsStepsKeep ==
  ASSUME IInv, NextImport
  PROVE  IInv'
  <1>1. PICK r \in Requests : ImportRoutes(r) \/ ItemRoutes(r) \/ ImportStep(r)
    BY DEF NextImport
  <1>2. ImportsKeep(r)
    BY <1>1, ImportBegins, ImportStepsKeep, StorageKeepsImports DEF ImportStep
  <1>3. UNCHANGED <<picture, pictureHistory>>
    BY DEF NextImport
  <1>4. QED
    BY <1>2, <1>3, ImportsKept

----------------------------------------------------------------------------
(* Pictures and imports together *)

\* Before the first request there is no file.
LEMMA FilesBegin ==
  ASSUME Init
  PROVE  FilesInv
  <1>1. /\ object = {} /\ record = [f \in Files |-> None] /\ req = [r \in Requests |-> PictureIdle]
        /\ picture = [x \in Pictured |-> IF x \in Portfolios THEN "not yet" ELSE None]
        /\ reverted = {} /\ lost = {} /\ pasted = {} /\ left = {} /\ deleted = {} /\ crossed = {}
        /\ ImportsInit /\ subject \in Subjects
    BY DEF Init, PicturesInit
  <1>2. None \in Records /\ "not yet" \in NoRow /\ "not yet" \notin Files /\ "not yet" # None /\ None \notin Files
    BY PicturesAssumption DEF Records, NoRow
  <1>3. \A r \in Requests : req[r] = PictureIdle /\ req[r].at = "idle" /\ req[r].file = None
                            /\ req[r].row = None /\ req[r].other = None
    BY <1>1 DEF PictureIdle
  <1>4. /\ \A x \in Pictured : picture[x] \in {"not yet", None} /\ picture[x] \notin Files
        /\ \A x \in Pictured : x \notin Portfolios => picture[x] = None
        /\ \A x \in Portfolios : picture[x] # None
        /\ picture \in [Pictured -> Files \cup {None} \cup NoRow]
    BY <1>1, <1>2 DEF Pictured
  <1>5. CASE subject = TheCatalogues
    <2>1. PictureIdle \in ImportLocal
      BY DEF PictureIdle, ImportLocal
    <2>2. /\ item = [i \in Items |-> None] /\ draft = [r \in Requests |-> NoDraft]
          /\ imported = {} /\ stray = {} /\ withdrawn = {}
      BY <1>1 DEF ImportsInit
    <2>3. PicturesTypeOK(ImportLocal)
      BY <1>1, <1>2, <1>4, <2>1 DEF PicturesTypeOK
    <2>4. ImportsTypeOK
      BY <2>2, NoDraftIsDraft DEF ImportsTypeOK
    <2>5. ImportsTyped
      BY <1>3, <2>2, <2>3, <2>4 DEF ImportsTyped, Taking, At
    <2>6. WorkbooksAreNew
      BY <1>1, <1>2, <1>3, <2>2 DEF WorkbooksAreNew, At
    <2>7. WorkbooksStay
      BY <1>2, <1>3, <2>2 DEF WorkbooksStay, At
    <2>8. QED
      BY <1>1, <1>4, <1>5, <2>5, <2>6, <2>7 DEF FilesInv, IInv
  <1>6. CASE subject # TheCatalogues
    <2>1. PicturesTyped
      BY <1>1, <1>2, <1>3, <1>4, PictureIdleFacts DEF PicturesTyped, PicturesTypeOK
    <2>2. FilesAreNew
      BY <1>2, <1>3, <1>4 DEF FilesAreNew, At
    <2>3. ErasedStayAway
      <3>1. \A r \in Requests : ~AtOne(r, {"compress_put", "compress_save"}) /\ ~AtOne(r, Erasing)
        BY <1>3 DEF AtOne, Erasing, Deletion
      <3>2. \A f \in Files : record[f] # "gone"
        BY <1>1, NoneIsNoStatus
      <3>3. QED
        BY <1>1, <3>1, <3>2 DEF ErasedStayAway
    <2>4. OneRowEach
      BY <1>3, <1>4 DEF OneRowEach, Uses, Names
    <2>5. StoredStay
      BY <1>3 DEF StoredStay, Stores, Deletion
    <2>6. ShownInv
      BY <1>3, <1>4 DEF ShownInv, ShownPicturesExist, At
    <2>7. KeptInv
      BY <1>1, <1>3 DEF KeptInv, Away, Lapsed, At
    <2>8. QED
      BY <1>1, <1>6, <2>1, <2>2, <2>3, <2>4, <2>5, <2>6, <2>7 DEF FilesInv, PicturesInv
  <1>7. QED
    BY <1>5, <1>6

\* Other services have nothing to do with files.
LEMMA FilesRemain ==
  ASSUME FilesInv, UNCHANGED <<pictureVars, importVars, subject>>
  PROVE  FilesInv'
  <1>1. UNCHANGED <<object, record, req, picture, reverted, lost, pasted, left, deleted, crossed,
                    item, draft, imported, stray, withdrawn, subject>>
    BY DEF pictureVars, importVars, pictureHistory
  <1>2. PicturesTyped => PicturesTyped'
    BY <1>1 DEF PicturesTyped, PicturesTypeOK
  <1>3. OneRowEach /\ StoredStay => OneRowEach' /\ StoredStay'
    BY <1>1 DEF OneRowEach, Uses, Names, StoredStay, Stores, Shown
  <1>4. FilesAreNew => FilesAreNew'
    BY <1>1 DEF FilesAreNew, At
  <1>5. ErasedStayAway => ErasedStayAway'
    BY <1>1 DEF ErasedStayAway, AtOne, At, Compressing
  <1>6. ShownInv => ShownInv'
    BY <1>1 DEF ShownInv, ShownPicturesExist, Loses, AtOne, At
  <1>7. KeptInv => KeptInv'
    BY <1>1 DEF KeptInv, Away, Lapsed, AtOne, At, Shown, Stores
  <1>8. ImportsTyped => ImportsTyped'
    BY <1>1 DEF ImportsTyped, PicturesTypeOK, ImportsTypeOK, At
  <1>9. WorkbooksAreNew => WorkbooksAreNew'
    BY <1>1 DEF WorkbooksAreNew, At
  <1>10. WorkbooksStay => WorkbooksStay'
    BY <1>1 DEF WorkbooksStay, Available, At
  <1>11. ImportsInit => ImportsInit'
    BY <1>1 DEF ImportsInit
  <1>12. QED
    BY <1>1, <1>2, <1>3, <1>4, <1>5, <1>6, <1>7, <1>8, <1>9, <1>10, <1>11
      DEF FilesInv, PicturesInv, IInv

\* The invariant of the files holds in every reachable state.
LEMMA FilesInvariant == Spec => []FilesInv
  <1>1. Init => FilesInv
    BY FilesBegin
  <1>2. FilesInv /\ [Next]_recordVars => FilesInv'
    <2>1. FilesInv /\ NextPicture => FilesInv'
      <3> SUFFICES ASSUME FilesInv, NextPicture
                   PROVE  FilesInv'
        OBVIOUS
      <3>1. subject # TheCatalogues /\ subject' = subject /\ UNCHANGED <<item, draft, imported, stray, withdrawn>>
        BY SubjectsAssumption DEF NextPicture, importVars
      <3>2. PicturesInv' /\ ImportsInit'
        BY <3>1, PictureStepsKeep DEF FilesInv, ImportsInit
      <3>3. QED
        BY <3>1, <3>2 DEF FilesInv
    <2>2. FilesInv /\ NextImport => FilesInv'
      <3> SUFFICES ASSUME FilesInv, NextImport
                   PROVE  FilesInv'
        OBVIOUS
      <3>1. subject = TheCatalogues /\ subject' = subject /\ picture' = picture /\ deleted' = deleted
        BY DEF NextImport, pictureHistory
      <3>2. IInv'
        BY <3>1, ImportsStepsKeep DEF FilesInv
      <3>3. QED
        BY <3>1, <3>2 DEF FilesInv
    <2>3. [Next]_recordVars => NextPicture \/ NextImport \/ UNCHANGED <<pictureVars, importVars, subject>>
      BY DEF Next, recordVars, NextEntry, NextSkill, NextMessage, NextRecord
    <2>4. QED
      BY <2>1, <2>2, <2>3, FilesRemain
  <1>3. QED
    BY <1>1, <1>2, PTL DEF Spec

\* Every variable of these services stays within its type.
THEOREM RecordsTypeCorrect == Spec => []TypeOK
  <1>1. FilesInv =>
          /\ PicturesTypeOK(IF subject = TheCatalogues THEN ImportLocal ELSE PictureLocal)
          /\ ImportsTypeOK /\ subject \in Subjects
    <2>1. ImportsInit => ImportsTypeOK
      BY NoDraftIsDraft DEF ImportsInit, ImportsTypeOK
    <2>2. QED
      BY <2>1 DEF FilesInv, IInv, ImportsTyped, PicturesInv, PicturesTyped
  <1>2. FilesInv /\ EntriesInv /\ SkillsInv /\ MessagesInv /\ NotesInv => TypeOK
    BY <1>1 DEF TypeOK, EntriesInv, SkillsInv, MessagesInv, NotesInv
  <1>3. QED
    BY <1>2, FilesInvariant, EntriesInvariant, SkillsInvariant, MessagesInvariant, NotesInvariant, PTL

\* Every file that a row refers to is there: the picture a row shows, however requests overlap,
\* unless a save that brought none has written back an older one, a company was given the URL by
\* hand, or an update of an avatar has failed half-way; and the workbook an item was imported
\* from, unless its owner has deleted it.
THEOREM FilesInUseStay == Spec => []FilesInUseExist
  <1>1. FilesInv => FilesInUseExist
    <2>1. CASE FilesInv /\ subject = TheCatalogues
      BY <2>1 DEF FilesInv, IInv, WorkbooksStay, FilesInUseExist, ShownPicturesExist, SourcesCanBeRead
    <2>2. CASE FilesInv /\ subject # TheCatalogues
      BY <2>2, ImportsAssumption DEF FilesInv, PicturesInv, ShownInv, ImportsInit, FilesInUseExist, SourcesCanBeRead
    <2>3. QED
      BY <2>1, <2>2
  <1>2. QED
    BY <1>1, FilesInvariant, PTL

\* An object in the bucket is shown, imported from, or the business of a request, unless a request
\* failed half-way, had read a row that another has written, or met a worker, or the object was
\* deleted by a URL that is not its key.
THEOREM OnlyFilesInUseStay == Spec => []OnlyFilesInUseAreKept
  <1>1. FilesInv => OnlyFilesInUseAreKept
    <2>1. CASE FilesInv /\ subject = TheCatalogues
      BY <2>1 DEF FilesInv, IInv, WorkbooksAreNew, OnlyFilesInUseAreKept
    <2>2. CASE FilesInv /\ subject # TheCatalogues
      <3>1. \A f \in Files : Away(f) \/ Shown(f) \/ \E r \in Requests : Stores(req[r], f)
        BY <2>2 DEF FilesInv, PicturesInv, KeptInv
      <3>2. object \in SUBSET Files
        BY <2>2, PicturesFacts DEF FilesInv
      <3>3. QED
        BY <3>1, <3>2 DEF Away, Lapsed, Stores, OnlyFilesInUseAreKept
    <2>3. QED
      BY <2>1, <2>2
  <1>2. QED
    BY <1>1, FilesInvariant, PTL

\* A file whose deletion is complete does not come back, unless a worker was compressing it
\* meanwhile, however late or often its message is delivered; of one whose URL is not its key
\* the object alone stays.
THEOREM DeletedFilesStayDeleted == Spec => []DeletedStaysDeleted
  <1>1. FilesInv => DeletedStaysDeleted
    BY DEF FilesInv, PicturesInv, ErasedStayAway, DeletedStaysDeleted
  <1>2. QED
    BY <1>1, FilesInvariant, PTL

=============================================================================
