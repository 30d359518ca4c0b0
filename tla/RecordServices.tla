--------------------------- MODULE RecordServices ---------------------------
(***************************************************************************)
(* The services that read a row in one statement and write it in a later   *)
(* one: pictures, entries with dates, lists of skills, conversations, the  *)
(* reference catalogues, and interviews, feedback and scores.  Their rows  *)
(* are disjoint and each of their properties is about rows of one kind, so *)
(* that a behaviour here is about one subject, chosen at the start: an     *)
(* entry, or the pictures, the skills, the messages, the catalogues or the *)
(* applications.                                                           *)
(***************************************************************************)
EXTENDS ProfilePictures, ReferenceImports, DatedEntries, SkillLists, Conversations,
        ApplicationRecords

CONSTANTS ThePictures, TheSkills, TheMessages, TheCatalogues, TheApplications   \* subjects

VARIABLE subject   \* what the requests of the behaviour are about

recordVars == <<pictureVars, importVars, datedVars, skillVars, talkVars, notedVars,
                subject>>

ASSUME SubjectsAssumption ==
  /\ {ThePictures, TheSkills, TheMessages, TheCatalogues, TheApplications} \cap Dated = {}
  /\ ThePictures # TheCatalogues

Subjects == Dated \cup {ThePictures, TheSkills, TheMessages, TheCatalogues, TheApplications}

ImportLocal ==
  [at: {"idle"} \cup ImportAwaits \cup StorageAwaits, file: Files \cup {None}, row: {None},
   other: {None}, then: {"idle", "import_rows"}]

TypeOK ==
  /\ PicturesTypeOK(IF subject = TheCatalogues THEN ImportLocal ELSE PictureLocal)
  /\ ImportsTypeOK /\ DatedTypeOK /\ SkillsTypeOK /\ TalkTypeOK /\ RecordsTypeOK
  /\ subject \in Subjects

Init ==
  /\ PicturesInit /\ ImportsInit /\ DatedInit /\ SkillsInit /\ TalkInit /\ RecordsInit
  /\ subject \in Subjects

NextPicture ==
  /\ subject = ThePictures
  /\ \/ \E r \in Requests, x \in Pictured :
          PortfolioRoutes(r, x) \/ BrandingRoute(r, x) \/ ReplaceAvatar(r, x)
     \/ \E x \in Pictured : CompanyRoute(x)
     \/ \E r \in Requests : PictureStep(r)
  /\ UNCHANGED <<importVars, datedVars, skillVars, talkVars, notedVars, subject>>

NextImport ==
  /\ subject = TheCatalogues
  /\ \E r \in Requests : ImportRoutes(r) \/ ItemRoutes(r) \/ ImportStep(r)
  /\ UNCHANGED <<picture, pictureHistory, datedVars, skillVars, talkVars, notedVars, subject>>

NextEntry ==
  /\ subject \in Dated
  /\ \/ CreateRoutes(subject)
     \/ \E r \in Editors :
          \/ ExperienceRoutes(r, subject) \/ CertificateRoutes(r, subject)
          \/ EducationRoutes(r, subject) \/ EditStep(r)
  /\ UNCHANGED <<pictureVars, importVars, skillVars, talkVars, notedVars, subject>>

NextSkill ==
  /\ subject = TheSkills
  /\ CatalogueRoutes \/ \E r \in Curators : SkillRoutes(r) \/ CurateStep(r)
  /\ UNCHANGED <<pictureVars, importVars, datedVars, talkVars, notedVars, subject>>

NextMessage ==
  /\ subject = TheMessages
  /\ \E r \in Senders : (\E p \in Partners : MessageRoutes(r, p)) \/ SendStep(r)
  /\ UNCHANGED <<pictureVars, importVars, datedVars, skillVars, notedVars, subject>>

NextRecord ==
  /\ subject = TheApplications
  /\ \/ MembershipStep
     \/ \E r \in Recorders :
          \/ \E u \in Staff : InterviewRoute(r, u) \/ FeedbackRoute(r, u) \/ ScoreRoute(r, u)
          \/ NoteStep(r)
  /\ UNCHANGED <<pictureVars, importVars, datedVars, skillVars, talkVars, subject>>

Next == NextPicture \/ NextImport \/ NextEntry \/ NextSkill \/ NextMessage \/ NextRecord

Spec == Init /\ [][Next]_recordVars

----------------------------------------------------------------------------
(* Properties *)

\* Every file that a row refers to is there: updateBranding, PortfolioService.update,
\* updateCandidateProfile and importWorkbook each store, save and delete in their own order.
FilesInUseExist == ShownPicturesExist /\ SourcesCanBeRead

\* An object in the bucket is the picture of a row, the workbook of an import that was
\* committed, or the business of a request, unless a request failed or died half-way, had read
\* a row that another has written since, or deleted a file while a worker was compressing it; or
\* it was deleted by a URL that is not its key.
OnlyFilesInUseAreKept ==
  \A f \in object \ (left \cup crossed \cup stray \cup (Escaped \cap deleted)) :
    \/ Shown(f) \/ f \in imported
    \/ \E r \in Requests : f \in {req[r].file, req[r].other}
=============================================================================
