---------------------------- MODULE DatedEntries ----------------------------
(***************************************************************************)
(* The entries of a candidate's profile that have dates: experiences,      *)
(* certificates and educations.  Each service reads an entry, checks its   *)
(* patch against what it has read, and writes in a later statement; the    *)
(* first writes the columns of the patch, the second the columns of the    *)
(* merged row that differ by then, and the third checks nothing.           *)
(***************************************************************************)
EXTENDS Naturals

CONSTANTS Experiences, Certificates, Educations,
          Editors,   \* requests in progress
          Dates,
          NoDate,    \* null
          Omitted,   \* undefined: a column that is not written
          NoEntry

Dated == Experiences \cup Certificates \cup Educations

ASSUME DatedAssumption ==
  /\ Dates \subseteq Nat /\ NoDate \notin Dates
  /\ Omitted \notin Dates \cup {NoDate} /\ Omitted \notin BOOLEAN
  /\ NoEntry \notin Dated \cup [start: Dates, end: Dates \cup {NoDate}, current: BOOLEAN]
  /\ Experiences \cap (Certificates \cup Educations) = {} /\ Certificates \cap Educations = {}

VARIABLES
  entry,      \* [Dated -> the row of an entry, or NoEntry]
  edit,       \* [Editors -> the await a request is at, and what it will write]
  skewed,     \* history: entries patched by a request while another was patching them
  unchecked   \* history: entries patched with an empty date, which is not checked

datedVars == <<entry, edit, skewed, unchecked>>

\* isCurrent is a column of experiences only.
Entry == [start: Dates, end: Dates \cup {NoDate}, current: BOOLEAN]

Edit == [at: {"idle", "update", "save", "insert", "delete"}, entry: Dated \cup {NoEntry},
         start: Dates \cup {Omitted}, end: Dates \cup {NoDate, Omitted},
         current: BOOLEAN \cup {Omitted}]

EditIdle == [at |-> "idle", entry |-> NoEntry, start |-> Omitted, end |-> Omitted,
             current |-> Omitted]

DatedTypeOK ==
  /\ entry \in [Dated -> Entry \cup {NoEntry}]
  /\ edit \in [Editors -> Edit]
  /\ skewed \in SUBSET Dated /\ unchecked \in SUBSET Dated

DatedInit ==
  /\ entry = [x \in Dated |-> NoEntry]
  /\ edit = [r \in Editors |-> EditIdle]
  /\ skewed = {} /\ unchecked = {}

----------------------------------------------------------------------------
(* Helpers *)

Exists(x) == entry[x] # NoEntry

\* validateDates of experiences, and of certificates.
InOrder(start, end, current) == end # NoDate => start <= end /\ ~current
CertificateInOrder(start, end) == end # NoDate => start <= end

\* What a column will be once the patch is written over it.
Over(given, column) == IF given = Omitted THEN column ELSE given

Editing(x) == {r \in Editors : edit[r].entry = x}
Patching(x) == {r \in Editing(x) : edit[r].at # "delete"}

\* A request that has read and checked entry x goes on to write it.
Write(r, x, local) ==
  /\ edit[r].at = "idle" /\ Exists(x)
  /\ edit' = [edit EXCEPT ![r] = [local EXCEPT !.entry = x]]
  /\ skewed' = skewed \cup {y \in {x} : local.at # "delete" /\ Patching(y) # {}}
  /\ UNCHANGED entry

Done(r) == edit' = [edit EXCEPT ![r] = EditIdle]

----------------------------------------------------------------------------

\* A row with a new id.
Insert(x, start, end, current) ==
  /\ ~Exists(x) /\ Editing(x) = {}
  /\ entry' = [entry EXCEPT ![x] = [start |-> start, end |-> end, current |-> current]]
  /\ UNCHANGED <<edit, skewed, unchecked>>

\* create of experiences checks the dates ...
CreateExperience(x) ==
  \E start \in Dates, end \in Dates \cup {NoDate}, current \in BOOLEAN :
    x \in Experiences /\ InOrder(start, end, current) /\ Insert(x, start, end, current)

\* ... and so does add of certificates ...
CreateCertificate(x) ==
  \E start \in Dates, end \in Dates \cup {NoDate} :
    x \in Certificates /\ CertificateInOrder(start, end) /\ Insert(x, start, end, FALSE)

\* ... but not add of educations.
CreateEducation(x) ==
  \E start \in Dates, end \in Dates \cup {NoDate} :
    x \in Educations /\ Insert(x, start, end, FALSE)

\* A patch that is checked by itself, and not with the columns it leaves alone.
EditExperienceAlone(r, x) ==
  \E start \in Dates \cup {NoDate, Omitted}, end \in Dates \cup {NoDate, Omitted},
     current \in BOOLEAN \cup {Omitted} :
    /\ x \in Experiences
    /\ start \in Dates => InOrder(start, Over(end, NoDate), Over(current, FALSE))
    /\ Write(r, x, [EditIdle EXCEPT !.at = "update", !.end = end, !.current = current,
                      !.start = IF start = NoDate THEN Omitted ELSE start])
    /\ unchecked' = unchecked \cup {y \in {x} : start = NoDate}

\* update of experiences checks the patch over the row it has read.  A patch is not validated
\* before (Partial of a DTO is no class): a startDate of null, or empty, switches the check
\* off, and is not written.
EditExperience(r, x) ==
  \E start \in Dates \cup {NoDate, Omitted}, end \in Dates \cup {NoDate, Omitted},
     current \in BOOLEAN \cup {Omitted} :
    /\ x \in Experiences /\ Exists(x)
    /\ start # NoDate => InOrder(Over(start, entry[x].start), Over(end, entry[x].end),
                                 Over(current, entry[x].current))
    /\ Write(r, x, [EditIdle EXCEPT !.at = "update", !.end = end, !.current = current,
                      !.start = IF start = NoDate THEN Omitted ELSE start])
    /\ unchecked' = unchecked \cup {y \in {x} : start = NoDate}

\* patch of certificates merges the patch into the row it has read.  It throws if a date that
\* is there is not in the patch, for it takes the string it has read for a Date.  An empty
\* expirationDate, Omitted here, is checked as if it were null, and is not written.
EditCertificate(r, x) ==
  \E start \in Dates, end \in Dates \cup {NoDate, Omitted} :
    /\ x \in Certificates /\ Exists(x)
    /\ CertificateInOrder(start, Over(end, NoDate))
    /\ Write(r, x, [EditIdle EXCEPT !.at = "save", !.start = start,
                                     !.end = Over(end, entry[x].end)])
    /\ unchecked' = unchecked \cup {y \in {x} : end = Omitted /\ entry[x].end # NoDate}

\* patch of educations writes both dates: no end is null, and no start an invalid date, which
\* PostgreSQL refuses.
EditEducation(r, x) ==
  \E start \in Dates, end \in Dates \cup {NoDate} :
    /\ x \in Educations
    /\ Write(r, x, [EditIdle EXCEPT !.at = "update", !.start = start, !.end = end])
    /\ UNCHANGED unchecked

\* The columns of the patch are updated, if the row is still there.
EntryUpdate(r) ==
  LET x == edit[r].entry IN
  /\ edit[r].at = "update"
  /\ entry' = IF ~Exists(x) THEN entry
              ELSE [entry EXCEPT ![x] = [start   |-> Over(edit[r].start, @.start),
                                         end     |-> Over(edit[r].end, @.end),
                                         current |-> Over(edit[r].current, @.current)]]
  /\ Done(r)
  /\ UNCHANGED <<skewed, unchecked>>

\* save finds the row again, for the columns in which it differs from what was read and merged ...
CertificateFind(r) ==
  LET x == edit[r].entry
      Differing(value, column) == IF value = column THEN Omitted ELSE value
  IN
  /\ edit[r].at = "save"
  /\ edit' = [edit EXCEPT ![r] =
       IF Exists(x) THEN [@ EXCEPT !.at = "update",
                                   !.start = Differing(edit[r].start, entry[x].start),
                                   !.end = Differing(edit[r].end, entry[x].end)]
       ELSE [@ EXCEPT !.at = "insert"]]
  /\ UNCHANGED <<entry, skewed, unchecked>>

\* ... and inserts it if it is gone.
CertificateInsert(r) ==
  LET x == edit[r].entry IN
  /\ edit[r].at = "insert" /\ ~Exists(x)
  /\ entry' = [entry EXCEPT ![x] = [start |-> edit[r].start, end |-> edit[r].end, current |-> FALSE]]
  /\ Done(r)
  /\ UNCHANGED <<skewed, unchecked>>

\* remove reads the entry ...
RemoveEntry(r, x) ==
  /\ Write(r, x, [EditIdle EXCEPT !.at = "delete"])
  /\ UNCHANGED unchecked

\* ... and deletes it.
EntryDelete(r) ==
  /\ edit[r].at = "delete"
  /\ entry' = [entry EXCEPT ![edit[r].entry] = NoEntry]
  /\ Done(r)
  /\ UNCHANGED <<skewed, unchecked>>

\* The statement fails, or the process dies before it.
FailEdit(r) ==
  /\ edit[r].at # "idle"
  /\ Done(r)
  /\ UNCHANGED <<entry, skewed, unchecked>>

CreateRoutes(x) == CreateExperience(x) \/ CreateCertificate(x) \/ CreateEducation(x)
RemoveRoute(r, x, rows) == x \in rows /\ RemoveEntry(r, x)

ExperienceRoutes(r, x) == EditExperience(r, x) \/ RemoveRoute(r, x, Experiences)
CertificateRoutes(r, x) == EditCertificate(r, x) \/ RemoveRoute(r, x, Certificates)
EducationRoutes(r, x) == EditEducation(r, x) \/ RemoveRoute(r, x, Educations)

EditStep(r) ==
  EntryUpdate(r) \/ CertificateFind(r) \/ CertificateInsert(r) \/ EntryDelete(r) \/ FailEdit(r)

----------------------------------------------------------------------------
(* Property *)

\* No experience and no certificate ends before it starts, and no current position has an end:
\* a check of a patch over the row as it was read, and a later write of some of the columns.
\* It is right unless two patches of the entry have overlapped, each in order with what it had
\* read, or a date in a patch was empty; a removal or a failure in between does no harm.
DatesInOrder ==
  \A x \in Experiences \cup Certificates :
    Exists(x) => InOrder(entry[x].start, entry[x].end, entry[x].current)
                 \/ x \in skewed \cup unchecked
=============================================================================
