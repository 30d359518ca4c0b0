----------------------------- MODULE SkillLists -----------------------------
(***************************************************************************)
(* CandidateSkillService: the catalogue of skills by category, and the     *)
(* skills of a candidate, which are added and removed one by one or        *)
(* replaced in a transaction (sync).  The lists of two candidates have     *)
(* nothing to do with each other, and one is enough here.  Names, slugs,   *)
(* levels and years are left out.                                          *)
(***************************************************************************)
EXTENDS FiniteSets

CONSTANTS Skills, Categories,
          Curators,    \* requests in progress
          NoCategory,
          Unknown

ASSUME SkillListsAssumption == NoCategory \notin Categories /\ (\A skills \in SUBSET Skills : skills # Unknown)

VARIABLES
  categories,  \* rows of skill_categories
  category,    \* [Skills -> the category of a row of skills, or NoCategory if there is none]
  list,        \* the skills in rows of candidate_skills
  curating,    \* [Curators -> the await a request is at, and what it has found]
  asked        \* history: the list that was asked for, or Unknown once requests have overlapped

skillVars == <<categories, category, list, curating, asked>>

\* skills: those of the request; found: rows it has found, or has deleted in its transaction.
Curating == [at: {"idle", "assign", "remove", "sync_delete", "sync_insert"},
             skills: SUBSET Skills, found: SUBSET Skills, alone: BOOLEAN]

CuratingIdle == [at |-> "idle", skills |-> {}, found |-> {}, alone |-> FALSE]

SkillsTypeOK ==
  /\ categories \in SUBSET Categories
  /\ category \in [Skills -> Categories \cup {NoCategory}]
  /\ \A k \in Skills : category[k] # NoCategory => category[k] \in categories
  /\ list \in SUBSET {k \in Skills : category[k] # NoCategory}
  /\ curating \in [Curators -> Curating]
  /\ asked \in {Unknown} \cup SUBSET Skills

SkillsInit ==
  /\ categories = {} /\ category = [k \in Skills |-> NoCategory]
  /\ list = {} /\ asked = {}
  /\ curating = [r \in Curators |-> CuratingIdle]

Known(skills) == \A k \in skills : category[k] # NoCategory

\* Rows deleted by the open transactions of requests other than r: who wants them waits.
Deleting(r) == UNION {curating[q].found : q \in {p \in Curators \ {r} : curating[p].at = "sync_insert"}}

\* A request starts, and no other that is in progress is alone any more.
Curate(r, label, skills) ==
  LET alone == \A q \in Curators : curating[q].at = "idle" IN
  /\ curating[r].at = "idle"
  /\ curating' = [q \in Curators |->
       IF q = r THEN [at |-> label, skills |-> skills, found |-> list \cap skills, alone |-> alone]
       ELSE [curating[q] EXCEPT !.alone = FALSE]]
  /\ UNCHANGED <<categories, category, list, asked>>

\* It ends with the list as it has asked for.
Commit(r, skills) ==
  /\ list' = skills
  /\ curating' = [curating EXCEPT ![r] = CuratingIdle]
  /\ UNCHANGED <<categories, category>>

Asked(r, skills) == asked' = IF curating[r].alone THEN skills ELSE Unknown

AddTo(skills, k) == IF skills = Unknown THEN Unknown ELSE skills \cup k
DropFrom(skills, k) == IF skills = Unknown THEN Unknown ELSE skills \ k

----------------------------------------------------------------------------
(* The catalogue *)

CreateCategory(c) ==
  /\ c \notin categories
  /\ categories' = categories \cup {c}
  /\ UNCHANGED <<category, list, curating, asked>>

\* createSkill; the category is looked for, and a foreign key holds it.
CreateSkill(k, c) ==
  /\ c \in categories /\ category[k] = NoCategory
  /\ category' = [category EXCEPT ![k] = c]
  /\ UNCHANGED <<categories, list, curating, asked>>

\* A category that is deleted alone.
DeleteCategoryOnly(c) ==
  /\ c \in categories
  /\ categories' = categories \ {c}
  /\ UNCHANGED <<category, list, curating, asked>>

\* deleteCategory; its skills, and the rows that refer to them, are deleted with it.
DeleteCategory(c) ==
  LET gone == {k \in Skills : category[k] = c} IN
  /\ c \in categories /\ \A r \in Curators : gone \cap Deleting(r) = {}
  /\ categories' = categories \ {c}
  /\ category' = [k \in Skills |-> IF k \in gone THEN NoCategory ELSE category[k]]
  /\ list' = list \ gone
  /\ asked' = DropFrom(asked, gone)
  /\ UNCHANGED curating

----------------------------------------------------------------------------
(* The list *)

\* assignSkillToCandidate finds the skill and the row, if there is one ...
AssignFind(r, k) == Known({k}) /\ Curate(r, "assign", {k})

\* ... and saves a row: a second one is refused by the unique pair of candidate and skill.
AssignSave(r) ==
  LET k == curating[r].skills IN
  /\ curating[r].at = "assign" /\ Known(k) /\ k \cap Deleting(r) = {}
  /\ curating[r].found = {} => k \cap list = {}
  /\ Commit(r, list \cup k) /\ Asked(r, AddTo(asked, k))

\* removeSkillFromCandidate finds the row ...
RemoveFind(r, k) == k \in list /\ Curate(r, "remove", {k})

\* ... and deletes it.
RemoveDelete(r) ==
  LET k == curating[r].skills IN
  /\ curating[r].at = "remove" /\ k \cap Deleting(r) = {}
  /\ Commit(r, list \ k) /\ Asked(r, DropFrom(asked, k))

\* syncCandidateSkills finds the skills ...
SyncFind(r, skills) == Known(skills) /\ Curate(r, "sync_delete", skills)

\* A sync without a transaction.
SyncDeleteAutocommit(r) ==
  /\ curating[r].at = "sync_delete" /\ list \cap Deleting(r) \subseteq curating[r].skills
  /\ list' = list \cap curating[r].skills
  /\ curating' = [curating EXCEPT ![r].at = "sync_insert", ![r].found = {}]
  /\ UNCHANGED <<categories, category, asked>>

\* ... and in a transaction deletes the rows of all others ...
SyncDelete(r) ==
  /\ curating[r].at = "sync_delete" /\ list \cap Deleting(r) \subseteq curating[r].skills
  /\ curating' = [curating EXCEPT ![r].at = "sync_insert",
                                  ![r].found = list \ curating[r].skills]
  /\ UNCHANGED <<categories, category, list, asked>>

\* ... finds the rows that are left and inserts the missing ones.
SyncInsert(r) ==
  LET skills == curating[r].skills IN
  /\ curating[r].at = "sync_insert" /\ Known(skills)
  /\ Commit(r, (list \ curating[r].found) \cup skills) /\ Asked(r, skills)

\* A statement or a constraint fails, or the process dies; a transaction is rolled back.
FailCurate(r) ==
  /\ curating[r].at # "idle"
  /\ curating' = [curating EXCEPT ![r] = CuratingIdle]
  /\ UNCHANGED <<categories, category, list, asked>>

CatalogueRoutes ==
  \E c \in Categories :
    CreateCategory(c) \/ DeleteCategory(c) \/ \E k \in Skills : CreateSkill(k, c)

SkillRoutes(r) ==
  \/ \E k \in Skills : AssignFind(r, k) \/ RemoveFind(r, k)
  \/ \E skills \in SUBSET Skills : SyncFind(r, skills)

CurateStep(r) ==
  AssignSave(r) \/ RemoveDelete(r) \/ SyncDelete(r) \/ SyncInsert(r) \/ FailCurate(r)

\* The candidate has the skills last asked for, less those of deleted categories, unless
\* requests have overlapped: a replacement that fails half-way leaves the old list, whole.
SkillsAsAsked == asked # Unknown => list = asked
=============================================================================
