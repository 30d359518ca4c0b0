------------------------- MODULE ApplicationRecords -------------------------
(***************************************************************************)
(* What the members of a company put on record about an application:       *)
(* InterviewsService, and updateScore of ApplicationsService.  Each looks  *)
(* for the membership of the user in one statement and writes in a later   *)
(* one; the company of an interview is the one its creator has named.      *)
(* Jobs change no company, and no application is ever deleted, so that the *)
(* reads of both are part of the step that looks for the membership.       *)
(***************************************************************************)
CONSTANTS Employers,   \* companies
          Received,    \* applications
          EmployerOf,  \* the company of the job of each application
          Staff,       \* users
          Interviews,  \* identifiers of rows of interviews
          Recorders,   \* requests in progress
          Nobody       \* no user, no row

ASSUME RecordsAssumption ==
  /\ EmployerOf \in [Received -> Employers]
  /\ Nobody \notin Staff \cup Received \cup Employers \cup Interviews
  /\ Nobody \notin [application: Received, company: Employers, by: Staff,
                    feedback: Staff \cup {Nobody}]

VARIABLES
  employee,   \* [Employers -> users with a row in company_members]
  interview,  \* [Interviews -> row of interviews, or Nobody]
  score,      \* [Received -> who gave the score of the application, or Nobody]
  noting,     \* [Recorders -> the await a request is at, with its local variables]
  overtaken   \* history: requests whose user has lost a membership since they began

notedVars == <<employee, interview, score, noting, overtaken>>

\* by and feedback: who created the interview, and who gave the feedback that COMPLETED it.
Interview == [application: Received, company: Employers, by: Staff, feedback: Staff \cup {Nobody}]

NotingIdle == [at |-> "idle", user |-> Nobody, application |-> Nobody, company |-> Nobody,
               interview |-> Nobody]

Noting == [at: {"idle", "interview_insert", "feedback_update", "score_update"},
           user: Staff \cup {Nobody}, application: Received \cup {Nobody},
           company: Employers \cup {Nobody}, interview: Interviews \cup {Nobody}]

RecordsTypeOK ==
  /\ employee \in [Employers -> SUBSET Staff]
  /\ interview \in [Interviews -> Interview \cup {Nobody}]
  /\ score \in [Received -> Staff \cup {Nobody}]
  /\ noting \in [Recorders -> Noting]
  /\ overtaken \in SUBSET Recorders

RecordsInit ==
  /\ employee = [k \in Employers |-> {}]
  /\ interview = [i \in Interviews |-> Nobody]
  /\ score = [a \in Received |-> Nobody]
  /\ noting = [r \in Recorders |-> NotingIdle]
  /\ overtaken = {}

----------------------------------------------------------------------------
(* Memberships, as far as these requests can tell: CompanyMembership has the rest *)

JoinsStaff(u, k) ==
  /\ employee' = [employee EXCEPT ![k] = @ \cup {u}]
  /\ UNCHANGED <<interview, score, noting, overtaken>>

LeavesStaff(u, k) ==
  /\ employee' = [employee EXCEPT ![k] = @ \ {u}]
  /\ overtaken' = overtaken \cup {r \in Recorders : noting[r].user = u}
  /\ UNCHANGED <<interview, score, noting>>

----------------------------------------------------------------------------
(* Requests *)

\* assertCompanyAccess: any membership of the company will do, active or not.
Access(u, k) == u \in employee[k]

\* A request that has read and checked what it needs goes on to write.
Note(r, local) ==
  /\ noting[r].at = "idle"
  /\ noting' = [noting EXCEPT ![r] = local]
  /\ UNCHANGED <<employee, interview, score, overtaken>>

Noted(r) ==
  /\ noting' = [noting EXCEPT ![r] = NotingIdle]
  /\ overtaken' = overtaken \ {r}

\* An interview for the company in the request, whatever company the application was sent to.
CreateInterviewUnchecked(r, u, a, k) ==
  /\ Access(u, k)
  /\ Note(r, [NotingIdle EXCEPT !.at = "interview_insert", !.user = u, !.application = a,
                                !.company = k])

\* create compares the company in the request with that of the application ...
CreateInterview(r, u, a, k) ==
  EmployerOf[a] = k /\ CreateInterviewUnchecked(r, u, a, k)

\* ... and inserts.  Nothing but the application is looked for: an application may have any
\* number of interviews, at any time.
InterviewInsert(r, i) ==
  /\ noting[r].at = "interview_insert" /\ interview[i] = Nobody
  /\ interview' = [interview EXCEPT ![i] =
       [application |-> noting[r].application, company |-> noting[r].company,
        by |-> noting[r].user, feedback |-> Nobody]]
  /\ Noted(r)
  /\ UNCHANGED <<employee, score>>

\* addFeedback asks for a membership of the company of the interview ...
AddFeedback(r, u, i) ==
  /\ interview[i] # Nobody /\ Access(u, interview[i].company)
  /\ Note(r, [NotingIdle EXCEPT !.at = "feedback_update", !.user = u, !.interview = i])

\* ... and writes the feedback and COMPLETED over whatever is there.
FeedbackUpdate(r) ==
  /\ noting[r].at = "feedback_update"
  /\ interview' = [interview EXCEPT ![noting[r].interview].feedback = noting[r].user]
  /\ Noted(r)
  /\ UNCHANGED <<employee, score>>

\* updateScore asks findOne for the application, and a membership of the company of its job ...
UpdateScore(r, u, a) ==
  /\ Access(u, EmployerOf[a])
  /\ Note(r, [NotingIdle EXCEPT !.at = "score_update", !.user = u, !.application = a])

\* ... and writes.
ScoreUpdate(r) ==
  /\ noting[r].at = "score_update"
  /\ score' = [score EXCEPT ![noting[r].application] = noting[r].user]
  /\ Noted(r)
  /\ UNCHANGED <<employee, interview>>

\* The statement fails, or the process dies before it.
FailNote(r) ==
  /\ noting[r].at # "idle"
  /\ Noted(r)
  /\ UNCHANGED <<employee, interview, score>>

InterviewRoute(r, u) == \E a \in Received, k \in Employers : CreateInterview(r, u, a, k)
FeedbackRoute(r, u) == \E i \in Interviews : AddFeedback(r, u, i)
ScoreRoute(r, u) == \E a \in Received : UpdateScore(r, u, a)

NoteStep(r) ==
  (\E i \in Interviews : InterviewInsert(r, i)) \/ FeedbackUpdate(r) \/ ScoreUpdate(r) \/ FailNote(r)

MembershipStep == \E u \in Staff, k \in Employers : JoinsStaff(u, k) \/ LeavesStaff(u, k)

----------------------------------------------------------------------------
(* Property *)

\* u is on the staff of the company that received application a, or was when a request of u,
\* still in progress, looked.
Entitled(u, a) ==
  u \in employee[EmployerOf[a]] \/ \E r \in overtaken : noting[r].user = u

\* Interviews, feedback and scores are put on record by members of the company the application
\* was sent to, for a request that began after a membership was lost writes nothing: feedback
\* is let in by the company of the interview, which creating it has compared with that of the
\* job, and updateScore by that of the job itself.
RecordedByStaff ==
  [][/\ \A i \in Interviews : interview'[i] # interview[i] =>
          Entitled(IF interview[i] = Nobody THEN interview'[i].by ELSE interview'[i].feedback,
                   interview'[i].application)
     /\ \A a \in Received : score'[a] # score[a] => Entitled(score'[a], a)]_notedVars
=============================================================================
