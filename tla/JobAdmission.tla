---------------------------- MODULE JobAdmission ----------------------------
(***************************************************************************)
(* What the job board promises a company about one job posting, with no    *)
(* counters, locks or requests: candidates are admitted one at a time,     *)
(* only while the job is live, at most once each, and never beyond the     *)
(* capacity in force at that moment.  Nobody is ever dropped again.        *)
(* JobApplications is shown to implement it.                               *)
(***************************************************************************)
EXTENDS Naturals, FiniteSets

CONSTANTS Jobs,        \* identifiers of job rows
          Candidates,  \* users who may apply
          Capacities   \* the values the capacity column takes

Status == {"ABSENT", "DRAFT", "LIVE", "CLOSED"}

VARIABLES status,    \* [Jobs -> Status]
          capacity,  \* [Jobs -> Capacities]
          admitted   \* [Jobs -> SUBSET Candidates]

vars == <<status, capacity, admitted>>

Init == /\ status = [j \in Jobs |-> "ABSENT"]
        /\ capacity \in [Jobs -> Capacities]
        /\ admitted = [j \in Jobs |-> {}]

\* A job row appears, as a draft nobody has applied to.
Create(j, n) == /\ status[j] = "ABSENT"
                /\ admitted[j] = {}
                /\ status' = [status EXCEPT ![j] = "DRAFT"]
                /\ capacity' = [capacity EXCEPT ![j] = n]
                /\ UNCHANGED admitted

\* The company moves the job between its statuses or edits its capacity, even
\* below the number already admitted.
Manage(j, s, n) == /\ status[j] # "ABSENT"
                   /\ s # "ABSENT"
                   /\ status' = [status EXCEPT ![j] = s]
                   /\ capacity' = [capacity EXCEPT ![j] = n]
                   /\ UNCHANGED admitted

Admit(j, c) == /\ status[j] = "LIVE"
               /\ c \notin admitted[j]
               /\ Cardinality(admitted[j]) < capacity[j]
               /\ admitted' = [admitted EXCEPT ![j] = @ \cup {c}]
               /\ UNCHANGED <<status, capacity>>

Next == \E j \in Jobs :
          \/ \E n \in Capacities : Create(j, n)
          \/ \E s \in Status, n \in Capacities : Manage(j, s, n)
          \/ \E c \in Candidates : Admit(j, c)

Spec == Init /\ [][Next]_vars
=============================================================================
