-------------------------- MODULE MCResumeLibrary --------------------------
(* The instance of ResumeLibrary that TLC checks. *)
EXTENDS ResumeLibrary, FiniteSets, Naturals, TLC

Symmetry == Permutations(Candidates) \cup Permutations(Files) \cup Permutations(Requests)
            \cup Permutations(Keys)

\* What happens after something has gone wrong is followed until something else does.
OneThingGoesWrong ==
  Cardinality(raced) + Cardinality(strayed) + Cardinality(stuck) + Cardinality(outlived) <= 1

\* Extractions of different resumes share no state: they are followed on one resume.
Extracted ==
  {f \in Files : \/ resume[f] # None /\ resume[f].status # "pending"
                 \/ f \in proposed \cup dismissed \/ \E k \in Keys : <<f, k>> \in held}
OneExtracted == Cardinality(Extracted) <= 1

\* The default and the parsing status share no state either: once changes of the default have
\* overlapped, no extraction is followed.
NoneAfterRaces == raced # {} => Extracted = {}

Followed == OneThingGoesWrong /\ OneExtracted /\ NoneAfterRaces
=============================================================================
