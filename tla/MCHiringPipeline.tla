-------------------------- MODULE MCHiringPipeline --------------------------
(* The instances of HiringPipeline that TLC checks. *)
EXTENDS HiringPipeline, TLC

CONSTANTS k1, k2

\* All applications are sent to the first company; the second one has stages of its own.
SentToFirst == [a \in Applications |-> k1]

Symmetry == Permutations(Applications) \cup Permutations(Stages) \cup Permutations(Requests)
=============================================================================
