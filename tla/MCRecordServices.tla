-------------------------- MODULE MCRecordServices --------------------------
(* The instance of RecordServices that TLC checks. *)
EXTENDS RecordServices, TLC

CONSTANTS k1, k2

\* The application is sent to the first company.
SentToFirst == [a \in Received |-> k1]

Symmetry == Permutations(Files \ Escaped) \cup Permutations(Requests) \cup Permutations(Items)

\* What happens to pictures after one thing has gone wrong, or a company was given a URL by hand,
\* is followed until a second does; what happens to imports, after one.
FewThingsGoWrong ==
  /\ Cardinality(reverted) + Cardinality(lost) + Cardinality(pasted) + Cardinality(left)
       + Cardinality(crossed) <= 1
  /\ Cardinality(stray) + Cardinality(withdrawn) <= 1

\* Pictures of two rows share nothing but a file whose URL was given by hand: until there is
\* one, pictures are followed one row at a time.
OneRowOrPasted ==
  Cardinality({x \in Pictured : picture[x] \in Files \/ Working(x) # {}}) <= 1 + Cardinality(pasted)

\* Imports delete by key: workbooks whose URL is not their key are like the others.
NoEscapedWorkbook == subject = TheCatalogues => object \cap Escaped = {}

Followed == FewThingsGoWrong /\ OneRowOrPasted /\ NoEscapedWorkbook
=============================================================================
