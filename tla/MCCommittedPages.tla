-------------------------- MODULE MCCommittedPages --------------------------
(* CommittedPages for TLC. *)
EXTENDS CommittedPages

CONSTANTS s1, s2

\* The first two events are too heavy to be kept together, the third is too
\* heavy to be kept at all.
MCSize == [n \in 1..MaxSeq |-> IF n < 3 THEN 2 ELSE IF n = 3 THEN 4 ELSE 1]

ReaderSymmetry == Permutations(Reader)
=============================================================================
