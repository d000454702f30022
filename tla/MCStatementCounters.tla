------------------------ MODULE MCStatementCounters ------------------------
(* Three statements behind two masks compete for two entries and one place *)
(* in the top N; three samples, two of them in one bucket.                 *)
EXTENDS StatementCounters

CONSTANTS e1, e2, e3, k1, k2

MCEntry == {e1, e2, e3}
MCMask == {k1, k2}
MCMaskOf == [e \in MCEntry |-> IF e = e3 THEN k2 ELSE k1]

\* Two entries of the same mask.
Symmetry == Permutations({e1, e2})
=============================================================================
