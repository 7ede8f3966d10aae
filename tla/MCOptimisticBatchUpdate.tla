---------------------- MODULE MCOptimisticBatchUpdate -----------------------
(* Small instances of OptimisticBatchUpdate for TLC.                       *)
EXTENDS OptimisticBatchUpdate, TLC

CONSTANTS w1, w2, w3

MCWriters == {w1, w2, w3}

\* Writers are interchangeable: every property quantifies over all of them.
Symmetry == Permutations(MCWriters)

=============================================================================
