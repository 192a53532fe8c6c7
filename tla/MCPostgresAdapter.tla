------------------------- MODULE MCPostgresAdapter -------------------------
(* Instances of PostgresAdapter for TLC.                                   *)
EXTENDS PostgresAdapter, TLC

Symmetry == Permutations(JobIds) \cup Permutations(Workers)
=============================================================================
