-------------------------- MODULE MCInProcessStore --------------------------
(* Instances of InProcessStore for TLC.                                    *)
EXTENDS InProcessStore

Symmetry == Permutations(JobIds) \cup Permutations(Types)
=============================================================================
