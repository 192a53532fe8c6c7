------------------------ MODULE MCTransactionHooks ------------------------
(***************************************************************************)
(* TLC instances of TransactionHooks.                                      *)
(***************************************************************************)
EXTENDS TransactionHooks, TLC

EffectSymmetry == Permutations(Effects)
=============================================================================
