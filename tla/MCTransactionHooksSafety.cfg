\* Three effects, savepoints nested twice, user code that sets its own hook; the transaction ends
SPECIFICATION Spec
CONSTANTS
  Effects = {e1, e2, e3}
  MaxBatch = 2
  MaxObjects = 2
  MaxDepth = 2
  Replacing = TRUE
  Catching = FALSE
  CommitFailures = FALSE
CHECK_DEADLOCK FALSE
SYMMETRY EffectSymmetry
INVARIANT SpansEndOnce
PROPERTIES LibraryHooksRestored EffectsArePromised
