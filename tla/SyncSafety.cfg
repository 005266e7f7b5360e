\* Safety of the copies: two names sharing one reconciler and collector, API
\* faults, a crash, users that clear the sync annotation.
SPECIFICATION Spec
CONSTANTS
  Keys = {k1, k2}
  None = None
  NoRV = NoRV
  Guarded = TRUE
  Finalized = TRUE
  Unsync = TRUE
  MaxRV = 3
  MaxTime = 1
  MaxCrash = 1
  MaxFails = 2
SYMMETRY KeySymmetry
INVARIANT TypeOK
PROPERTY ReplicaSafety
PROPERTY ReconcilerSparesLiveCopies
CHECK_DEADLOCK FALSE
