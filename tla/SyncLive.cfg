\* Convergence: one name through two incarnations, a crash at any point.
SPECIFICATION FairSpec
CONSTANTS
  Keys = {k1}
  None = None
  NoRV = NoRV
  Guarded = FALSE
  Finalized = TRUE
  Unsync = FALSE
  MaxRV = 4
  MaxTime = 2
  MaxCrash = 1
  MaxFails = 0
PROPERTY EventuallyMirrored
CHECK_DEADLOCK FALSE
