\* Convergence of Tenants and Projects, whose copies must be annotated before they go
\* (updateSpecialObjForDelete), while any call may fail and the warden restart.
SPECIFICATION FairSpec
CONSTANTS
  Keys = {k1}
  None = None
  NoRV = NoRV
  Guarded = TRUE
  Finalized = TRUE
  Unsync = FALSE
  MaxRV = 4
  MaxTime = 2
  MaxCrash = 1
  MaxFails = 2
INVARIANT SettledIsMirrored
PROPERTY EventuallyMirrored
CHECK_DEADLOCK FALSE
