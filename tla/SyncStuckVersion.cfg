\* The version label of a re-created copy is empty: later versions never arrive.
SPECIFICATION FairSpec
CONSTANTS
  Keys = {k1}
  None = None
  NoRV = NoRV
  Guarded = FALSE
  Finalized = FALSE
  Unsync = FALSE
  MaxRV = 4
  MaxTime = 2
  MaxCrash = 0
  MaxFails = 0
PROPERTY LatestVersionCopied
CHECK_DEADLOCK FALSE
