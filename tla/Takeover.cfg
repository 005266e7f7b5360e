\* Take-over, retries and deletion of a cluster that may have been registered.
SPECIFICATION FairSpec
CONSTANTS
  None = None
  Retain = FALSE
  RegisterMode = FALSE
  Followed = TRUE
  MaxCreate = 1
  MaxFlips = 2
  MaxFaults = 1
  MaxLost = 1
  MaxExpired = 1
INVARIANT TypeOK
INVARIANT RetryHasObject
PROPERTY RetryEnds
PROPERTY DeletionCompletes
CHECK_DEADLOCK FALSE
