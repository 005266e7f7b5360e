\* Health of a registered cluster, with a call that fails.
SPECIFICATION FairSpec
CONSTANTS
  None = None
  MaxRetries = 1
  MaxPosts = 1
  MaxCreate = 0
  MaxFlips = 1
  MaxFaults = 1
  MaxLeaked = 0
  MaxAlive = 4
PROPERTY HealthRecovers
PROPERTY LossDetected
CHECK_DEADLOCK FALSE
