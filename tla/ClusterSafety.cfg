\* Registration by both threads at once, and panics.
SPECIFICATION Spec
CONSTANTS
  None = None
  MaxRetries = 1
  MaxPosts = 1
  MaxCreate = 1
  MaxFlips = 0
  MaxFaults = 0
  MaxLeaked = 1
  MaxAlive = 4
INVARIANT TypeOK
INVARIANT RegisteredIsWatched
INVARIANT OnlyRegisteredCollects
CHECK_DEADLOCK FALSE
