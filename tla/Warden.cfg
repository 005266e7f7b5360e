CONSTANTS
  None = None
  MaxOps = 4
  MaxFaults = 1
  Absent = Absent
  Bad = Bad
  Unset = Unset
  Components = {"a", "b"}
  CommonSpecs <- MCCommon
  ClusterSpecs <- MCCluster
  IsMember = FALSE
  MaxEdits = 3
  MaxFailures = 1
  Parts = {"sync", "server", "local"}
  MaxTries = 5
  MaxMishaps = 5
SPECIFICATION MCSpec
CHECK_DEADLOCK FALSE
INVARIANT NsHasQuota
INVARIANT HotplugSettles
PROPERTY NamespacesSettle
PROPERTY DeletionsSettle
PROPERTY HotplugRests
PROPERTY Reconnects
INVARIANT AllWereReady
