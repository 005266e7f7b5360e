CONSTANTS
  None = None
  t1 = t1
  p1 = p1
  Scopes <- MCScopes
  LegacyScopes <- MCLegacyScopes
  Namespaces <- MCNamespaces
  TenantOf <- MCTenantOf
  MaxEdits = 2
  MaxFaults = 1
SPECIFICATION FairSpec
CHECK_DEADLOCK FALSE
PROPERTY GrantsSettle
PROPERTY RevocationsSettle
PROPERTY DeletionEnds
