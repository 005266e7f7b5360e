CONSTANTS
  None = None
  Types <- MCTypes
  Logins = {l1}
  Passwords = {p1}
  Clients = {c1, c2}
  TokenLife = 1
  CookieLife = 1
  MaxTime = 1
  MaxWrites = 2
  Owners = {n1, n2}
  KeyIds = {k1, k2, k3}
  KeyLimit = 1
  NoRole = NoRole
  Roles = {"r1", "r2"}
  Holders = {"u1"}
  Spaces = {"n1"}
  Items <- MCItems
  PlatformItems <- MCPlatform
  Charted <- MCCharted
  Settings <- MCSettings
  Bindable <- MCBindable
  NoTenant = "none"
  Clusters = {"c1", "c2"}
  Pivot = "c1"
  Born <- MCBorn
  Tenants = {"t1", "t2"}
  Projects = {"p1"}
  Subs <- MCSubs
  MaxScopes = 2
SYMMETRY Symmetry
SPECIFICATION MCSpec
CHECK_DEADLOCK FALSE
INVARIANT AskedIsShown
INVARIANT PermissionsAgree
INVARIANT ViewsAgree
PROPERTY ForbiddenIsRefused
PROPERTY NoLostUpdate
