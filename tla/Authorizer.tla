----------------------------- MODULE Authorizer -----------------------------
(***************************************************************************)
(* Roles as people see them and as requests meet them: the auth items of   *)
(* cluster roles (pkg/authorizer/mapping), the resolver of bindings and    *)
(* rules (pkg/authorizer/rbac) and the API on both                         *)
(* (pkg/apiserver/cubeapi/authorization).                                  *)
(*                                                                         *)
(* A resource is <<name, subresource>>.  Bindings and users are read in    *)
(* the cache only, and are modelled there; who writes them is the subject  *)
(* of UserRBAC.                                                            *)
(***************************************************************************)
EXTENDS Naturals, Sequences, Functions

CONSTANTS
  Roles,          \* names of cluster roles
  Holders,        \* names of users
  Spaces,         \* namespaces
  Items,          \* auth items of tenants and projects: sequences of resources
  PlatformItems,  \* auth items of the platform
  Charted,        \* the rules of the roles that are installed by other means
  Settings,       \* the calls of setAuthItems that are made: [name, scope, want]
  Bindable,       \* the bindings that come and go
  NoRole

ASSUME ItemsAssumption ==
  /\ \A i \in DOMAIN Items : Items[i] \in Seq(STRING \X STRING)
  /\ \A i \in DOMAIN PlatformItems : PlatformItems[i] \in Seq(STRING \X STRING)
  /\ \A s \in Settings : s.name \in Roles

VARIABLES
  roles,      \* the ClusterRoles: NoRole or [scope, rules]
  seenRoles,  \* the same in the cache
  binds,      \* the bindings of the cache: [kind, name, role, ns]; ns Unset binds cluster-wide
  holders,    \* the Users of the cache
  asked       \* history: the items last set for a role; {} when it was written on other data

authzVars == <<roles, seenRoles, binds, holders, asked>>

Reads == {"get", "list", "watch"}
LegacyWrites == {"create", "delete", "patch", "update"}
Writes == LegacyWrites \cup {"deletecollection"}
Unset == ""   \* no group, namespace, subresource, name or label
Everything == <<"*", Unset>>
DaemonSetsResource == <<"daemonsets", Unset>>

-----------------------------------------------------------------------------
(* Auth items and rules.                                                   *)

VerbsAssert(verbs) ==
  CASE verbs = Reads \cup Writes -> "all"
    [] verbs # Reads \cup Writes /\ Reads \subseteq verbs -> "read"
    [] ~(Reads \subseteq verbs) /\ LegacyWrites \subseteq verbs -> "write"
    [] OTHER -> "null"

VerbsMerge(v, w) == IF v = w THEN v ELSE IF "null" \in {v, w} THEN "null" ELSE "all"

\* SplitClusterRole: the verb of a resource; Unset when no rule names it.  With
\* three rules for a resource the order would count; two are enough here.
Split(rules, r) ==
  LET found == {VerbsAssert(rule.verbs) : rule \in {x \in rules : r \in x.resources}}
  IN IF found = {} THEN Unset
     ELSE LET v == CHOOSE v \in found : TRUE
              w == CHOOSE w \in found : found = {v, w}
          IN VerbsMerge(v, w)

\* ClusterRoleMapping: the verb an item is shown with.  Read beside write
\* interrupts, unless an "all" stands between them; otherwise the first verb that
\* is not "all" is shown.
Seen(rules, list) ==
  LET verbs == [i \in DOMAIN list |-> Split(rules, list[i])]
      clash == \E i \in DOMAIN verbs :
                 \/ verbs[i] \in {Unset, "null"}
                 \/ i > 1 /\ "all" \notin {verbs[i - 1], verbs[i]} /\ verbs[i - 1] # verbs[i]
      partial == {i \in DOMAIN verbs : verbs[i] # "all"}
  IN IF clash THEN "null"
     ELSE IF partial = {} THEN "all"
     ELSE verbs[CHOOSE i \in partial : \A j \in partial : i <= j]

ItemsOf(scope) == IF scope = "platform" THEN PlatformItems ELSE Items

\* getAuthItems reads the role directly.
GetAuthItems(name) ==
  [i \in DOMAIN ItemsOf(roles[name].scope) |-> Seen(roles[name].rules, ItemsOf(roles[name].scope)[i])]

\* The rule RoleAuthMapping makes of a resource and the verbs asked for it.
RuleOf(r, verbs) ==
  [resources |-> {r}, groups |-> {"*"}, names |-> {},
   verbs |-> CASE verbs = {"read"} -> Reads
               [] verbs = {"write"} -> Writes
               [] OTHER -> Reads \cup Writes]

\* (mutant of RoleAuthMapping: the verb of one item replaces the other's)
RoleAuthMappingLast(want, data) ==
  LET items == {i \in DOMAIN want : i \in DOMAIN data /\ want[i] # "null"}
      granted == UNION {{data[i][j] : j \in DOMAIN data[i]} : i \in items}
  IN {RuleOf(r, {want[CHOOSE i \in items : \E j \in DOMAIN data[i] : data[i][j] = r]}) : r \in granted}

\* RoleAuthMapping: one rule for each resource of the items that are asked for.
RoleAuthMapping(want, data) ==
  LET items == {i \in DOMAIN want : i \in DOMAIN data /\ want[i] # "null"}
      granted == UNION {{data[i][j] : j \in DOMAIN data[i]} : i \in items}
  IN {RuleOf(r, {want[i] : i \in {k \in items : \E j \in DOMAIN data[k] : data[k][j] = r}}) :
        r \in granted}

-----------------------------------------------------------------------------
(* The resolver.                                                           *)

\* A request: [verb, group, resource, sub, name].
VerbMatches(rule, a) == {"*", a.verb} \cap rule.verbs # {}
APIGroupMatches(rule, a) == {"*", a.group} \cap rule.groups # {}
ResourceMatches(rule, a) ==
  \/ {Everything, a.resource} \cap rule.resources # {}
  \/ a.sub # Unset /\ <<"*", a.sub>> \in rule.resources
ResourceNameMatches(rule, a) == rule.names = {} \/ a.name \in rule.names

RuleAllows(a, rule) ==
  /\ VerbMatches(rule, a) /\ APIGroupMatches(rule, a)
  /\ ResourceMatches(rule, a) /\ ResourceNameMatches(rule, a)

\* appliesTo knows users only; ListClusterRoleBindings and ListRoleBindings.
AppliesTo(u, b) == b.kind = "User" /\ b.name = u
BindingsFor(u, ns) == {b \in binds : AppliesTo(u, b) /\ b.ns \in {Unset, ns}}

\* (mutant of Authorize: the first role that is missing ends the visit)
AuthorizeStrict(u, ns, a) ==
  /\ \A b \in BindingsFor(u, ns) : seenRoles[b.role] # NoRole
  /\ \E b \in BindingsFor(u, ns) : \E rule \in seenRoles[b.role].rules : RuleAllows(a, rule)

\* VisitRulesFor: a binding whose role is missing is an error, and is passed over.
Authorize(u, ns, a) ==
  \E b \in BindingsFor(u, ns) :
    /\ seenRoles[b.role] # NoRole
    /\ \E rule \in seenRoles[b.role].rules : RuleAllows(a, rule)

\* RolesFor and UsersFor give no answer at all after an error.
RolesFor(u, ns) ==
  [ok |-> \A b \in BindingsFor(u, ns) : seenRoles[b.role] # NoRole,
   all |-> {b.role : b \in {x \in BindingsFor(u, ns) : seenRoles[x.role] # NoRole}}]

\* Every subject's name is taken for a user, whatever its kind.
UsersFor(role, ns) ==
  LET named == {b.name : b \in {x \in binds : x.role = role /\ x.ns \in {Unset, ns}}}
  IN [ok |-> named \subseteq holders, all |-> named \cap holders]

\* The roles bound cluster-wide, whether they exist or not.
User2UserRole(u) == {b.role : b \in BindingsFor(u, Unset)}
CheckClusterRole(u, given) == User2UserRole(u) \cap given # {}

-----------------------------------------------------------------------------
(* The API.                                                                *)

\* AccessAllow, AllowAccess and IsAllowResourceAccess ask without a subresource of
\* its own and without a name.
AccessAllow(u, group, r, ns, verb) ==
  Authorize(u, ns, [verb |-> verb, group |-> group, resource |-> r, sub |-> Unset, name |-> Unset])

\* isAllowedAccess asks with "get" for read and with "create" for write.
IsAllowedAccess(u, r, ns, verb) == AccessAllow(u, Unset, r, ns, verb)

\* resourcesGate: its answers go by the resource, and the last one stays.
ResourcesGate(u, infos) ==
  [r \in {infos[i].resource : i \in DOMAIN infos} |->
     LET mine == {i \in DOMAIN infos : infos[i].resource = r}
         last == infos[CHOOSE i \in mine : \A j \in mine : j <= i]
     IN IsAllowedAccess(u, r, last.ns, IF last.op = "write" THEN "create" ELSE "get")]

Represent(read, write) ==
  CASE read /\ write -> "all" [] read /\ ~write -> "read" [] ~read /\ write -> "write"
    [] OTHER -> "null"

\* getPermissions knows the items of the platform only.
GetPermissions(u, ns, item) ==
  IF item \notin DOMAIN PlatformItems THEN "null"
  ELSE LET list == PlatformItems[item]
       IN Represent(\A i \in DOMAIN list : IsAllowedAccess(u, list[i], ns, "get"),
                    \A i \in DOMAIN list : IsAllowedAccess(u, list[i], ns, "create"))

\* getRolesByUser knows the users of the cache only.
GetRolesByUser(u, ns) == [RolesFor(u, ns) EXCEPT !.ok = @ /\ u \in holders]

\* getUsersByRole: in a namespace it looks for Roles, and finds no ClusterRole.
GetUsersByRole(role, ns) == IF ns = Unset THEN UsersFor(role, Unset) ELSE [ok |-> TRUE, all |-> {}]

\* getDaemonSetsLevel: access without and with the namespace of the tenant.
DaemonSetsLevel(u, ns) ==
  LET access(in) == Represent(IsAllowedAccess(u, DaemonSetsResource, in, "get"),
                              IsAllowedAccess(u, DaemonSetsResource, in, "create"))
  IN [platform |-> access(Unset), tenant |-> access(ns)]

\* getClusterRolesByLevel.
RolesByLevel(level) == {r \in Roles : seenRoles[r] # NoRole /\ seenRoles[r].scope = level}

\* getRolesByNs, for the namespace of a tenant or project.
RolesByNs(level) == RolesByLevel(level) \cup {"reviewer"}

\* The role is looked up in the cache to find out which items it has; only its
\* rules are replaced when it exists after all.
SetAuthItems(name, scope, want) ==
  LET known == seenRoles[name] # NoRole
      data == IF known THEN ItemsOf(seenRoles[name].scope)
              ELSE IF scope = Unset THEN <<>> ELSE ItemsOf(scope)
      rules == RoleAuthMapping(want, data)
      new == IF roles[name] = NoRole THEN [scope |-> IF known THEN Unset ELSE scope, rules |-> rules]
             ELSE [roles[name] EXCEPT !.rules = rules]
  IN /\ roles' = [roles EXCEPT ![name] = new]
     /\ asked' = [asked EXCEPT ![name] = IF data = ItemsOf(new.scope) THEN want ELSE <<>>]
     /\ UNCHANGED <<seenRoles, binds, holders>>

\* A role is installed, or deleted, by other means.
Install(name, rules) ==
  /\ roles[name] = NoRole
  /\ roles' = [roles EXCEPT ![name] = [scope |-> "platform", rules |-> rules]]
  /\ asked' = [asked EXCEPT ![name] = <<>>]
  /\ UNCHANGED <<seenRoles, binds, holders>>

Uninstall(name) ==
  /\ roles[name] # NoRole
  /\ roles' = [roles EXCEPT ![name] = NoRole]
  /\ asked' = [asked EXCEPT ![name] = <<>>]
  /\ UNCHANGED <<seenRoles, binds, holders>>

DeliverRole(name) ==
  /\ seenRoles[name] # roles[name]
  /\ seenRoles' = [seenRoles EXCEPT ![name] = roles[name]]
  /\ UNCHANGED <<roles, binds, holders, asked>>

DeliverBind(b) ==
  /\ binds' = IF b \in binds THEN binds \ {b} ELSE binds \cup {b}
  /\ UNCHANGED <<roles, seenRoles, holders, asked>>

DeliverHolder(u) ==
  /\ holders' = IF u \in holders THEN holders \ {u} ELSE holders \cup {u}
  /\ UNCHANGED <<roles, seenRoles, binds, asked>>

AuthzInit ==
  /\ roles = [r \in Roles |-> NoRole] /\ seenRoles = roles
  /\ binds = {} /\ holders = Holders
  /\ asked = [r \in Roles |-> <<>>]

AuthzNext ==
  \/ \E s \in Settings : SetAuthItems(s.name, s.scope, s.want)
  \/ \E r \in Roles : \/ \E rules \in Charted : Install(r, rules)
                      \/ Uninstall(r) \/ DeliverRole(r)
  \/ \E b \in Bindable : DeliverBind(b)
  \/ \E u \in Holders : DeliverHolder(u)

AuthzSpec == AuthzInit /\ [][AuthzNext]_authzVars

-----------------------------------------------------------------------------
(* Properties.                                                             *)

Covers(v, w) == w \in {v, "null"} \/ v = "all"

\* The rules of setAuthItems name no group and no object; others may.
OpenRule(rule) == {"*", Unset} \cap rule.groups # {} /\ rule.names = {}

\* What was asked for a role is what it is shown with, or more: the items that
\* share resources are merged by setAuthItems and split again by getAuthItems.
\* Items that were set on other data, after a stale look at the cache, are not
\* asked for.
AskedIsShown ==
  \A r \in Roles : roles[r] # NoRole =>
    \A i \in DOMAIN asked[r] \cap DOMAIN ItemsOf(roles[r].scope) :
      Covers(GetAuthItems(r)[i], asked[r][i])

\* An item of the platform that a role is shown with in full is permitted in full
\* to everyone bound to the role, cluster-wide or in the namespace that is asked
\* about, whatever other bindings dangle (getAuthItems, getPermissions,
\* resourcesGate, getDaemonSetsLevel).  A role that names groups or objects is left
\* out: its items are shown by its resources and verbs alone, and permitted by all.
ShownInFullIsPermitted ==
  \A b \in binds : \A ns \in Spaces :
    /\ b.kind = "User" /\ b.ns \in {Unset, ns} /\ b.role \in RolesByLevel("platform")
    /\ \A rule \in seenRoles[b.role].rules : OpenRule(rule)
    => \A i \in DOMAIN PlatformItems :
         Seen(seenRoles[b.role].rules, PlatformItems[i]) = "all" =>
           /\ GetPermissions(b.name, ns, i) = "all"
           /\ \A op \in {"read", "write"} :
                LET gate == ResourcesGate(b.name, [j \in DOMAIN PlatformItems[i] |->
                                                    [resource |-> PlatformItems[i][j], op |-> op, ns |-> ns]])
                IN \A r \in DOMAIN gate : gate[r]
           /\ DaemonSetsResource \in Range(PlatformItems[i]) =>
                DaemonSetsLevel(b.name, ns).tenant = "all"

\* getRolesByUser and getUsersByRole agree about everyone who is bound as a user,
\* whenever both give an answer, and CheckClusterRole knows no other roles.
RolesAndUsersAgree ==
  \A u \in Holders, ns \in Spaces \cup {Unset} : GetRolesByUser(u, ns).ok => \A r \in Roles :
    /\ CheckClusterRole(u, {r}) <=> r \in GetRolesByUser(u, Unset).all
    /\ UsersFor(r, ns).ok /\ (\A b \in binds : b.kind = "User") =>
         (r \in GetRolesByUser(u, ns).all <=> u \in UsersFor(r, ns).all)

\* What the role API shows of someone's permissions is what the authorizer grants,
\* whether one starts from the roles, the users or the items.
PermissionsAgree == ShownInFullIsPermitted /\ RolesAndUsersAgree

\* Refuted.  "with non empty namespace will match both Role and ClusterRole"
\* (authorization/handler.go:478).
NamespaceMatchesBoth ==
  \A r \in Roles, ns \in Spaces : UsersFor(r, Unset).all \subseteq GetUsersByRole(r, ns).all

\* Refuted.  "resourcesGate tells if given resources can access"
\* (authorization/handler.go:869): reading and writing of one resource cannot be
\* asked about at once, the second answer replaces the first.
GateAnswersEach ==
  \A u \in Holders, r \in Range(PlatformItems["i"]) :
    ResourcesGate(u, <<[resource |-> r, op |-> "read", ns |-> Unset], [resource |-> r, op |-> "write", ns |-> Unset]>>)[r]
      = IsAllowedAccess(u, r, Unset, "get")

\* Refuted.  "interruptVerb will be Null if meet those condition: 1. Write != Read"
\* (mapping.go:143): with an "all" between them, read and write show as the first.
ShownIsPermitted ==
  \A b \in binds :
    /\ b.kind = "User" /\ b.role \in RolesByLevel("platform")
    => \A i \in DOMAIN PlatformItems :
         Covers(GetPermissions(b.name, b.ns, i), Seen(seenRoles[b.role].rules, PlatformItems[i]))
=============================================================================
