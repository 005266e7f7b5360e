------------------------------- MODULE Views -------------------------------
(***************************************************************************)
(* What the API shows a user of tenants, projects, namespaces, clusters    *)
(* and quotas (pkg/apiserver/cubeapi/cluster, .../authorization), and what *)
(* the proxy lets the user read of them (pkg/belongs).  The status of the  *)
(* user is what these views go by; it is refreshed from the user's scopes, *)
(* some time after these or the projects have changed.                     *)
(***************************************************************************)
EXTENDS Naturals, Sequences, FiniteSets, SequencesExt

CONSTANTS
  Clusters,   \* names of clusters
  Pivot,      \* the one that is no member
  Born,       \* when they were created: numbers
  Tenants,
  Projects,
  Subs,       \* the namespaces under projects: [name, cluster, project, tenant, depth]
  NoTenant,   \* no label, and the tenant of a project that is not found
  MaxScopes   \* (bound) scopes of the user

\* No project, no state; also the state of a cluster that was never set.
Blank == ""

ASSUME ClustersAssumption == IsFiniteSet(Clusters) /\ Pivot \in Clusters /\ \A c \in Clusters : Born[c] \in Nat

VARIABLES
  tenants,   \* the Tenants
  projects,  \* the Projects with the label of their tenant: a partial function
  subs,      \* the namespaces of all clusters
  ending,    \* the ones that are being deleted
  scopes,    \* the user's ScopeBindings: <<type, name>>; role admin for "admin"
  status,    \* the user's Status: [admin, tenants, infos]
  clusters,  \* the Clusters: name to state, or Blank
  health     \* the internal clusters: name to "up" or "down"

viewVars == <<tenants, projects, subs, ending, scopes, status, clusters, health>>

Scope == {<<"admin", "platform">>, <<"viewer", "platform">>}
         \cup {<<"tenant", t>> : t \in Tenants} \cup {<<"project", p>> : p \in Projects}

ViewInit ==
  /\ tenants = Tenants /\ projects = [p \in Projects |-> CHOOSE t \in Tenants : TRUE]
  /\ subs = {} /\ ending = {}
  /\ scopes = {} /\ status = [admin |-> FALSE, tenants |-> {}, infos |-> {}]
  /\ clusters = [c \in {Pivot} |-> "normal"]
  /\ health = [c \in {Pivot} |-> "up"]

-----------------------------------------------------------------------------
(* The user.                                                               *)

\* RefreshUserStatus resets the status; a project that is not found leaves the
\* tenant of its entry empty.
Refreshed ==
  [admin |-> <<"admin", "platform">> \in scopes,
   tenants |-> {t \in Tenants : <<"tenant", t>> \in scopes},
   infos |-> {<<p, IF p \in DOMAIN projects THEN projects[p] ELSE NoTenant>> :
                p \in {q \in Projects : <<"project", q>> \in scopes}}]

IsUserPlatformScope == \E s \in scopes : s[2] = "platform"
BelongsToTenant(t) == t \in status.tenants
BelongsToProject(p) == \E i \in status.infos : i[1] = p

\* (mutant of VisibleTenants: the tenants of the projects are left out)
VisibleTenantsDirect ==
  [ok |-> TRUE,
   all |-> IF status.admin \/ IsUserPlatformScope THEN tenants ELSE tenants \cap status.tenants]

\* GetVisibleTenants: an entry without a tenant is completed; when the project is
\* not found there is no answer.
VisibleTenants ==
  LET incomplete == {i[1] : i \in {x \in status.infos : x[2] = NoTenant}}
      wide == status.admin \/ IsUserPlatformScope
  IN [ok |-> wide \/ incomplete \subseteq DOMAIN projects,
      all |-> IF wide THEN tenants
              ELSE tenants \cap (status.tenants \cup {i[2] : i \in status.infos}
                   \cup {projects[p] : p \in incomplete \cap DOMAIN projects})]

\* getUserProjects; a project without the label of a tenant is left out.
VisibleProjects ==
  {p \in DOMAIN projects :
     /\ projects[p] # NoTenant
     /\ \/ status.admin \/ IsUserPlatformScope
        \/ BelongsToProject(p) \/ BelongsToTenant(projects[p])}

\* The namespace of a tenant itself has the tenant in its name instead of in a
\* label.
NamespaceJudgement(s) == status.admin \/ BelongsToTenant(s.tenant) \/ BelongsToProject(s.project)

\* What cannot be looked up passes; so do lists and all other resources.
RelationshipDetermine(s) == s \in subs => NamespaceJudgement(s)

\* nodeJudgment: a node is shared, or of a tenant.
NodeJudgment(label) == status.admin \/ label = "share" \/ BelongsToTenant(label)

-----------------------------------------------------------------------------
(* The clusters.                                                           *)

Reachable(c) == c \in DOMAIN health /\ health[c] = "up"

\* getSubNamespaces looks in every internal cluster, up or down.  An administrator
\* has no case of its own.
SubNamespaces ==
  {s \in subs : /\ s.cluster \in DOMAIN health
                /\ s \notin ending /\ s.depth = 1
                /\ BelongsToTenant(s.tenant) \/ BelongsToProject(s.project)}

\* getClustersByNamespace, for the namespace of a tenant or of a project.
ClustersByTenant(t) == {c \in DOMAIN health : \E s \in subs : s.cluster = c /\ s.tenant = t}
ClustersByProject(p) == {c \in DOMAIN health : \E s \in subs : s.cluster = c /\ s.project = p}

\* filterClustersByProject: clusters that do not answer are left out.
FilterClustersByProject(p) ==
  {c \in DOMAIN clusters : Reachable(c) /\ \E s \in subs : s.cluster = c /\ s.project = p /\ s.depth = 1}

\* makeMetadataInfo, and the check for the heartbeat of makeClusterInfos.
ShownState(c) ==
  IF ~Reachable(c) THEN "abnormal" ELSE IF clusters[c] = Blank THEN "processing" ELSE clusters[c]

\* makeClusterInfos: the pivot cluster first, then the newest; clusters of the same
\* age in the order in which the cache lists them, which is any.
ClusterInfos(found, state) ==
  {list \in SetToSeqs({c \in found : state \in {Blank, ShownState(c)}}) :
     \A i, j \in DOMAIN list : i < j =>
       \/ list[i] = Pivot
       \/ list[j] # Pivot /\ Born[list[i]] >= Born[list[j]]}

\* getClusterInfo.
ClusterList(p) == IF p = Blank THEN DOMAIN clusters ELSE FilterClustersByProject(p)

\* paginateClusterInfos.
Page(list, num, size) ==
  IF (num - 1) * size > Len(list) THEN <<>>
  ELSE SubSeq(list, (num - 1) * size + 1, IF num * size > Len(list) THEN Len(list) ELSE num * size)

\* getCubeResourceQuota refuses a tenant that is not visible, and every answer
\* when a cluster that is asked for is not there.
QuotaRows(want) ==
  [ok |-> VisibleTenants.ok /\ want \subseteq VisibleTenants.all /\ \A c \in DOMAIN health : Reachable(c),
   all |-> (IF want = {} THEN VisibleTenants.all ELSE want) \X DOMAIN health]

-----------------------------------------------------------------------------
(* What happens beside the views.                                          *)

ViewScope(s) ==
  /\ scopes' = IF s \in scopes THEN scopes \ {s} ELSE scopes \cup {s}
  /\ Cardinality(scopes') <= MaxScopes
  /\ UNCHANGED <<tenants, projects, subs, ending, status, clusters, health>>

RefreshStatus ==
  /\ status # Refreshed
  /\ status' = Refreshed
  /\ UNCHANGED <<tenants, projects, subs, ending, scopes, clusters, health>>

\* A project is made, under a tenant or, beside the API, without one, or goes.
PutProject(p, t) ==
  /\ p \notin DOMAIN projects
  /\ projects' = [q \in DOMAIN projects \cup {p} |-> IF q = p THEN t ELSE projects[q]]
  /\ UNCHANGED <<tenants, subs, ending, scopes, status, clusters, health>>

DropProject(p) ==
  /\ p \in DOMAIN projects /\ \A s \in subs : s.project # p
  /\ projects' = [q \in DOMAIN projects \ {p} |-> projects[q]]
  /\ UNCHANGED <<tenants, subs, ending, scopes, status, clusters, health>>

DropTenant(t) ==
  /\ t \in tenants /\ \A p \in DOMAIN projects : projects[p] # t
  /\ tenants' = tenants \ {t}
  /\ UNCHANGED <<projects, subs, ending, scopes, status, clusters, health>>

PutSub(s) ==
  /\ s \notin subs /\ s.cluster \in DOMAIN clusters
  /\ s.project \in DOMAIN projects /\ projects[s.project] = s.tenant
  /\ subs' = subs \cup {s}
  /\ UNCHANGED <<tenants, projects, ending, scopes, status, clusters, health>>

DropSub(s) ==
  /\ s \in subs
  /\ \/ s \notin ending /\ ending' = ending \cup {s} /\ UNCHANGED subs
     \/ s \in ending /\ ending' = ending \ {s} /\ subs' = subs \ {s}
  /\ UNCHANGED <<tenants, projects, scopes, status, clusters, health>>

\* addCluster and registerCluster: one that exists already is a success.
RegisterCluster(c) ==
  /\ clusters' = IF c \in DOMAIN clusters THEN clusters
                 ELSE [d \in DOMAIN clusters \cup {c} |-> IF d = c THEN Blank ELSE clusters[d]]
  /\ UNCHANGED <<tenants, projects, subs, ending, scopes, status, health>>

Turn(c, state) ==
  /\ c \in DOMAIN clusters
  /\ health' = [d \in DOMAIN health \cup {c} |-> IF d = c THEN state ELSE health[d]]
  /\ clusters' = [clusters EXCEPT ![c] = IF state = "up" THEN "normal" ELSE clusters[c]]
  /\ UNCHANGED <<tenants, projects, subs, ending, scopes, status>>

\* A Cluster is deleted; the internal cluster stays until the manager has noticed.
DropCluster(c) ==
  /\ c \in DOMAIN clusters \ {Pivot}
  /\ clusters' = [d \in DOMAIN clusters \ {c} |-> clusters[d]]
  /\ UNCHANGED <<tenants, projects, subs, ending, scopes, status, health>>

Forget(c) ==
  /\ c \in DOMAIN health \ DOMAIN clusters
  /\ health' = [d \in DOMAIN health \ {c} |-> health[d]]
  /\ UNCHANGED <<tenants, projects, subs, ending, scopes, status, clusters>>

ViewNext ==
  \/ \E s \in Scope : ViewScope(s)
  \/ RefreshStatus
  \/ \E p \in Projects : DropProject(p) \/ \E t \in Tenants \cup {NoTenant} : PutProject(p, t)
  \/ \E t \in Tenants : DropTenant(t)
  \/ \E s \in Subs : PutSub(s) \/ DropSub(s)
  \/ \E c \in Clusters : \/ RegisterCluster(c) \/ DropCluster(c) \/ Forget(c)
                         \/ \E h \in {"up", "down"} : Turn(c, h)

ViewSpec == ViewInit /\ [][ViewNext]_viewVars

-----------------------------------------------------------------------------
(* Properties.                                                             *)

\* A visible project has a visible tenant to be found under, with its quotas, as
\* long as the status is the one of the user's scopes and the user's projects exist
\* (getProjectByUser, getTenantByUser, getCubeResourceQuota).
ProjectsAreUnderTenants ==
  status = Refreshed /\ VisibleTenants.ok =>
    \A p \in VisibleProjects : projects[p] \in tenants =>
      /\ projects[p] \in VisibleTenants.all
      /\ QuotaRows({}).ok => \A c \in DOMAIN health : <<projects[p], c>> \in QuotaRows({}).all

OnPageOnly(list, size, c, num) ==
  \A n \in 1..Cardinality(Clusters) : Contains(Page(list, n, size), c) <=> n = num

\* A namespace that getSubNamespaces lists may be read through the proxy, and its
\* cluster is among the clusters of its tenant and of its project.  If it answers, and
\* its Cluster is not gone, it is on exactly one page of the clusters of the project
\* (getClusterInfo), and of the clusters in the state it is shown with.  The labels of the namespace and the status
\* of the user may be older than the projects.
ListedIsReachable ==
  \A s \in SubNamespaces :
    /\ RelationshipDetermine(s)
    /\ s.cluster \in ClustersByTenant(s.tenant) \cap ClustersByProject(s.project)
    /\ Reachable(s.cluster) /\ s.cluster \in DOMAIN clusters =>
         \A p \in {Blank, s.project}, state \in {Blank, ShownState(s.cluster)}, size \in 1..Cardinality(Clusters) :
           \A list \in ClusterInfos(ClusterList(p), state) :
             \E num \in 1..Cardinality(Clusters) : OnPageOnly(list, size, s.cluster, num)

\* What one view shows the others lead to.
ViewsAgree == ProjectsAreUnderTenants /\ ListedIsReachable

\* Refuted.  "only care about ns under project that the userName can see"
\* (cluster/handler.go:467): someone of the platform sees every project and none
\* of their namespaces.
SeesNamespacesOfProjects ==
  \A s \in subs : s.depth = 1 /\ s \notin ending /\ s.project \in VisibleProjects => s \in SubNamespaces

\* Refuted.  Everyone gets a list of tenants: not who is bound to a project that
\* is gone (GetVisibleTenants).
TenantsAreListed == VisibleTenants.ok
=============================================================================
