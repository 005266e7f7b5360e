# A TLA+ verification of KubeCube

KubeCube manages many Kubernetes clusters from one. This directory holds TLA+
models of the parts of it where several controllers, processes and clusters
write the same state, the TLC configurations that check them on small instances,
and proofs, checked by TLAPS, of what holds for instances of any size.

`PROJECT.json` is the index: which definition models which lines, every run with
its properties, the mutants that show each property can fail, the findings, the
hazards and the theorems. Line numbers refer to the sources under `src/`.

## 1. The system

### Parts and their state

The **pivot** cluster runs `cube` (one or more replicas, one of them the leader).
Every cluster, the pivot included, runs a **warden**. All of them communicate
through Kubernetes API servers: objects with versions, informers that lag behind
the objects, work queues that serve a key at a time.

| part | state it keeps | operations |
|---|---|---|
| sync manager (`pkg/warden/syncmgr`) | informer of the pivot cluster, one controller per kind, an object shared by the requests of a kind | copy, update, delete a copy; collect residuals once at start |
| multi-cluster manager (`pkg/multicluster/manager.go`) | map from names to internal clusters, each with client, cache goroutines, stop channel and scout | `Add`, `Get`, `Del`, `ScoutFor` |
| multi-cluster sync manager (`sync.go`, `pkg/utils/worker`) | informer of Cluster objects, a work queue with a retry limit | register and remove clusters on the replicas that do not lead |
| scout (`scout/scout.go`, `cubeapi/scout`) | health of a cluster, channel of heartbeats | receive heartbeats, declare a cluster lost, write the status |
| cluster controller (`pkg/ctrlmgr/controllers/cluster`) | Cluster objects, `retryQueue` of background goroutines | take a member cluster over, retry, clean up |
| namespace quotas (`pkg/warden/localmgr`, `pkg/quota/k8s`) | ResourceQuotas of a member cluster, the status of their parent | admit by webhook, count into the parent |
| cube quotas (`pkg/ctrlmgr/controllers/quota`, `pkg/quota/cube`) | CubeResourceQuotas of the pivot cluster | admit, initialise and correct the status |
| warden (`pkg/warden`, its reporter and servers) | which components are ready, whether the pivot cluster answers | start, wait for the components, register once, send heartbeats |
| tenants, projects (`pkg/warden/localmgr/controllers`, the webhooks of both clusters) | their namespaces and quotas | create and delete namespaces, admit and deny |
| users and RBAC (`controllers/user`, `ctrlmgr/controllers/binding`) | bindings of a user, scopes in the User object | derive each from the other |
| hotplug (`controllers/hotplug`) | helm releases, status of the components | install, upgrade, uninstall |
| users and sessions (`cubeapi/user`, `pkg/authentication`) | User objects, tokens | log in, create, edit, import, forbid |
| access keys (`cubeapi/key`) | Key objects | create up to a limit, delete, log in by key |
| authorization (`cubeapi/authorization`, `pkg/authorizer`) | cluster roles, bindings | show and set auth items, resolve bindings and rules, gates |
| views (`cubeapi/cluster`, `pkg/belongs`) | none: the status of the user, namespaces, projects, clusters | what a user sees and may read |
| middlewares and audit (`pkg/apiserver`) | contexts of the pool, goroutines that send events | check, authenticate, audit, recover |
| proxy (`resourcemanage/handle`, `pkg/conversion`, `pkg/utils/filter`) | the cached discovery of each cluster | convert, forward, select, sort, page |
| external access (`resources/service`, the service controller) | two ConfigMaps of the ingress controller | open ports, follow services |
| extend API (`resources/*`) | ConfigMaps; caches of workloads | write ConfigMaps, list workloads with what they own |

`PROJECT.json` lists all of them under `components`, with the reason for each that
is not modelled.

### How they interact

* The sync manager reads the pivot cluster through a cache and writes the member
  cluster, where webhooks may deny a deletion and other controllers hold
  finalizers on the copies. The collector runs beside it on the same objects, and
  starts before the informers do.
* The status of a Cluster object has three writers: the scout of every replica,
  the cluster controller of the leader, and its retry goroutines. Each replaces
  the whole status by the one it read.
* The multi-cluster manager is filled by two goroutines of a following replica and
  by the reconciler of a leading one.
* The status of a CubeResourceQuota is the only thing a namespace quota is
  admitted against. It is written by the wardens of the member clusters and by the
  controller of the pivot cluster, again whole.
* The scopes in a User object are turned into bindings by the user controller of
  every warden, and bindings that others make are turned into scopes by the
  controllers of the pivot cluster. Namespaces arrive with labels at any time in
  between.
* The API server reads users, roles, keys and projects in caches and writes objects
  directly: a write on an old version is refused, a decision on an old read is not.
* A request may answer while goroutines still use its context, and gin hands the
  context to the next request.
* Requests and the warden write the same two ConfigMaps of external ports, one after
  the other.

### What is hard

Caches that lag, decisions on what they show, names that are deleted and created
again, check-then-act over two API servers, whole-status writes by several
writers, goroutines that outlive their cause, restarts that lose queues and
deletion events, answers that are lost. `hazards` in `PROJECT.json` lists them at
the line where they bite, with the properties that would catch them.

### What makes each part correct

* sync manager: copies never go back to an older version; the copy of a live
  object is not deleted; in the end the member cluster mirrors the pivot cluster;
  residuals go.
* multi-cluster manager and scout: a registered cluster is watched, by one scout, and
  every other one that still runs was told to stop;
  a lost cluster is refused, one that is back is accepted; goroutines end with
  their cluster.
* cluster controller: a cluster that can be reached is taken over completely; a
  deleted one is cleaned up and released; no background task outlives its object.
* quotas: what is counted is what exists; the limit holds; a parent goes after its
  children; a deleted child goes.
* users and RBAC: in the end a user has the bindings of its scopes and no others; a
  deleted user leaves none.
* tenants, projects: in the end each has its namespace, a deleted one leaves none;
  a namespace made for a project has its quota.
* warden: it registers after its components are ready, and connects again after
  outages; the releases of hotplugs come to be what is configured.
* API server: no edit is lost, a login of a forbidden user gets no token, what a role
  shows is what it permits, what a list shows can be opened.
* resource API: what comes back is what was asked for, pages make up the selection,
  a write changes entries of its own service only, and every write is reported.

## 2. The modules

| module | models | lines of the code |
|---|---|---|
| `ReplicaSpec` | what the sync manager promises about copies | abstract |
| `SyncManager` | the sync manager of one kind | `syncmgr/register.go`, `gc.go`, `manager.go` |
| `MultiCluster` | one following replica and one cluster | `multicluster/manager.go`, `sync.go`, `scout/scout.go`, `utils/worker/work.go`, `utils/update.go`, `cubeapi/scout/scout.go` |
| `ClusterController` | the leading replica and one cluster | `ctrlmgr/controllers/cluster/*.go` |
| `NamespaceQuota` | one parent and its children in one cluster | `quota/k8s`, `quota/cube`, both quota controllers and webhooks |
| `UserRBAC` | one user in one member cluster and in the pivot cluster | `controllers/user`, `ctrlmgr/controllers/binding`, `utils/transition`, the grants of `cubeapi/authorization` |
| `Tenancy` | one tenant, project and namespace | tenant and project controllers, their webhooks, `createNsAndQuota` |
| `Hotplug` | the hotplug controller of one warden | `controllers/hotplug`, its webhook |
| `WardenStart` | one warden from its start to its heartbeats | `warden.go`, `reporter`, the managers and the server it starts |
| `Session` | accounts, logins, tokens | `cubeapi/user`, `middlewares/auth`, `authentication` |
| `AccessKeys` | the keys of users | `cubeapi/key` |
| `Authorizer` | roles, rules, bindings | `authorizer`, `cubeapi/authorization` |
| `Views` | what one user sees | `cubeapi/cluster`, `cubeapi/authorization`, `belongs` |
| `RequestChain` | requests through the API server | `apiserver.go`, `middlewares`, `yamldeploy` |
| `Proxy` | one client, one kind, one cluster | `resourcemanage/handle/proxy.go`, `conversion`, `utils/filter`, `multicluster/client` |
| `ExternalAccess` | services and their external ports | `resources/service`, the service controller |
| `Workloads` | ConfigMaps, pods, deployments, jobs | `resources/configmap`, `pod`, `deployment`, `job`, `cronjob` |
| `SyncManagerProofs`, `MultiClusterProofs`, `ClusterControllerProofs`, `NamespaceQuotaProofs`, `UserRBACProofs` | theorems about the module of the same name | |
| `WardenProofs` | theorems about `WardenStart`, `Hotplug` and `Tenancy` | |
| `ApiServerProofs` | theorems about `Authorizer`, `Views`, `RequestChain` and `Session` | |
| `ResourceProofs` | theorems about `ExternalAccess`, `Proxy` and `Workloads` | |
| `MC...` | instances for TLC | |

Common conventions. `None` stands for no object. `cache`, `seen` and `pend` are an
informer: `Deliver` brings it up to date and queues the key when an event passed
the predicates. `worker` (or `thread`) is a reconciliation in progress, with a
`pc` that names the next API call: every API call is an action of its own, and
what the code does between two calls belongs to one of them. `Done` and
`Requeue` (`Retry`, `Return`) are the two ways a reconciliation ends. A definition
whose comment begins with "(mutant of X" is a faulty variant of X; no
specification uses it.

### SyncManager

`pivot`, `cache`, `pend`, `queue` are the pivot cluster and the informer of the
warden; `local` is the member cluster. The content of an object is the resource
version the pivot cluster gave it (`src` of a copy), apart from the annotation
that labels it (`ann`), since the code compares the label and not the content.
`Pop` is the cached read (register.go:117); it leaves in `held` what the object
shared between requests holds, which decides whether the next NotFound panics
(`Panic`, `trimObjMeta` writing to a nil map). `GetLocal` is the read and the
comparison (lines 126-178), `DelGet`, `ForceDelete`, `DeleteLocal` are
`deleteObjFunc`, `CreateLocal` and `UpdateLocal` the writes. `GcList`, `GcCheck`,
`GcDelete` are the collector. A start (`Restart`) finds an empty informer and sets
the collector going, as `Initialize` does; `InitialList` is the first list of the
informers, which `Run` starts, and comes at any moment of the collection. What is
deleted before it raises no event. `Guarded` selects tenants and projects, the kinds
with a webhook and the force-delete annotation; `Finalized` the kinds on which
local controllers put finalizers.

`Replica == INSTANCE ReplicaSpec WITH latest <- rv, copy <- Copies` maps a copy to
its version; `mark`, a history variable, is the highest version ever copied. A
second one, `missed`, names the copies whose object was already gone when the
informer listed, and whether the collector was still to come to them or past them.

### MultiCluster

The Cluster object is its state and its last heartbeat, whose age (`fresh`,
`stale`) stands for time: `Expire` is the passing of `WaitTimeoutSeconds`. `thread`
has the two goroutines that run `ReconcileCluster`: `Start` itself and the worker.
`Build` starts goroutines, `Add` registers; between them the other thread may run.
`scout`, `health`, `job`, `posts` belong to an internal cluster: the collector
goroutine, `clusterState`, the status write it is about to make, and the
goroutines of the heartbeat API blocked on the unbuffered `Receiver`. `PeerRead`,
`PeerWrite`, `PeerHeartbeat` are the leading replica. `ScoutPanics` is the
dereference of a missing state or heartbeat, after which the process restarts.
`Del` only closes `StopCh`: `closed` has the internal clusters whose collector has not
noticed yet, which may still take a heartbeat or a tick; `Cancel` is the goroutine of
`SetupCtxWithStop` with the `select` that serves the cancelled context.
`clusterState` is read without a lock by `Get`; a read can only see the old or the
new value, which is what an interleaving gives. `OnClusterUpdate` compares two
pointers that are never equal and queues nothing, so it has no action.

### ClusterController

`retry` is the entry of `retryQueue` with the goroutine that owns it: waiting, about
to send its event (`send`), or between the event and the deferred `Delete`
(`exit`). `Resources` is the order in which `deployResources` creates things;
`IsDatingCluster` looks at the deployment alone, as the code does. `reg` is what
the multi-cluster manager knows, `Followed` a replica that had registered the
cluster before it became the leader. In `DeleteExternal` the comparison of the
state with a fresh pointer (helper.go:132) is never true and is left out. The
namespace that `DeleteNamespace` deletes is Terminating (`nsEnding`): what is in it
goes piece by piece (`NamespaceEmpties`), the namespace last (`NamespaceGoes`), at any
time or never; meanwhile nothing can be created in it (`Refused`), a deployment that is
still there makes the cluster a dating one, and deleting it again succeeds.

### NamespaceQuota

A write of a child is two steps, `Review` (the webhook) and `Persist`. The warden's
worker goes through finalizer, `ReadParent`, `Refresh`, `WriteStatus` and the
removal of the finalizer; each of its own updates passes the webhook too
(`Admits`). The actions with the prefix `P` are the pivot's controller. `SetStatus`
replaces the status whatever it is by then, as both `RetryOnConflict` loops do: they
read the object again and assign the status computed before.

### UserRBAC

`user` is the User object, `seen` and `view` what the warden and the pivot's
controllers have of it, `binds` and `nss` the bindings and namespaces of the
cluster with `seenB` and `seenNs` in the warden's informers. A reconciliation is
`Reconcile`, `UpdateUserStatus`, one `RefreshBindings` per scope, `GenerateBindings`
and `CleanOrphan`; a deleted user goes through `BindingsGc` and `RemoveFinalizer`.
`DeliverNamespace` is the handler of namespace events: `RelatedUser` decides whether
the user is queued. `LegacyBinding`, `SyncUserOnCreate` and `LabelBinding` are a
binding made outside of KubeCube and the pivot's controller. `slip` records that the
deletion of an orphan failed, which the code overlooks: user_controller.go:172 and
:192 return the error only if it *is* NotFound.

### Tenancy, Hotplug and WardenStart

In `Tenancy`, `worker[k]` is the reconciliation of the tenant or the project;
`reborn` records a namespace that was found ending where one was needed and `stray`
one that a clean-up or a rollback did not get. `CreateNs`, `AwaitSpread`,
`CreateQuota`, `Rollback` are createNsAndQuota. In `Hotplug`, `Start`, `Component`,
`Feature`, `UpdateStatus` are a reconciliation; an environment is a function from
settings to values, merged as the code merges JSON (`MergeEnv`). `Noticed` is the
event predicate on the status write. In `WardenStart`, `ReadyzCheck` is a goroutine
of waitForReady, `counts` the answers it still expects; `RegisterIfNeed` has the
outcomes success, AlreadyExists, failure and a lost answer.

### Session, AccessKeys, Authorizer and Views

`req[c]` is a request that has read a User in the cache and has yet to write it;
`Current` is the API server's comparison of versions. A token carries a name and an
expiry, a cookie its own. In `AccessKeys` keys are counted in `seenKeys` and made in
`keys`. `Authorizer` keeps auth items and rules apart:
`RoleAuthMapping` turns items into rules, `Split` and `Seen` turn rules into items,
`RuleAllows` with `BindingsFor` is the authorizer. `Views` has the objects the views
are computed from and operators for each view; its actions change the objects and
refresh the user's status some time later. The list of clusters is sorted by age
only, so `ClusterInfos` is the set of lists it may be: clusters of one age come in any
order. A Cluster goes before the multi-cluster manager forgets its internal cluster
(`DropCluster`, `Forget`), and views differ in which of the two they look at.

### RequestChain, Proxy, ExternalAccess and Workloads

`ctx` is what gin's contexts hold, `phase` who runs on them, `senders` the goroutines
of the audit. In `Proxy` a path is a sequence of segments, `Greet` the choice of the
version on what the discovery shows, `Forward` the answer of the cluster and its
conversion back, `Filter` the chain of selection, sorting and paging. `Gvr2Gvk` reads
a path as one of the versions that are registered (`ReadAs`): the group of the core API
is the empty one, which the mapper of Kubernetes takes for any group, and the order of
the groups comes from a map, so it is chosen once and for all when the converter is
made. A cluster may serve versions that are not registered (a resource of its own with
the same kind); nothing converts to or from these (`Convertible`): such a body is not
sent (`Unsendable`), and such an answer of the proxy comes back as it is (`Back`).
`conv` is the converter the proxy keeps: when the cluster is added again it stays with
the former client and its discovery. A discovery that cannot be read shows nothing and
is not kept. In
`ExternalAccess`, `jobs[w]` is a writer between its reads and its two writes, with
the warden (its cache) as one of the writers. In `Workloads`, `edit[w]` is an update
or a deletion of a ConfigMap, `ask` a list of pods between its two reads; a pod in a
phase that deployment.go:138 does not name counts as unknown, and a job with
conditions that has not ended is shown by its pods (`told`).

## 3. The runs

Passing runs:

| run | shows |
|---|---|
| `sync_safety` | `ReplicaSafety` (the refinement of `ReplicaSpec`) and `ReconcilerSparesLiveCopies` with two tenants, failing calls, a crash, panics and users who clear the sync annotation |
| `sync_live` | `EventuallyMirrored`: convergence after re-creations and a crash; the copies of objects deleted when the collector was past them and the informer had not listed are excepted |
| `sync_guarded` | the same for a tenant or project, whose copy must be annotated before it may go, with two failing calls; `SettledIsMirrored`: what has been handled is mirrored, step by step |
| `cluster_safety` | `RegisteredIsWatched`, `OnlyRegisteredCollects`, with both threads, re-creation and panics |
| `cluster_health` | `HealthRecovers`, `LossDetected`, with a failing call and a leader that writes stale statuses |
| `takeover` | `RetryHasObject`, `RetryEnds`, `DeletionCompletes` (but for a namespace that is gone while the cluster is registered) over two incarnations with faults, a lost answer, a namespace that is Terminating and a deadline |
| `quota` | `NoPhantomChild`, `UsedSettles` (used becomes what the children ask for), as long as the parent is not edited; `ChildDeletionCompletes`, with a parent that is edited or deleted as well |
| `user_bindings` | `GrantsSettle`, `RevocationsSettle`, `DeletionEnds`: scopes and bindings agree once the user is left alone, with late caches, a failing call and a binding made by others |
| `api_server` | `ForbiddenIsRefused` (of logins; a token may be renewed, and got by a key, without a look at the state), `NoLostUpdate` of sessions; `AskedIsShown`, `PermissionsAgree` of roles; `ViewsAgree` |
| `resources` | `HandledIsReported` of the request chain; `OthersAreKept`, `EntriesLeadSomewhere` of external ports; `AnswersAsAsked`, `NotFoundIsStale`, `PagesAreTheSelection` of the proxy, with a kind that moves between groups, a foreign resource of the same kind, discoveries that are old or cannot be read, and a cluster that is added again; `ExtendIsExact` of the extend API |
| `warden` | `NamespacesSettle`, `DeletionsSettle`, `NsHasQuota` of tenants and projects; `HotplugSettles`, `HotplugRests`; `AllWereReady`, `Reconnects` of the start (the latter once the pivot cluster knows the Cluster that the warden has registered) |

`api_server`, `resources` and `warden` take several components that share no state and
explore each from its initial state, one at a time (`part`): their product would add
states and no behaviour. `SyncManager`, `MultiCluster` and `ClusterController` have a
`TypeOK` each. Deadlock is not checked: a system of controllers may
come to rest, and the bounds on the environment end every behaviour.

A run that TLC refutes: `sync_stuck_version`. It states what the comment at
register.go:167 says, that a copy is updated when the version in the pivot cluster is
bigger than its own. `trimObjMeta` runs twice when a copy is replaced, so the new copy
has an empty version label and is never updated again. The counterexample is a behaviour
of the code.

### Further statements

The modules state more of what the repository says of itself in comments and messages.
TLC refutes these as well, each as the only property of a configuration with the
constants given here (those not mentioned are FALSE or 0; `FairSpec` where the statement
is temporal):

| statement | constants | what happens |
|---|---|---|
| `NormalMeansHealthy` (cluster_types.go:41) | `MaxRetries` 1, `MaxPosts` 1, `MaxFlips` 1, `MaxFaults` 1 | a failed write of the abnormal state is never repeated: scout.go:194 changes the state in memory all the same |
| `DeletionSkipsMissing` (helper.go:163, "not found, delete skip") | `Followed`, `MaxCreate` 1 | a Cluster created again while its predecessor's namespace is Terminating is taken for a dating one; when it is deleted, the namespace is not found, which is returned as an error for ever |
| `RetriedUntilTakenOver` (cluster_controller.go:176) | `MaxCreate` 1, `MaxFlips` 3 | the entry of a goroutine that is about to end keeps the next one from starting (cluster_controller.go:190) |
| `UsedIsObserved` (cuberesourcequota_types.go:61) | two children, `Hards` {1}, `ParentHards` {1, 2}, `MaxOps` 1, `MaxEdits` 1 | the pivot's controller writes back a status from its cache (cuberesourcequota_controller.go:171) |
| `ResidualsRemoved` (gc.go:40) | one key, `MaxRV` 2, `MaxCrash` 1 | the collector starts before the informers list (manager.go:85, :117): what is deleted between its check and their list leaves its copy until the next start |
| `ResidualsRemoved`, for tenants and projects | one key, `Guarded`, `Finalized`, `MaxRV` 2, `MaxTime` 1, `MaxCrash` 1 | the collector does not set the force-delete annotation, and the webhook denies the deletion |
| `GcDeletesOnlyResiduals` (gc.go:40) | one key, `MaxRV` 3, `MaxTime` 1, `MaxCrash` 1 | a name created again between the collector's check and its deletion loses its fresh copy |
| `RetriedUntilRegistered` (sync.go:121) | `MaxRetries` 2, `MaxPosts` 1, `MaxFlips` 1 | the work queue drops a cluster after its retries |
| `GoroutinesExit` (manager.go:120) | `MaxRetries` 1, `MaxPosts` 1, `MaxLeaked` 1 | the internal cluster that loses the race to be added keeps its goroutines |
| `InternalClusterReleased` (helper.go:171) | `Followed`, `MaxFlips` 1 | a cluster in the retry queue is not unregistered |
| `DeadlineRecorded` (cluster_types.go:30) | `MaxCreate` 1, `MaxExpired` 1 | the state is written with an expired context |
| `TakenOverIsDeployed` (resources.go:147) | `MaxCreate` 1, `MaxFaults` 1 | a second attempt takes a partial deployment for a complete one |
| `HardIsEnforced` (cuberesourcequota_types.go:57) | two children, `Hards` and `ParentHards` {1}, `MaxOps` 2 | two admissions against one status |
| `ParentOutlivesChildren` (cube_resource_quota_v.go:86) | the same, `MaxOps` 1, `MaxDrops` 1 | the parent is deleted before the child is listed |

`UsedIsObserved` is the formula `UsedSettles` without the premise that the parent was not
edited: the pair shows exactly which event breaks the property.

The same for the modules of the last four passing runs, with the constants of the run
unless others are given:

| statement | run | what happens |
|---|---|---|
| `NoOrphanIsLeft` (user_controller.go:170) | `user_bindings` | a deletion that fails is taken for a success, and the orphan stays |
| `GrantsSettle` with a scope of a tenant and one of a project in it that have one role, as `reviewer` (authorization/helper.go:151, :158; user_controller.go:297) | `user_bindings` | the two bindings of a namespace have one name: when one scope is revoked, the clean-up takes the binding of the other with it, and no event asks for it again |
| `EditsOneScope` (authorization/handler.go) | `user_bindings` | a grant made from a cached User takes back one made shortly before |
| `KeyLimitAlwaysKept` (key/handle.go:63, "max key num <= 5") | `KeySpec`, one owner, six keys, `KeyLimit` 5 | keys are counted in a cache and created afterwards: two requests on one list |
| `StoredIsHashed` (user.go:462, "import and create users") | `api_server` | imported users are stored with a plain password and cannot log in |
| `ShownIsPermitted` (mapping.go:143) | `api_server` | with an "all" between them, read and write show as the first |
| `NamespaceMatchesBoth` (authorization/handler.go:478) | `api_server` | with a namespace, users bound cluster-wide are left out |
| `GateAnswersEach` (authorization/handler.go:869) | `api_server` | the answer for writing replaces the one for reading |
| `SeesNamespacesOfProjects` (cluster/handler.go:467) | `api_server` | someone of the platform sees every project and no namespace of them |
| `TenantsAreListed` (authorization/helper.go:285) | `api_server` | a project that is gone leaves its users without a list of tenants |
| `PortsAreDistinct` (externalaccess.go:213) | `resources` | two requests take one external port, one in each map |
| `UdpIsKept` (service_controller.go:127) | `resources` | `handleUdpInfo` is called with the entries for TCP: the ones for UDP are dropped |
| `AvailableIsFound` (conversion.go:188, "found match group/version/kind in target cluster") | `resources` | a path of the core API may be read as one of another group, found there and passed on unconverted, though the cluster does not serve the version of the path; the choice depends on the order of a map |
| `DiscoveryIsRefreshed` (client.go:144, "add a timed task") | `resources`, with `ProxySpec` and weak fairness of `RefreshCacheDiscovery` and `Forward` | the timer fires once and is never set again: what is read of the discovery after that is kept |
| `EmptyHasTotal` (filter.go:138) | `resources` | an empty list has no total |
| `PatchIsTaken` (proxy.go:97) | `resources` | the body of a patch is not converted |
| `EventIsOwn` (audit.go:93) | `resources` | the event is read from a context that serves another request by then |
| `SilentWhenDisabled` (yamldeploy.go:128), `DryRunIsSilent` (yamldeploy.go:91) | `resources` | a deployment is reported though audit is off, or nothing was created |
| `AuditIsHarmless` (audit.go:289) | `resources` | a goroutine that panics ends the server |
| `DeletedIsNamed` (configmap.go:173) | `resources` | the event of a deletion names the uid that was read, not the one deleted |
| `CountsAreOwn` (deployment.go:166) | `resources` | without a namespace, pods of a deployment elsewhere with the same labels are counted |
| `ActiveIsRunning` (job.go:126) | `resources` | a job with an active pod and none that ended is shown as pending |
| `NsAlwaysHasQuota` (cluster/handler.go:709, "final action failed would rollback whole action") | `Spec` of `Tenancy`, `MaxOps` 1, `MaxFaults` 2 | the deletion that rolls back uses the context of the request and only logs its error: the namespace stays without a quota |
| `ProjectHasTenant` (ctrlmgr/webhooks/tenant/help.go:43) | `warden` | both webhooks decide on caches |
| `ProjectQueueDrains` (project_controller.go:152) | `warden` | the namespace of a deleted project is already gone, which is returned as an error: it is tried again for ever |
| `SuccessIsDeployed` (hotplug_controller.go:184) | `warden` | a failed release with the right values is recorded as a success |
| `DeletionIsFollowed` (util.go:92) | `warden` | what the cluster configuration asked for stays when it is deleted |
| `AllServe` (reporter.go:100) | `warden` | the server's mark is set before it listens |
| `StaysRegistered` (reporter.go:106) | `warden` | a Cluster that is deleted is not registered again |

`DeletionCompletes` also holds with `Retain` and `RegisterMode`.

### Bounds

Every bound is a constant whose name begins with `Max`.

* `MaxRV` 3 or 4, `MaxTime` 1 or 2: create, update, delete and create again within
  one second or across two, which is what the comparison of creation times tells
  apart. Two names are needed for the shared object and for the collector's list;
  liveness is checked with one, since names only share the worker, and its
  fairness is per name.
* `MaxCrash` 1: the state a crash loses is lost completely, so a second crash
  starts from a state of the same form. `MaxFails` 2: a failing call, and one of
  the retry or of the collector.
* `MaxPosts`, `MaxRetries`, `MaxLeaked` 1 or 2: one more than none; the code has 15
  retries, and the counterexample of `RetriedUntilRegistered` grows with them.
* `MaxAlive` 4: one registered cluster, one under construction in each thread, one
  whose last status write is under way. `Build` waits for a free one otherwise.
* `MaxFlips` 1 to 3, `MaxFaults` 1, `MaxLost` 1, `MaxExpired` 1, `MaxCreate` up to
  2: one event of each kind at any point, and two incarnations.
* Two children, demands of 1 and 2 against a limit of 2: both fit, one fits, or
  neither does. `MaxOps` 2. The parent starts with a limit of 2, and is edited or
  deleted, not both in one behaviour (`MaxEdits` 1, `MaxDrops` 1).
* `UserRBAC`: a scope of a tenant and one of a project in it, one namespace;
  `MaxEdits` 2, `MaxFaults` 1: a grant and its revocation, or a deletion, with one
  failure at any point.
* `Session`: two clients, a login and a provider, `MaxWrites` 2, `MaxTime` 1: a
  write between another's read and write, and a token that expires. `KeyLimit` 1
  with three keys.
* `Authorizer`: three resources in items that overlap, two roles, three bindings.
  `Views`: two clusters of the same age, two tenants, one project with a namespace
  under it in the member cluster and one further down in the pivot cluster,
  `MaxScopes` 2; the pivot cluster can be reached, the other one comes and goes; page
  sizes 1 and 2.
* `ExternalAccess`: two requests and the warden, `MaxChanges` 2, `MaxAsks` 2, three of
  both together; what is asked for is nothing, or one port of each protocol, with the
  external ports one way or the other, so that requests collide within a map and across the two.
  `Proxy`: a kind that is served by the core group and another, by the other alone, as
  a foreign resource, or not at all; both orders of the groups; three objects, of which
  one comes and goes, `MaxPage` 2. `RequestChain`: two contexts, `MaxArrivals` 2, so that a context is
  used again while its event is unsent; `MaxFlips` 1. `Workloads`: two requests,
  `MaxUids` 2, `MaxEdits` 4 (create, update, delete, create), `Retries` 2.
* `Tenancy`: `MaxOps` 4, `MaxFaults` 1. `Hotplug`: two components, `MaxEdits` 3,
  `MaxFailures` 1. `WardenStart`: three components, `MaxTries` 5 as in the code,
  `MaxMishaps` 5.

Symmetry is used in `sync_safety`, `api_server` and `resources`, which check safety
only; no definition orders or chooses among the names it permutes.

### Fairness

Weak fairness of the informers, the workers' steps, the collector and the retry
goroutine: goroutines that are never blocked for ever run on. Strong fairness of
`Pop` and `Reconcile` per key: the work queues are FIFO, so a queued key is served
though other keys come back again and again. In MultiCluster, strong fairness of
the two cases of a scout's `select`, which Go chooses at random among those that
are ready, and weak fairness of `Cancel`, a goroutine that is not blocked. In UserRBAC and in the `warden` run, weak fairness of the reconcilers,
the informers, the requests under way, a process that starts, and its ticker. That the
pivot cluster registers a Cluster is not assumed, since it may be dropped after its
retries: it is a premise of `Reconnects`. `Expire` is fair because time passes, `ScoutApi` because a warden that
is up reports. Nothing is assumed of users, of the member cluster's availability,
of crashes or of failing calls; properties that need a quiet environment say so in
their premise (`<>[](reach /\ ...)`).

## 4. The proofs

Checked by TLAPS for every value of the constants that the named `ASSUME`s allow
(flags are Booleans, bounds are naturals, `None` is not an object).

**SyncManagerProofs**: `TypeCorrect`, `CopiesOnlyAdvance`, `LiveCopiesSpared`,
`CopiesAreSettled`. The safety of the copies is not inductive: that a stale read does no harm depends on
how the cache, the reconciliation in progress and the copies are ordered in time.
The invariant `IInv` says so:

* `CacheInv`: what is cached was published, and is not ahead of the pivot object of
  the same incarnation (`NotAhead` compares incarnations by uid);
* `MarkInv`: the highest version ever copied has been seen by the cache, and a copy
  holds exactly this version;
* `ClockInv`: a copy of the present incarnation is not older than it, which is why
  the comparison of creation times never condemns it;
* `WorkerInv`: the same of the object the reconciliation holds, call by call. An
  object found missing was copied in an earlier incarnation at most, and a copy on
  its way to being replaced is older than the object that replaces it;
* `GcInv`: the collector's key is a name;
* `StartInv`: before the first list there is nothing in the cache and in the queue.
  What the reconciler will read then is the pivot cluster itself, which is why
  `Seen` looks at `View` and not at the cache.

There is one lemma per action. The refinement then has one step per action that
maps to `Publish`, `Apply`, `Drop` or a stutter; `mark[k] <= v` in `Apply` is
`WorkerInv`.

`CopiesAreSettled` (`SettledIsMirrored`) is what the copies are when nothing is left
to do for a name: no event under way, none queued, no reconciliation, the collector
ended. It is the safety part of `EventuallyMirrored`, which only TLC checks: whatever
came between, lost queues, panics and failed calls included, a copy that carries a
version label has the latest content. The invariant `MirrorInv` follows an event
through the code: `FreshInv` says that the last change of a synced object is under way, or
its key is queued, or the reconciliation at work has read that very object, or the
copy is up to date; `LabelInv` that a label is empty or names the content, on
which the comparison of line 167 relies; that the comparison never takes an old copy
for a newer one is `MarkInv`. `ResidueInv` says the same of an object that is
gone. An event reports its deletion if it happened after the informer's first list;
otherwise (`missed`) the collector is the only hope, if it is still to come (`Due`),
may delete and its calls succeed: it does not list again. The deletions that fall
between the collector's check and the informer's list are the exception (`Answered`);
TLC shows that they are one (`ResidualsRemoved`, section 3). The theorem says
nothing of two more cases that the code leaves: a copy re-created with an empty label,
whose key is retried for ever, and a fresh copy that the collector deletes, which
the next resync brings back.

**ClusterControllerProofs**: `TakeoverTypes`, `RetryStopsWithObject`. A retry task is
started by a reconciliation that read the object long before. `IInv` adds to the
types and the property: uids tell incarnations apart (`UidInv`); the informer shows
no finalizer and no deletion too early, and an object with the finalizer is one the
informer has shown (`CacheInv`); a reconciliation that takes a cluster over has an
object with the finalizer, one that cleans up has nothing that keeps the object
alive, and past `DeleteExternal` the retry task is gone or stopped (`WorkerInv`).
Steps are grouped by what they change (`Elsewhere`, `GoesOn`, `WritesState`), and
each action is a lemma.

**NamespaceQuotaProofs**: `ListedChildExists` (`NoPhantomChild`): every listed child
exists, as long as the hard of the parent was not edited (`edits = 0`, a count that only
grows, `EditsGrow`). Until then the pivot's controller writes a status
only to initialise it, and `IInv` can say that all views of the parent agree on its
hard (`ParentInv`), that uids tell children apart (`UidInv`), that the informer
shows finalizers and deletions late but never early (`SeenInv`), and that every
child in the status the worker carries is alive, while a child whose finalizer is
about to go is not in the parent's list (`WorkerTypes`, `WorkerInv`). After an edit the
status the pivot's controller writes back may be old, which is the lost update of
`UsedIsObserved`, and a phantom can arise in that way too: TLC finds `ListedExist`, the
formula without the premise, violated.

`ParentIsExactAtRest` (`ParentIsExact`), with the same premise and for any finite set
of children, is what `UsedSettles` rests on: whenever the warden has handled every event,
the parent lists exactly the children that exist, none of them is under deletion, and
its used is the sum of what they ask for. `ExactInv` adds to `IInv`, as long as
the parent is there:

* `KnownInv`: a child without an event under way is known as it is to the informer, and
  to the reconciliation at work on it unless it is queued again;
* `ListInv`: a child that nothing is to be done about is in the parent's list, and in the
  list that the worker has made for another child;
* `CountInv`: a wrong used, the parent's or the one about to be written, is made again
  for a child *of the list*. Only those were ever counted, and they do not go
  while they are listed (`NoPhantomChild`), so the one that made the count wrong cannot
  leave it so by going;
* `StartInv`: before the parent's status is initialised nothing passes the webhook
  (`Dormant`), and afterwards the pivot's controller writes none (`Started`), so that it
  never puts back an old list.

No sum is computed: two sums are equal when what is summed is (`SumSame`). That a sum of
numbers is a number at all, hence not `None` (`TotalIsNat`), is an induction over the
size of a set, made by a least counterexample (`LeastNumber`); the recursion in
`MapThenSumSet` is shown to have a solution for the sets of at most n elements, one size
after the other (`SumsToAll`). `ParentIsExact` is in no run's list; TLC checked it and
`ExactInv` with `MaxOps = 3`, `Hards = ParentHards = {1, 2}`, and finds it violated
without its premise. An overloaded parent is no exception to it, as it is to
`UsedSettles`: the keys that the webhook refuses are queued again, and the warden is not
at rest.

**UserRBACProofs**: `UserIsServed` (`RestIsRight`) and `UsersGoLast` (`BindingsGoFirst`),
for any scopes, namespaces, labels, edits, legacy bindings and failing calls. They are
what the liveness properties of `UserRBAC` rest on: the fairness only says that the
controller comes to rest, the theorem says what it leaves. Two arguments carry it.

* Only `DeliverWarden` brings the informer up to date, and it queues the user; only
  `Reconcile` takes the user from the queue. So while the informer is up to date and
  the queue is empty, the reconciliation under way has read the user as it is
  (`UpToDate`), and what it has done so far is right (`Handled`, `GenGranted`). The
  event of a namespace that queues nobody brings no binding (`UnrelatedNamespace`),
  which takes that the status in the informer tells the scopes.
* What the clean-up deletes has a name that no scope needs (`OrphansAreSpared`), since
  the kinds of bindings have names of their own and the generated bindings are spared
  as long as the user is a member of anything (`MemberOf`). The exception is in the
  property: two scopes whose bindings share a name are not `Alone`. The role
  `reviewer`, granted in a tenant and in a project of it, is such a case (section 3,
  further statements).

`Counted` is the other exception: the event of a namespace that has only one of the two
labels is ignored (ns_handler.go); KubeCube itself sets both. `NoneAssumption` says that
no user is `None`. `RestIsRight` and `BindingsGoFirst` are in no run's list, which has
the liveness properties that rest on them: TLC checked both, and
`UserInv`, with its constants and with four scopes (two of one role) and a namespace
that has one label only.

**MultiClusterProofs**: `ManagerTypes`, `NoClusterUnwatched`, `OthersAreStopped`, for
any number of retries, heartbeats, creations, failures and leaks. `RegisteredIsWatched`
is not inductive: the two threads share the map of clusters and nothing else.
`ThreadInv` says that a thread has an internal cluster only on its way from
`NewInternalCluster` to `Add`, that nobody else has the same one, and that it has
written nothing yet; `ScoutInv` that a scout which collects is the registered
cluster's or was told to stop, that one which was never started knows nothing and has
nothing to write, and that nobody waits for a collector that has ended.

**WardenProofs**. `RegistersWhenReady`, for any finite set of components:
`waitForReady` counts answers and does not look at who answers. `WaitInv` says what
the count stands for: while the reporter waits, the components found ready are those
whose check runs no more, and the count is the number of checks that run.
`ReleasesFollow`, for any components, settings and edits: whenever a release or the
feature ConfigMap is not what is configured, somebody is about to see to it: the key of
a configuration that exists is queued, or the reconciliation under way has read the
last version (`Attended`). `QuotaOrRollback`: between
the creation of a namespace and its quota the request itself stands for the quota
(`QuotaInv`).

`TenantsAreTidy` (`LeftAsAsked`): what the tenant and project controllers leave when they
have handled everything, the safety core of `NamespacesSettle` and `DeletionsSettle`, for
any number of creations, deletions, requests and failures. Every change of an object
makes it unseen (`late`) until the informer queues it, and only its worker takes it from
the queue. So while an object is neither unseen nor queued, the reconciliation under way
has read it as it is, and what that one has done so far is right (`WorksAsAsked`). A
clean-up goes on only when what it has deleted is gone, as far as its cache tells
(`DropsInOrder`). What the cache had missed is what the exceptions in the property
stand for: `reborn`, a namespace that was still ending, or not yet in the cache, and
`stray`, one that was passed over or that a request made below a project that was not
there. `LeftAsAsked` is in no run's list,
which has the two liveness properties; TLC checked it, and `TidyInv`, with `MaxOps = 6`
and `MaxFaults = 2`.

**ApiServerProofs**, in parts that share no state.

* `RolesAreShownAsAsked`. `RoleInv`: a role that `setAuthItems` wrote last, on the items
  of its own scope, has the rules these make. The rest is a round trip:
  `RoleAuthMapping` makes one rule for each resource, whose verbs `VerbsAssert` reads
  back (`RuleReadsBack`, `OneRule`), and the verbs of the resources of an item never
  clash, since each is the item's own or "all" (`ShownVerb`, `MappingRoundTrip`).
* `PermissionsFit`. `getAuthItems` looks at resources and verbs, the resolver also at
  groups and names, and is asked for the core group and without a name. The two agree
  on rules that are open in these (`OpenRule`), as all that `setAuthItems` makes are. A
  role installed by other means may have others, and the property excepts this role,
  whatever else is installed: labelled for the platform, with a rule that names another
  group, it is shown in full and permits nothing through `getPermissions`. However many
  rules a resource has, "all" means that one of them lets it be read and one lets it be
  written (`AllIsBoth`).
* `ViewsFit`. The views need no more than that clusters are in a finite set; that a
  cluster is on exactly one page of a list, whatever the page size, is `OnOnePage`.
* `WritesAreReported`. A goroutine of the audit reads the context of its request when
  another request may have it. `OnceInv`: a request arrives once, so a context that was
  handed on never looks again as the first request left it; while it does look so, the
  goroutine finds its own request there (`ReportInv`).
* `NoSessionForForbidden`, `NoEditIsLost`, for any number of users,
  clients and writes. A request reads the cache, decides, and writes later; only the
  version is compared then. Both theorems are about single steps, and follow from what
  a version stands for (`IInv`): the cache shows what is stored whenever it shows the
  version that is stored (`SeenAgrees`), and a request that holds this version would
  store what is there but for the one change it was asked for, or is a login of a user
  that is not forbidden (`Faithful`). Every write takes a version that nobody holds,
  hence leaves all who have read behind (`WriteLeavesCache`, `WriteLeavesRequests`).

**ResourceProofs**, in three parts.

* `OnlyOwnEntries`. `AccessInv`: whoever has read a map that nobody has changed since
  holds its present content (`UpToDate`); the update of anyone else is refused.
* `EntriesAreFollowed`: `EntriesLeadSomewhere`. The invariant `FollowInv` says of a
  service, while nothing has raced, that it is followed: an event of it is queued
  (`Pending`), or its entries are right (`Settled`), or the warden is at work on it and
  will not be refused (`Attended`). Three facts carry it: the last event of a service
  tells what the service is, or that it was deleted (`LastEvents`); an entry leads to a
  port its service has had at some time (`EntriesKnown`), so that no TCP entry is taken
  for one of UDP; and what the warden asks for is the service's own in the TCP map, so
  that the check for conflicts passes in spite of reading the maps one after the other
  (`Accepting`). A request that has written the TCP map and not yet the other settles
  the service as well (`HalfDone`). `ShapesAssumption` is what Kubernetes admits as a
  service: names of their own, no number twice for a protocol.
* `AnswersFit`, `NotFoundOnlyIfStale`. A path is read back by counting its segments,
  which is right only if its parts are as long as the parser takes them to be: the
  lemmas compute `ParseURL`, `Parse` and `ConvertURL` of every path a layout allows.
  The words of a path are assumed not to be `namespaces` (`LayoutsAssumption`): the
  parser takes this segment for the start of a namespaced path. `CallFits` says of a
  call under way that its path is the one it was asked with, in the version it was
  converted to, and that the cluster serves this version unless the discovery was old,
  or the proxy read the path as another version than it names. The exceptions of the two
  theorems are what the code does not prevent: an answer in a version that is not
  registered is passed back (convert_chain.go:46), and a path of the core API is read as
  of any group (conversion.go:243). The second does not concern
  a path that names a registered version of another group, whatever the order of the
  groups.
* `PagesAreRead`. Every page is cut from a list that was sorted anew. The pages fit
  together as there is one order only when no two objects have the same key
  (`OneOrder`): at the first place where two sorted lists differ each has an object
  that the other has later. When the keys decide nothing only the total is claimed.
* `ExtendsExactly`. `WorkInv`: what an attempt names is the uid of the ConfigMap it has
  read; the owners a request carries from the first listing to the second are the one
  it asked about and the replica sets of that one. The five phases of the pods of a deployment are counted apart
  (`FiveParts`).

Every one of these inductive invariants was checked with TLC as well, with the
constants of the run of its module.

The proofs corrected the model in a few places where the small instances had shown
nothing: `Build` (MultiCluster) could be asked for an internal cluster when none was
free; `EntriesLeadSomewhere` needs the exceptions of an external port that is in both
maps, of a request that is refused with one map written, and of a number that a service
has for TCP at one time and for UDP at another (before, only at the same time; a second
service, or a third shape of one, lets TLC show entries that lead nowhere in the latter
two cases); a refused read in `ReadUdp` was recorded though the map had come back to
what was read; a page was asked for without a limit in `Proxy`; pods in other phases were not
counted; a job with conditions that has not ended was taken for one without; clusters
of one age were listed in a fixed order; and a Cluster never went in `Views`.

What stays with TLC: all liveness properties and everything about fairness, which
the prover cannot treat. Every invariant that a run
checks is proved.

## 5. Not modelled

* The authentication proxy of the warden and the copying of streams in the proxies:
  input and output without state. Logs, monitoring, node and volume views: single
  reads.
* The controllers of CRDs and of OLM roles, and the webhook of clusters: one check or
  one write that depends on no other state of KubeCube.
* Identity providers, helm, hierarchical namespaces, CloudShell and the audit
  server: external; their answers are any.
* The start of `cube`, flags, logging, generated code and API documentation.
* The content of manifests, users' credentials, names and labels, unless the code
  decides on them.
* Several kinds of resource in one quota, quotas that move to another parent, and
  hierarchies of cube quotas.
* A change of leadership in the middle of a reconciliation: `Followed` covers a
  replica that becomes the leader with clusters it had registered.

## 6. Plan

1. `CubeQuotaTree`: the hierarchy of cube quotas (`pkg/quota/cube`), with
   `isExceedParent` over several kinds of resource as an operator.
2. `UserRBAC` with several users and clusters: `UserIsServed` says it of one.
3. `WardenStart` composed with `MultiCluster` and `ClusterController`: one cluster
   from the start of its warden to its deletion, with the three writers of its
   status.
