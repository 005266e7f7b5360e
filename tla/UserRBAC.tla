------------------------------ MODULE UserRBAC ------------------------------
(***************************************************************************)
(* From the scopes of a user to the bindings Kubernetes checks.            *)
(*                                                                         *)
(* The spec of a User lists scope bindings: a role in a tenant, in a       *)
(* project or on the platform.  The authorization API of the pivot cluster *)
(* and its two binding controllers write that list                         *)
(* (pkg/apiserver/cubeapi/authorization, pkg/ctrlmgr/controllers/binding,  *)
(* pkg/utils/transition).  The user controller of a warden turns it into   *)
(* the user's status, into a RoleBinding in every namespace of a scope and *)
(* into ClusterRoleBindings (pkg/warden/localmgr/controllers/user).        *)
(*                                                                         *)
(* One user and one cluster.  The creates of one scope are one step, and   *)
(* any of them may fail.                                                   *)
(***************************************************************************)
EXTENDS Integers, FiniteSets

CONSTANTS
  None,
  Scopes,      \* [type, name, role]: the scope bindings a user may be given
  LegacyScopes, \* those somebody may make a binding for outside of KubeCube
  Namespaces,  \* [name, tenant, project]: what may be labelled by hnc
  TenantOf,    \* the tenant label of each project
  MaxEdits,    \* bound: changes of the user through the API, and its deletion
  MaxFaults    \* bound: calls of the warden that fail

Types == {"platform", "tenant", "project"}
PlatformAdmin == "platform-admin"

ASSUME ScopeAssumption ==
  /\ \A s \in Scopes : DOMAIN s = {"type", "name", "role"} /\ s.type \in Types
  /\ LegacyScopes \subseteq Scopes
ASSUME BoundAssumption == MaxEdits \in Nat /\ MaxFaults \in Nat

VARIABLES
  user,     \* the User, or None
  late,     \* its last change is not in the warden's informer yet
  seen,     \* the User in the warden's informer
  view,     \* the scopes of the User in the pivot's informer, or None
  nss,      \* the namespaces of the cluster
  seenNs,   \* the namespaces in the warden's informer
  binds,    \* the bindings of the cluster
  seenB,    \* the bindings in the warden's informer
  queue,    \* the user is in the warden's queue
  worker,   \* the reconciliation in progress
  binder,   \* the binding controllers' work: the legacy binding and its step
  edits, faults,
  slip      \* history: an orphan was passed over, its deletion failed unnoticed

cluster == <<nss, binds>>
informer == <<seenNs, seenB>>
pivot == <<view, binder, edits>>
vars == <<user, late, seen, pivot, cluster, informer, queue, worker, faults, slip>>

-----------------------------------------------------------------------------
(* Bindings.                                                               *)

\* GenerateBindingName hashes the user, the role and the namespace.  A tenant
\* scope and a project scope with one role have the same name in a namespace.
BindingId(s, ns) ==
  IF s.type = "platform" THEN [kind |-> "cluster", role |-> s.role, ns |-> None]
                         ELSE [kind |-> "role", role |-> s.role, ns |-> ns.name]

\* The cluster role every member of a tenant or of a project is given.  Its
\* label makes it a platform binding when it is read back.
GenBinding(type) ==
  [id    |-> [kind |-> "gen", role |-> type, ns |-> None],
   scope |-> [type |-> "platform", name |-> "platform", role |-> type],
   label |-> TRUE]

\* Bindings made outside of KubeCube, {user}-in-kubecube-tenant-{tenant} and
\* the like: the binding controllers find their user by that name.
Legacy(s, label) ==
  [id |-> [kind |-> "legacy", role |-> s.role, ns |-> s.name], scope |-> s, label |-> label]

\* toFindNamespacesByScopeBinding
NamespacesOf(s, found) ==
  {n \in found : CASE s.type = "tenant" -> n.tenant = s.name
                   [] s.type = "project" -> n.project = s.name
                   [] OTHER -> FALSE}

\* refreshNsBinding and refreshPlatformBinding.
BindingsOf(s, found) ==
  IF s.type = "platform"
  THEN {[id |-> BindingId(s, None), scope |-> s, label |-> TRUE]}
  ELSE {[id |-> BindingId(s, n), scope |-> s, label |-> TRUE] : n \in NamespacesOf(s, found)}

\* needGenTenantBinding, needGenProjectBinding
GenBindingsOf(spec) ==
  {GenBinding(t) : t \in {s.type : s \in spec} \ {"platform"}}

\* A binding whose name is taken is not created, whatever it is labelled with.
Created(found, new) == found \cup {b \in new : \A x \in found : x.id # b.id}

Dropped(found, b) == {x \in found : x.id # b.id}

ProjectsIn(spec) == {s.name : s \in {x \in spec : x.type = "project"}}

\* A project that cannot be read adds a membership without its tenant.
RefreshUserStatus(spec, known) ==
  [tenants  |-> {s.name : s \in {x \in spec : x.type = "tenant"}},
   projects |-> {<<s.name, IF s.name \in known THEN TenantOf[s.name] ELSE None>> :
                   s \in {x \in spec : x.type = "project"}},
   admin    |-> \E s \in spec : s.type = "platform" /\ s.role = PlatformAdmin]

NoStatus == [tenants |-> {}, projects |-> {}, admin |-> FALSE]

Statuses ==
  {NoStatus} \cup {RefreshUserStatus(spec, known) : spec \in SUBSET Scopes,
                                                    known \in SUBSET ProjectsIn(Scopes)}
Users == [spec : SUBSET Scopes, status : Statuses, fin : BOOLEAN, del : BOOLEAN]

ASSUME NoneAssumption == None \notin Users

Member(status) == status.tenants # {} \/ status.projects # {}

\* The labelled bindings of `found' that no scope of spec accounts for.  The
\* generated ones stay while the user is a member of anything.
Orphans(found, spec, status) ==
  {b \in found : b.label /\ b.scope \notin spec /\ ~(b.id.kind = "gen" /\ Member(status))}

-----------------------------------------------------------------------------
AtRest == [pc |-> "idle", spec |-> {}, status |-> NoStatus, todo |-> {}, err |-> FALSE]

Init ==
  /\ user = [spec |-> {}, status |-> NoStatus, fin |-> FALSE, del |-> FALSE]
  /\ late = FALSE /\ seen = user /\ view = {}
  /\ nss = {} /\ seenNs = {}
  /\ binds = {} /\ seenB = {}
  /\ queue = TRUE
  /\ worker = AtRest
  /\ binder = None
  /\ edits = 0 /\ faults = 0 /\ slip = FALSE

\* The scopes the API server has.
Current == IF user = None THEN None ELSE user.spec

\* What the API server keeps; an update that changes nothing raises no event.
Put(u) ==
  /\ user' = u
  /\ late' = (late \/ u # user)

-----------------------------------------------------------------------------
(* The authorization API.  It reads the user from a cache, and writes the  *)
(* whole spec it made of that on the version it reads directly.  The cache *)
(* may be late by any number of writes, so that the two are one step here. *)

Edit == edits < MaxEdits /\ edits' = edits + 1

\* UpdateUserSpec with the direct client: conflicts are tried again.
UpdateUserSpec(spec) ==
  IF user = None THEN UNCHANGED <<user, late>> ELSE Put([user EXCEPT !.spec = spec])

CreateBinds(s) ==
  /\ view # None /\ Edit
  /\ UpdateUserSpec(view \cup {s})
  /\ UNCHANGED <<seen, view, binder, cluster, informer, queue, worker, faults, slip>>

\* The scope is found in a RoleBinding: one of the platform cannot be revoked.
DeleteBinds(b) ==
  /\ view # None /\ Edit
  /\ b.id.kind \in {"role", "legacy"}
  /\ UpdateUserSpec(view \ {b.scope})
  /\ UNCHANGED <<seen, view, binder, cluster, informer, queue, worker, faults, slip>>

\* The user is deleted; its finalizer holds it.
DeleteUser ==
  /\ user # None /\ ~user.del /\ Edit
  /\ Put(IF user.fin THEN [user EXCEPT !.del = TRUE] ELSE None)
  /\ UNCHANGED <<seen, view, binder, cluster, informer, queue, worker, faults, slip>>

-----------------------------------------------------------------------------
(* The binding controllers of the pivot cluster.                           *)

\* Somebody creates a legacy binding: its create event starts the controller.
LegacyBinding(s) ==
  /\ binder = None /\ Edit
  /\ \A b \in binds : b.id # Legacy(s, FALSE).id
  /\ binds' = binds \cup {Legacy(s, FALSE)}
  /\ binder' = [scope |-> s, pc |-> "user"]
  /\ UNCHANGED <<user, late, seen, view, nss, informer, queue, worker, faults, slip>>

\* syncUserOnCreate: the scope is added to the cached user.  The cached client
\* finds its version again when the write conflicts, and reconciles again.
SyncUserOnCreate ==
  /\ binder # None /\ binder.pc = "user"
  /\ IF view = None
     THEN binder' = None /\ UNCHANGED <<user, late>>
     ELSE /\ view = Current
          /\ Put([user EXCEPT !.spec = view \cup {binder.scope}])
          /\ binder' = [binder EXCEPT !.pc = "label"]
  /\ UNCHANGED <<seen, view, edits, cluster, informer, queue, worker, faults, slip>>

Relabelled(found, s) ==
  IF Legacy(s, FALSE) \in found
  THEN (found \ {Legacy(s, FALSE)}) \cup {Legacy(s, TRUE)}
  ELSE found

\* updateRoleBinding: the relationship label; a binding that is gone stays so.
\* The scope may have been revoked since, and the user reconciled.
LabelBinding ==
  /\ binder # None /\ binder.pc = "label"
  /\ binds' = Relabelled(binds, binder.scope)
  /\ slip' = (slip \/ (Legacy(binder.scope, FALSE) \in binds
                      /\ ~(user # None /\ ~user.del /\ binder.scope \in user.spec)))
  /\ binder' = None
  /\ UNCHANGED <<user, late, seen, view, edits, nss, informer, queue, worker, faults>>

-----------------------------------------------------------------------------
(* The cluster and its informers.                                          *)

NamespaceAdded(n) ==
  /\ n \notin nss
  /\ nss' = nss \cup {n}
  /\ UNCHANGED <<user, late, seen, pivot, binds, informer, queue, worker, faults, slip>>

\* (mutant of RelatedUser: only the members of the tenant are told)
RelatedTenantUser(n) == seen # None /\ n.tenant \in seen.status.tenants

\* toFindRelatedUsers, by the status in the informer
RelatedUser(n) ==
  /\ seen # None
  /\ \/ n.tenant \in seen.status.tenants
     \/ n.project \in {p[1] : p \in seen.status.projects}

\* namespaceHandleFunc: only a namespace of a tenant and of a project counts.
DeliverNamespace(n) ==
  /\ n \in nss \ seenNs
  /\ seenNs' = seenNs \cup {n}
  /\ queue' = (queue \/ (n.tenant # None /\ n.project # None /\ RelatedUser(n)))
  /\ UNCHANGED <<user, late, seen, pivot, cluster, seenB, worker, faults, slip>>

DeliverBindings ==
  /\ seenB # binds
  /\ seenB' = binds
  /\ UNCHANGED <<user, late, seen, pivot, cluster, seenNs, queue, worker, faults, slip>>

DeliverWarden ==
  /\ late
  /\ late' = FALSE /\ seen' = user /\ queue' = TRUE
  /\ UNCHANGED <<user, pivot, cluster, informer, worker, faults, slip>>

DeliverPivot ==
  /\ view # Current
  /\ view' = Current
  /\ UNCHANGED <<user, late, seen, binder, edits, cluster, informer, queue, worker, faults, slip>>

-----------------------------------------------------------------------------
(* The user controller: one worker.                                        *)

Fault == faults < MaxFaults /\ faults' = faults + 1

Requeue == queue' = TRUE /\ worker' = AtRest
Finish == worker' = AtRest /\ UNCHANGED queue

Fresh == ~late

\* An orphan of the cluster is not in the informer yet.
Missed(spec, status) ==
  ~(Orphans(binds, spec, status) \subseteq Orphans(seenB, spec, status))

\* The labelled bindings bindingsGc lists.
Labelled(found) == {b \in found : b.label}

\* Reconcile reads the cached user.  One that is being deleted is cleaned up;
\* one without the finalizer gets it, if the cached version is the last one:
\* else the update conflicts, and is tried until the informer has caught up.
Reconcile ==
  /\ worker.pc = "idle" /\ queue
  /\ \/ /\ ~(seen # None /\ (seen.del => seen.fin))
        /\ queue' = FALSE
        /\ UNCHANGED <<user, late, worker, faults, slip>>
     \/ /\ seen # None /\ seen.del /\ seen.fin
        /\ queue' = FALSE
        /\ worker' = [AtRest EXCEPT !.pc = "gc", !.todo = Labelled(seenB)]
        /\ slip' = (slip \/ ~(Labelled(binds) \subseteq seenB))
        /\ UNCHANGED <<user, late, faults>>
     \/ /\ seen # None /\ ~seen.del
        /\ seen.fin \/ Fresh
        /\ IF seen.fin THEN UNCHANGED <<user, late>> ELSE Put([user EXCEPT !.fin = TRUE])
        /\ queue' = FALSE
        /\ \E known \in SUBSET ProjectsIn(seen.spec) :
             /\ worker' = [AtRest EXCEPT !.pc = "status", !.spec = seen.spec,
                                         !.status = RefreshUserStatus(seen.spec, known)]
             /\ IF known = ProjectsIn(seen.spec) THEN UNCHANGED faults ELSE Fault
        /\ UNCHANGED slip
  /\ UNCHANGED <<seen, pivot, cluster, informer>>

\* updateUserStatus reads the cached user again at each conflict, five times.
UpdateUserStatus ==
  /\ worker.pc = "status"
  /\ \/ /\ Fresh /\ user # None
        /\ Put([user EXCEPT !.status = worker.status])
        /\ worker' = [worker EXCEPT !.pc = "bind", !.todo = worker.spec]
        /\ UNCHANGED queue
     \/ /\ ~Fresh \/ user = None
        /\ Requeue
        /\ UNCHANGED <<user, late>>
  /\ UNCHANGED <<seen, pivot, cluster, informer, faults, slip>>

\* refreshBindings takes the scopes one by one.  Any create may fail; the other
\* ones go on, and the error ends the reconciliation before the clean-up.
RefreshBindings(s) ==
  /\ worker.pc = "bind" /\ s \in worker.todo
  /\ LET new == BindingsOf(s, seenNs)
         rest == worker.todo \ {s}
         next(err) == [worker EXCEPT !.pc = IF rest = {} THEN "gen" ELSE "bind",
                                     !.todo = rest, !.err = err]
     IN  \/ /\ binds' = Created(binds, new)
            /\ worker' = next(worker.err)
            /\ UNCHANGED faults
         \/ /\ Fault
            /\ \E b \in new : binds' = Created(binds, new \ {b})
            /\ worker' = next(TRUE)
  /\ UNCHANGED <<user, late, seen, pivot, nss, informer, queue, slip>>

\* (mutant of Clean: only the ClusterRoleBindings are looked at)
CleanClusterWide == {b \in Orphans(seenB, worker.spec, worker.status) : b.id.ns = None}

\* cleanOrphanBindings, by the informer's lists
Clean == Orphans(seenB, worker.spec, worker.status)

\* generateClusterRoleBinding, and the end of refreshBindings: all errors
\* together.  Then cleanOrphanBindings lists.
GenerateBindings ==
  /\ worker.pc = "gen" \/ (worker.pc = "bind" /\ worker.todo = {})
  /\ binds' = Created(binds, GenBindingsOf(worker.spec))
  /\ IF worker.err
     THEN Requeue /\ UNCHANGED slip
     ELSE /\ worker' = [worker EXCEPT !.pc = "clean", !.todo = Clean]
          /\ slip' = (slip \/ Missed(worker.spec, worker.status))
          /\ UNCHANGED queue
  /\ UNCHANGED <<user, late, seen, pivot, nss, informer, faults>>

\* A deletion that finds nothing ends the reconciliation with that error; one
\* that fails otherwise is passed over.
CleanOrphan(b) ==
  /\ worker.pc = "clean" /\ b \in worker.todo
  /\ \/ /\ \E x \in binds : x.id = b.id
        /\ binds' = Dropped(binds, b)
        /\ worker' = [worker EXCEPT !.todo = @ \ {b}]
        /\ UNCHANGED <<queue, faults, slip>>
     \/ /\ \E x \in binds : x.id = b.id
        /\ Fault
        /\ worker' = [worker EXCEPT !.todo = @ \ {b}]
        /\ slip' = TRUE
        /\ UNCHANGED <<binds, queue>>
     \/ /\ \A x \in binds : x.id # b.id
        /\ Requeue
        /\ UNCHANGED <<binds, faults, slip>>
  /\ UNCHANGED <<user, late, seen, pivot, nss, informer>>

Synced ==
  /\ worker.pc = "clean" /\ worker.todo = {}
  /\ Finish
  /\ UNCHANGED <<user, late, seen, pivot, cluster, informer, faults, slip>>

\* (mutant of BindingsGc: a deletion that fails is passed over)
BindingsGcLenient(b) ==
  /\ worker.pc = "gc" /\ b \in worker.todo
  /\ \/ binds' = Dropped(binds, b) /\ UNCHANGED faults
     \/ Fault /\ UNCHANGED binds
  /\ worker' = [worker EXCEPT !.todo = @ \ {b}]
  /\ UNCHANGED <<user, late, seen, pivot, nss, informer, queue, slip>>

\* bindingsGc: a deletion that fails is tried again with all the others.
BindingsGc(b) ==
  /\ worker.pc = "gc" /\ b \in worker.todo
  /\ \/ /\ binds' = Dropped(binds, b)
        /\ worker' = [worker EXCEPT !.todo = @ \ {b}]
        /\ UNCHANGED <<queue, faults>>
     \/ /\ Fault /\ Requeue
        /\ UNCHANGED binds
  /\ UNCHANGED <<user, late, seen, pivot, nss, informer, slip>>

\* removeFinalizer, with the cached user as updateUserStatus has it
RemoveFinalizer ==
  /\ worker.pc = "gc" /\ worker.todo = {}
  /\ \/ /\ Fresh /\ user # None
        /\ Put(IF user.del THEN None ELSE [user EXCEPT !.fin = FALSE])
        /\ Finish
     \/ /\ ~Fresh \/ user = None
        /\ Requeue
        /\ UNCHANGED <<user, late>>
  /\ UNCHANGED <<seen, pivot, cluster, informer, faults, slip>>

-----------------------------------------------------------------------------
ReconcileStep ==
  \/ Reconcile \/ UpdateUserStatus \/ GenerateBindings \/ Synced \/ RemoveFinalizer
  \/ \E s \in Scopes : RefreshBindings(s)
  \/ \E b \in worker.todo : CleanOrphan(b) \/ BindingsGc(b)

InformerStep ==
  \/ DeliverWarden \/ DeliverPivot \/ DeliverBindings
  \/ \E n \in Namespaces : DeliverNamespace(n)

PivotStep == SyncUserOnCreate \/ LabelBinding

RequestStep ==
  \/ \E s \in Scopes : CreateBinds(s)
  \/ \E b \in binds : DeleteBinds(b)
  \/ DeleteUser
  \/ \E s \in LegacyScopes : LegacyBinding(s)
  \/ \E n \in Namespaces : NamespaceAdded(n)

Next == ReconcileStep \/ InformerStep \/ PivotStep \/ RequestStep

Spec == Init /\ [][Next]_vars

\* The work queues, the retries and the informers go on; nobody is obliged to
\* make a request, to add a namespace, or to fail.
Fairness ==
  /\ WF_vars(ReconcileStep)
  /\ WF_vars(InformerStep)
  /\ WF_vars(PivotStep)

FairSpec == Spec /\ Fairness

-----------------------------------------------------------------------------
(* Properties.                                                             *)

\* The bindings the user is entitled to, and those it may be left with.
Required == UNION {BindingsOf(s, nss) : s \in user.spec} \cup GenBindingsOf(user.spec)
Live == user # None /\ ~user.del

Ids(bs) == {b.id : b \in bs}

\* The status names the tenants and the projects of the scopes, and no other.
Tells(status, spec) ==
  /\ status.tenants = RefreshUserStatus(spec, {}).tenants
  /\ {p[1] : p \in status.projects} = ProjectsIn(spec)

\* Whatever the order of grants, namespaces and failures, a user that is not
\* being deleted ends with every binding its scopes call for, and a status that
\* tells its memberships (refreshBindings and namespaceHandleFunc).
GrantsSettle ==
  <>[](Live => /\ Ids(Required) \subseteq Ids(binds)
               /\ Tells(user.status, user.spec))

\* Revocations end too: unless an orphan was passed over (`slip'), no binding
\* of KubeCube is left that the user's scopes do not account for
\* (cleanOrphanBindings).
RevocationsSettle ==
  <>[](~slip /\ Live /\ binder = None => Orphans(binds, user.spec, user.status) = {})

\* A user whose deletion was asked for goes, with all of its bindings unless
\* one was passed over (removeFinalizer).
DeletionEnds ==
  [](user # None /\ user.del => <>(user = None /\ (slip \/ Labelled(binds) = {})))

\* The namespaces whose events are looked at.
Counted(found) == {n \in found : n.tenant # None /\ n.project # None}

\* No binding of the scope has the name of a binding of another scope.
Alone(s) ==
  \A t \in Scopes \ {s} :
    Ids(BindingsOf(s, Namespaces)) \cap Ids(BindingsOf(t, Namespaces)) = {}

\* When the controller knows the user as it is and has nothing to do, the user is
\* not being deleted, its status tells its memberships, and its bindings are
\* those of its scopes: all in the namespaces the controller has seen with their
\* labels, unless two scopes share a name, and none else, unless an orphan was
\* passed over (Reconcile, refreshBindings, cleanOrphanBindings).
RestIsRight ==
  ~late /\ ~queue /\ worker.pc = "idle" /\ user # None =>
    /\ ~user.del
    /\ Tells(user.status, user.spec)
    /\ \A s \in user.spec :
         Alone(s) => Ids(BindingsOf(s, Counted(seenNs))) \subseteq Ids(binds)
    /\ Ids(GenBindingsOf(user.spec)) \subseteq Ids(binds)
    /\ slip \/ Orphans(binds, user.spec, user.status) = {}

\* The User goes after its bindings: none of them is left that nobody accounts
\* for any more, unless one was passed over (bindingsGc before removeFinalizer).
BindingsGoFirst ==
  [][user # None /\ user.del /\ user' = None => slip \/ Labelled(binds) = {}]_vars

\* Refuted.  A grant or a revocation changes the scope it is about and no
\* other ("add user scope binding", "remove user scope binding", handler.go).
\* UpdateUserSpec replaces the whole spec by one made from a cached user.
EditsOneScope ==
  [][(user # None /\ user' # None) =>
       Cardinality((user.spec \ user'.spec) \cup (user'.spec \ user.spec)) <= 1]_vars

\* Refuted.  RevocationsSettle without its premise.
NoOrphanIsLeft ==
  <>[](Live /\ binder = None => Orphans(binds, user.spec, user.status) = {})
=============================================================================
