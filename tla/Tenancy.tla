------------------------------- MODULE Tenancy -------------------------------
(***************************************************************************)
(* Tenants, projects and the namespaces that stand for them: the tenant    *)
(* and project controllers of a warden (pkg/warden/localmgr/controllers),  *)
(* the webhooks their objects pass in the pivot cluster                    *)
(* (pkg/ctrlmgr/webhooks) and in a member (pkg/warden/localmgr/webhooks),  *)
(* and the request that makes a namespace with its quota in a project      *)
(* (createNsAndQuota, pkg/apiserver/cubeapi/cluster).                      *)
(*                                                                         *)
(* One tenant, one project in it, one namespace below that.  A webhook     *)
(* decides on a cache, before the write: the two are one step here, since  *)
(* the cache may be late by any number of writes.                          *)
(***************************************************************************)
EXTENDS Integers, FiniteSets

CONSTANTS
  None,
  MaxOps,      \* bound: objects created or deleted, requests
  MaxFaults    \* bound: calls that fail, waits that time out

ASSUME TenancyBounds == MaxOps \in Nat /\ MaxFaults \in Nat

Kinds == {"tenant", "project"}
Spaces == {"tenant", "project", "sub"}

VARIABLES
  obj,      \* obj[k]: the Tenant or the Project: [filled], or None
  seen,     \* the same in the informers
  late,     \* the kinds whose last change is not in the informers
  ns,       \* ns[n]: none, live or ending
  seenNs,   \* seenNs[n]: the namespace is in the informers
  quota,    \* the tenant has CubeResourceQuotas
  queue,    \* the kinds in their controller's queue
  worker,   \* worker[k]: the step of its reconciliation
  req,      \* the step of createNsAndQuota
  subQuota, \* the ResourceQuota of the namespace
  ops, faults,
  reborn,   \* history: a namespace was found ending where one was needed
  stray     \* history: a namespace the clean-up of its project did not see

objects == <<obj, seen, late>>
spaces == <<ns, seenNs>>
request == <<req, subQuota>>
history == <<reborn, stray>>
vars == <<objects, spaces, quota, queue, worker, request, ops, faults, history>>

Init ==
  /\ obj = [k \in Kinds |-> None]
  /\ seen = obj
  /\ late = {} /\ queue = {}
  /\ ns = [n \in Spaces |-> "none"]
  /\ seenNs = [n \in Spaces |-> FALSE]
  /\ worker = [k \in Kinds |-> "idle"]
  /\ req = "idle" /\ quota = FALSE /\ subQuota = FALSE
  /\ ops = 0 /\ faults = 0 /\ reborn = FALSE /\ stray = FALSE

Op == ops < MaxOps /\ ops' = ops + 1
Fault == faults < MaxFaults /\ faults' = faults + 1

Put(k, o) ==
  /\ obj' = [obj EXCEPT ![k] = o]
  /\ late' = late \cup {k}

-----------------------------------------------------------------------------
(* Users, and the webhooks.                                                *)

\* Tenants are created freely; a project needs a tenant (project.ValidateCreate).
ValidateCreate(k) == k = "project" => seen["tenant"] # None

\* tenant.ValidateDelete looks for projects, project.ValidateDelete for
\* namespaces that hnc has put below it.
ValidateDelete(k) ==
  CASE k = "tenant" -> seen["project"] = None
    [] k = "project" -> ~seenNs["sub"]

Create(k) ==
  /\ obj[k] = None /\ Op
  /\ ValidateCreate(k)
  /\ Put(k, [filled |-> FALSE])
  /\ UNCHANGED <<seen, spaces, quota, queue, worker, request, faults, history>>

Delete(k) ==
  /\ obj[k] # None /\ Op
  /\ ValidateDelete(k)
  /\ Put(k, None)
  /\ UNCHANGED <<seen, spaces, quota, queue, worker, request, faults, history>>

QuotaCreated ==
  /\ obj["tenant"] # None /\ ~quota /\ Op
  /\ quota' = TRUE
  /\ UNCHANGED <<objects, spaces, queue, worker, request, faults, history>>

-----------------------------------------------------------------------------
(* The cluster.                                                            *)

Deliver(k) ==
  /\ k \in late
  /\ late' = late \ {k}
  /\ seen' = [seen EXCEPT ![k] = obj[k]]
  /\ queue' = queue \cup {k}
  /\ UNCHANGED <<obj, spaces, quota, worker, request, ops, faults, history>>

DeliverNs(n) ==
  /\ seenNs[n] # (ns[n] # "none")
  /\ seenNs' = [seenNs EXCEPT ![n] = ns[n] # "none"]
  /\ UNCHANGED <<objects, ns, quota, queue, worker, request, ops, faults, history>>

\* What is in the namespace goes with it.
Ended(n) ==
  /\ ns[n] = "ending"
  /\ ns' = [ns EXCEPT ![n] = "none"]
  /\ subQuota' = (subQuota /\ n # "sub")
  /\ UNCHANGED <<objects, seenNs, quota, queue, worker, req, ops, faults, history>>

-----------------------------------------------------------------------------
(* The controllers: a worker for each kind.                                *)

To(k, pc) == worker' = [worker EXCEPT ![k] = pc] /\ queue' = queue \ {k}
Go(k, pc) == worker' = [worker EXCEPT ![k] = pc] /\ UNCHANGED queue
\* (mutant of Again: the error is logged and the request is done)
AgainForgotten(k) == worker' = [worker EXCEPT ![k] = "idle"] /\ UNCHANGED queue
Again(k) == worker' = [worker EXCEPT ![k] = "idle"] /\ queue' = queue \cup {k}

\* The project controller needs the tenant, filled in, in its cache.
Ready(k) ==
  k = "project" => seen["tenant"] # None /\ seen["tenant"].filled

\* Reconcile: an object that is not found is cleaned up after.  One that is
\* gets its namespace's name and the sync annotation; a write on an old version
\* fails, and is tried until the informer has caught up.
Reconcile(k) ==
  /\ worker[k] = "idle" /\ k \in queue
  /\ \/ /\ seen[k] = None
        /\ To(k, "drop")
        /\ UNCHANGED <<obj, late>>
     \/ /\ seen[k] # None /\ ~seen[k].filled
        /\ k \notin late
        /\ Put(k, [filled |-> TRUE])
        /\ IF Ready(k) THEN To(k, "space") ELSE UNCHANGED <<worker, queue>>
     \/ /\ seen[k] # None /\ seen[k].filled
        /\ Ready(k)
        /\ To(k, "space")
        /\ UNCHANGED <<obj, late>>
  /\ UNCHANGED <<seen, spaces, quota, request, ops, faults, history>>

\* crateTenantNamespace, crateProjectNamespace: a namespace of that name is fine,
\* one that is ending too.
CreateNamespace(k) ==
  /\ worker[k] = "space"
  /\ \/ /\ ns' = [ns EXCEPT ![k] = IF @ = "none" THEN "live" ELSE @]
        /\ reborn' = (reborn \/ ns[k] = "ending")
        /\ Go(k, "idle")
        /\ UNCHANGED faults
     \/ Fault /\ Again(k) /\ UNCHANGED <<ns, reborn>>
  /\ UNCHANGED <<objects, seenNs, quota, request, ops, stray>>

\* deleteNSofTenant: the namespace the cache has is deleted and waited for.
DropTenantSpace ==
  /\ worker["tenant"] = "drop"
  /\ IF ~seenNs["tenant"]
     THEN /\ Go("tenant", "rest")
          /\ reborn' = (reborn \/ ns["tenant"] # "none")
          /\ UNCHANGED <<ns, faults>>
     ELSE \/ /\ ns["tenant"] # "none"
             /\ ns' = [ns EXCEPT !["tenant"] = "ending"]
             /\ Go("tenant", "wait")
             /\ UNCHANGED <<faults, reborn>>
          \/ /\ ns["tenant"] = "none" \* not found: an error
             /\ Again("tenant")
             /\ UNCHANGED <<ns, faults, reborn>>
          \/ Fault /\ Again("tenant") /\ UNCHANGED <<ns, reborn>>
  /\ UNCHANGED <<objects, seenNs, quota, request, ops, stray>>

WaitTenantSpace ==
  /\ worker["tenant"] = "wait"
  /\ \/ ~seenNs["tenant"] /\ Go("tenant", "rest") /\ UNCHANGED faults
     \/ Fault /\ Again("tenant")
  /\ UNCHANGED <<objects, spaces, quota, request, ops, history>>

\* deleteCubeResourceQuotaOfTenant, by the label: those of a tenant that has
\* been created again go as well.
DropQuotas ==
  /\ worker["tenant"] = "rest"
  /\ \/ quota' = FALSE /\ Go("tenant", "idle") /\ UNCHANGED faults
     \/ Fault /\ Again("tenant") /\ UNCHANGED quota
  /\ UNCHANGED <<objects, spaces, request, ops, history>>

\* (mutant of SubDropped: the namespaces below the project are kept)
SubKept == ns

SubDropped ==
  IF seenNs["sub"] /\ ns["sub"] # "none" THEN [ns EXCEPT !["sub"] = "ending"] ELSE ns

\* deleteSubNSOfProject by the cache's list; errors are tried again.
DropSubSpaces ==
  /\ worker["project"] = "drop"
  /\ \/ /\ ns' = SubDropped
        /\ stray' = (stray \/ (ns["sub"] # "none" /\ ~seenNs["sub"]))
        /\ Go("project", "rest")
        /\ UNCHANGED faults
     \/ Fault /\ Again("project") /\ UNCHANGED <<ns, stray>>
  /\ UNCHANGED <<objects, seenNs, quota, request, ops, reborn>>

\* The namespace of the project: that it is not found is an error, which comes
\* again with each retry; any other error is passed over.
DropProjectSpace ==
  /\ worker["project"] = "rest"
  /\ \/ /\ ns["project"] # "none"
        /\ ns' = [ns EXCEPT !["project"] = "ending"]
        /\ Go("project", "idle")
        /\ UNCHANGED <<faults, stray>>
     \/ /\ ns["project"] = "none"
        /\ Again("project")
        /\ UNCHANGED <<ns, faults, stray>>
     \/ /\ Fault
        /\ Go("project", "idle")
        /\ stray' = TRUE
        /\ UNCHANGED ns
  /\ UNCHANGED <<objects, seenNs, quota, request, ops, reborn>>

-----------------------------------------------------------------------------
(* createNsAndQuota.                                                       *)

\* SubNs2Ns makes the namespace of the anchor, with the labels hnc would set.
\* Nobody asks whether the project is there.
CreateNs ==
  /\ req = "idle" /\ Op
  /\ ns["sub"] = "none"
  /\ ns' = [ns EXCEPT !["sub"] = "live"]
  /\ req' = "spread"
  /\ stray' = (stray \/ obj["project"] = None \/ seen["project"] = None)
  /\ UNCHANGED <<objects, seenNs, quota, queue, worker, subQuota, faults, reborn>>

\* The roles of the user, and the bindings in the namespace, up to 20 times:
\* an error undoes the namespace, no binding does not.
AwaitSpread ==
  /\ req = "spread"
  /\ \/ req' = "quota" /\ UNCHANGED faults
     \/ Fault /\ req' = "rollback"
  /\ UNCHANGED <<objects, spaces, quota, queue, worker, subQuota, ops, history>>

\* The quota is created: it may be refused, or its namespace be gone.
CreateQuota ==
  /\ req = "quota"
  /\ \/ /\ ns["sub"] = "live"
        /\ subQuota' = TRUE
        /\ req' = "idle"
        /\ UNCHANGED faults
     \/ /\ ns["sub"] # "live"
        /\ req' = "rollback"
        /\ UNCHANGED <<subQuota, faults>>
     \/ /\ Fault
        /\ req' = "rollback"
        /\ UNCHANGED subQuota
  /\ UNCHANGED <<objects, spaces, quota, queue, worker, ops, history>>

\* (mutant of RolledBack: only a namespace that has a quota is deleted)
RolledBackQuota == IF subQuota THEN [ns EXCEPT !["sub"] = "ending"] ELSE ns

RolledBack == IF ns["sub"] # "none" THEN [ns EXCEPT !["sub"] = "ending"] ELSE ns

\* An error of the rollback is only logged: the context of the request may have
\* been cancelled.
Rollback ==
  /\ req = "rollback"
  /\ \/ ns' = RolledBack /\ UNCHANGED <<faults, stray>>
     \/ Fault /\ stray' = TRUE /\ UNCHANGED ns
  /\ req' = "idle"
  /\ UNCHANGED <<objects, seenNs, quota, queue, worker, subQuota, ops, reborn>>

-----------------------------------------------------------------------------
TenantStep ==
  \/ Reconcile("tenant") \/ CreateNamespace("tenant")
  \/ DropTenantSpace \/ WaitTenantSpace \/ DropQuotas

ProjectStep ==
  \/ Reconcile("project") \/ CreateNamespace("project")
  \/ DropSubSpaces \/ DropProjectSpace

RequestStep == AwaitSpread \/ CreateQuota \/ Rollback

InformerStep ==
  (\E k \in Kinds : Deliver(k)) \/ (\E n \in Spaces : DeliverNs(n) \/ Ended(n))

Next ==
  \/ TenantStep \/ ProjectStep \/ RequestStep \/ InformerStep
  \/ \E k \in Kinds : Create(k) \/ Delete(k)
  \/ QuotaCreated \/ CreateNs

\* The workers retry for ever, the informers and the namespace controller of
\* Kubernetes get through, a request comes to its end.
Spec ==
  /\ Init /\ [][Next]_vars
  /\ WF_vars(TenantStep) /\ WF_vars(ProjectStep)
  /\ WF_vars(InformerStep) /\ WF_vars(RequestStep)

-----------------------------------------------------------------------------
(* Properties.                                                             *)

\* A tenant and its project end with their namespaces, whatever the order they
\* are created in and whatever fails, unless an old namespace was still ending
\* when the new one was asked for (Reconcile of both controllers).
NamespacesSettle ==
  <>[](~reborn => \A k \in Kinds :
         /\ obj[k] # None /\ (k = "project" => obj["tenant"] # None)
         => ns[k] = "live" /\ obj[k].filled)

\* What was deleted leaves nothing behind: no CubeResourceQuota of a tenant, and no
\* namespace of it unless it was missed when it was looked for; no namespace of a
\* project, nor one below it with what is in it, unless a clean-up was passed over
\* (deleteTenant and deleteProject).
DeletionsSettle ==
  <>[](/\ obj["tenant"] = None => ~quota /\ (reborn \/ ns["tenant"] = "none")
       /\ obj["project"] = None =>
            stray \/ reborn \/ (ns["project"] = "none" /\ ns["sub"] = "none" /\ ~subQuota))

\* A namespace that createNsAndQuota made has its quota when the request is
\* over, or goes, unless the deletion that rolls it back failed.
NsHasQuota ==
  req = "idle" /\ ~stray => (ns["sub"] = "live" => subQuota)

\* Refuted.  "final action failed would rollback whole action" (cluster/handler.go:709):
\* the deletion may fail, as it does when the context of the request was cancelled.
NsAlwaysHasQuota == req = "idle" => (ns["sub"] = "live" => subQuota)

\* The controller has handled every change of the object and is not at work on it.
Handled(k) == k \notin late /\ k \notin queue /\ worker[k] = "idle"

\* What the controllers leave when they have handled everything: the namespace of an
\* object, unless an old one was ending then, and of a deleted one nothing that lives,
\* unless a clean-up was passed over; with the tenant its quotas have gone
\* (Reconcile, deleteTenant and deleteProject).
LeftAsAsked ==
  /\ \A k \in Kinds :
       Handled(k) /\ obj[k] # None => obj[k].filled /\ (reborn \/ ns[k] = "live")
  /\ Handled("tenant") /\ obj["tenant"] = None =>
       ~quota /\ (reborn \/ ns["tenant"] = "none")
  /\ Handled("project") /\ obj["project"] = None =>
       stray \/ (ns["project"] # "live" /\ ns["sub"] # "live")

\* Refuted.  "there are still projects under this tenant": no project is left
\* without its tenant.
ProjectHasTenant == obj["project"] # None => obj["tenant"] # None

\* Refuted.  The project controller comes to rest: a namespace that is already gone
\* is an error, and is deleted again (project_controller.go:152).
ProjectQueueDrains == <>[](worker["project"] = "idle" /\ "project" \notin queue)
=============================================================================
