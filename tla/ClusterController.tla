-------------------------- MODULE ClusterController --------------------------
(***************************************************************************)
(* The cluster controller of the leading replica                           *)
(* (pkg/ctrlmgr/controllers/cluster): it takes over a member cluster, that *)
(* is, connects to it, deploys the warden into it and registers it with    *)
(* the multi-cluster manager, retries in the background a cluster it       *)
(* cannot connect to, and cleans up a cluster whose object is deleted.     *)
(*                                                                         *)
(* The model follows one member cluster.  The multi-cluster manager is     *)
(* reduced to whether the cluster is registered, and healthy there: see    *)
(* MultiCluster.                                                           *)
(***************************************************************************)
EXTENDS Integers, Sequences

CONSTANTS
  None,
  Retain,      \* env.RetainMemberClusterResource: keep the warden's namespace
  RegisterMode,\* env.WardenRegisterModeEnable: wardens are deployed by hand
  Followed,    \* the replica followed another one first, and may have
               \* registered the cluster in that time
  MaxCreate,   \* bound: how often users create the Cluster object
  MaxFlips,    \* bound: changes of the member cluster's state
  MaxFaults,   \* bound: API calls that fail
  MaxLost,     \* bound: deletions of the namespace whose answer is lost
  MaxExpired   \* bound: retries that end at their deadline of 12 hours

ASSUME FlagAssumption ==
  Retain \in BOOLEAN /\ RegisterMode \in BOOLEAN /\ Followed \in BOOLEAN

ASSUME BoundAssumption ==
  /\ MaxCreate \in Nat /\ MaxFlips \in Nat /\ MaxFaults \in Nat
  /\ MaxLost \in Nat /\ MaxExpired \in Nat

\* What deployResources creates in a member cluster, in this order; deps are
\* the CRDs, namespace, roles, secrets and the job that come first.
Resources == <<"deps", "secret", "deployment", "service", "webhook">>
Kinds == {Resources[n] : n \in DOMAIN Resources}

State == {"nil", "processing", "initFailed", "reconnectedFailed", "deleting"}
Object == [uid : Nat, state : State, fin : BOOLEAN, del : BOOLEAN]
Task == [at : {"wait", "send", "exit"}, cancelled : BOOLEAN]

ASSUME NoneAssumption == None \notin Object \cup Task

VARIABLES
  cr,          \* the Cluster object
  cache,       \* the Cluster object in the controller's informer
  pend,        \* an event that passes the predicates is under way
  queue,       \* the cluster's key is in the controller's queue
  worker,      \* the reconciliation in progress
  retry,       \* the entry in retryQueue with the goroutine that owns it
  pivotKnown,  \* the pivot cluster's object has been reconciled
  reg,         \* the internal cluster: None, "healthy" or "abnormal"
  reach,       \* the member cluster's API server answers
  deployed,    \* what deployResources has created in the member cluster
  nsEnding,    \* the namespace among it is Terminating
  created, flips, faults, lost, expired

bounds == <<created, flips, faults, lost, expired>>
vars == <<cr, cache, pend, queue, worker, retry, pivotKnown, reg, reach, deployed,
          nsEnding, bounds>>

AtRest == [pc |-> "idle", obj |-> None, step |-> 0]

Phase == {"idle", "finalizer", "processing", "connect", "deploy", "add", "scout",
          "failRetry", "failEnqueue", "enqueue",
          "deleting", "external", "namespace", "unregister", "unfinalize"}

Reconciliation ==
  [pc : Phase, obj : Object \cup {None}, step : 0 .. Len(Resources) - 1]

TypeOK ==
  /\ cr \in Object \cup {None}
  /\ cache \in Object \cup {None}
  /\ pend \in BOOLEAN /\ queue \in BOOLEAN
  /\ pivotKnown \in BOOLEAN /\ reach \in BOOLEAN
  /\ worker \in Reconciliation
  /\ retry \in Task \cup {None}
  /\ reg \in {None, "healthy", "abnormal"}
  /\ deployed \in SUBSET Kinds /\ nsEnding \in BOOLEAN
  /\ created \in Nat /\ flips \in Nat /\ faults \in Nat /\ lost \in Nat /\ expired \in Nat

NewObject(n) == [uid |-> n, state |-> "nil", fin |-> FALSE, del |-> FALSE]

\* A replica that followed finds an object the last leader took over.
Init ==
  /\ \/ cr = None /\ reg = None /\ deployed = IF RegisterMode THEN Kinds ELSE {}
     \/ /\ Followed
        /\ cr = [NewObject(0) EXCEPT !.state = "processing", !.fin = TRUE]
        /\ reg \in {None, "healthy", "abnormal"}
        /\ deployed = Kinds
  /\ cache = cr
  /\ pend = FALSE
  /\ queue = (cr # None)
  /\ worker = AtRest
  /\ retry = None
  /\ pivotKnown = FALSE
  /\ reach \in BOOLEAN
  /\ nsEnding = FALSE
  /\ created = 0 /\ flips = 0 /\ faults = 0 /\ lost = 0 /\ expired = 0

-----------------------------------------------------------------------------
(* The environment.                                                        *)

ClusterCreate ==
  /\ cr = None
  /\ created < MaxCreate
  /\ created' = created + 1
  /\ cr' = NewObject(created + 1)
  /\ pend' = TRUE
  /\ UNCHANGED <<cache, queue, worker, retry, pivotKnown, reg, reach, deployed,
                 nsEnding, flips, faults, lost, expired>>

\* Without the finalizer the object goes at once, and that event is filtered.
ClusterDelete ==
  /\ cr # None
  /\ ~cr.del
  /\ cr' = IF cr.fin THEN [cr EXCEPT !.del = TRUE] ELSE None
  /\ pend' = (pend \/ cr.fin)
  /\ UNCHANGED <<cache, queue, worker, retry, pivotKnown, reg, reach, deployed,
                 nsEnding, bounds>>

\* The member cluster goes or comes, or its scout changes its mind about it.
MemberFlips ==
  /\ flips < MaxFlips
  /\ flips' = flips + 1
  /\ \/ reach' = ~reach /\ UNCHANGED reg
     \/ /\ reg # None
        /\ reg' = IF reg = "healthy" THEN "abnormal" ELSE "healthy"
        /\ UNCHANGED reach
  /\ UNCHANGED <<cr, cache, pend, queue, worker, retry, pivotKnown, deployed,
                 nsEnding, created, faults, lost, expired>>

\* What the member cluster has in the namespace that is deleted goes piece by
\* piece, and the namespace last.
InNamespace == {"secret", "deployment", "service"}

NamespaceEmpties ==
  /\ nsEnding
  /\ \E kind \in InNamespace \cap deployed : deployed' = deployed \ {kind}
  /\ UNCHANGED <<cr, cache, pend, queue, worker, retry, pivotKnown, reg, reach, nsEnding, bounds>>

NamespaceGoes ==
  /\ nsEnding
  /\ InNamespace \cap deployed = {}
  /\ nsEnding' = FALSE
  /\ deployed' = deployed \ {"deps"}
  /\ UNCHANGED <<cr, cache, pend, queue, worker, retry, pivotKnown, reg, reach, bounds>>

PivotReconciled ==
  /\ ~pivotKnown
  /\ pivotKnown' = TRUE
  /\ UNCHANGED <<cr, cache, pend, queue, worker, retry, reg, reach, deployed, nsEnding, bounds>>

Deliver ==
  /\ cache # cr \/ pend
  /\ cache' = cr
  /\ pend' = FALSE
  /\ queue' = (queue \/ pend)
  /\ UNCHANGED <<cr, worker, retry, pivotKnown, reg, reach, deployed, nsEnding, bounds>>

-----------------------------------------------------------------------------
(* The reconciler.                                                         *)

\* What a step of the reconciler leaves alone, whatever it does.
frame == <<cache, pivotKnown, reach, nsEnding, created, flips, expired>>

Goto(pc, obj) == worker' = [pc |-> pc, obj |-> obj, step |-> 0] /\ UNCHANGED queue
Done == worker' = AtRest /\ UNCHANGED queue
Requeue == worker' = AtRest /\ queue' = TRUE

\* An API call fails: the error is returned, at once or after the state became
\* initFailed, or the cluster is given to the retry queue.
CallFails ==
  /\ faults < MaxFaults
  /\ faults' = faults + 1
  /\ \/ /\ worker.pc \in {"finalizer", "processing", "deleting", "namespace", "unfinalize"}
        /\ Requeue
     \/ worker.pc = "deploy" /\ ~RegisterMode /\ Goto("failRetry", worker.obj)
     \/ /\ worker.pc = "connect" \/ (worker.pc = "add" /\ reg # "healthy")
        /\ Goto("failEnqueue", worker.obj)
  /\ UNCHANGED <<frame, cr, pend, retry, reg, deployed, lost>>

Reconcile ==
  /\ worker.pc = "idle"
  /\ queue
  /\ queue' = FALSE
  /\ worker' =
       IF cache = None THEN AtRest
       ELSE [pc |-> IF cache.del
                    THEN IF cache.fin THEN "deleting" ELSE "idle"
                    ELSE IF cache.fin THEN "processing" ELSE "finalizer",
             obj |-> IF cache.del /\ ~cache.fin THEN None ELSE cache,
             step |-> 0]
  /\ UNCHANGED <<frame, cr, pend, retry, reg, deployed, faults, lost>>

\* The update carries the version that was read.
EnsureFinalizer ==
  /\ worker.pc = "finalizer"
  /\ IF cr = worker.obj
     THEN /\ cr' = [cr EXCEPT !.fin = TRUE]
          /\ Goto("processing", cr')
     ELSE Requeue /\ UNCHANGED cr
  /\ UNCHANGED <<frame, pend, retry, reg, deployed, faults, lost>>

\* UpdateClusterStatusByState, retried on conflict.  An update of an object
\* under deletion is an event that passes the predicates.
SetState(state) ==
  /\ cr' = [cr EXCEPT !.state = state]
  /\ pend' = (pend \/ cr.del)

MarkProcessing ==
  /\ worker.pc = "processing"
  /\ IF cr = None THEN Requeue /\ UNCHANGED <<cr, pend>>
     ELSE SetState("processing") /\ Goto("connect", worker.obj)
  /\ UNCHANGED <<frame, retry, reg, deployed, faults, lost>>

TryConnect ==
  /\ worker.pc = "connect"
  /\ Goto(IF reach THEN "deploy" ELSE "failEnqueue", worker.obj)
  /\ UNCHANGED <<frame, cr, pend, retry, reg, deployed, faults, lost>>

\* A cluster with a warden in it is dating with KubeCube already.
IsDatingCluster == "deployment" \in deployed

\* (mutant of Deploy: one step too many)
DeployPastLast ==
  /\ worker.pc = "deploy"
  /\ reach
  /\ ~RegisterMode /\ pivotKnown
  /\ worker' = [worker EXCEPT !.step = @ + 1]
  /\ deployed' = deployed \cup {Resources[worker.step + 1]}
  /\ UNCHANGED <<frame, queue, cr, pend, retry, reg, faults, lost>>

\* createResource: what exists already is fine, but in a namespace that is
\* Terminating nothing is created.  deployResources only warns of the service.
Refused(r) == nsEnding /\ r \notin {"service", "webhook"}

AfterCreate(r) ==
  (IF nsEnding /\ r = "service" THEN {} ELSE {deployed \cup {r}})
    \cup (IF r = "service" THEN {deployed} ELSE {})

\* deployResources, one resource a step.  A cluster whose warden cannot be looked for is deployed to again.
Deploy ==
  /\ worker.pc = "deploy"
  /\ \/ /\ worker.step = 0
        /\ RegisterMode \/ (reach /\ IsDatingCluster)
        /\ Goto("add", worker.obj)
        /\ UNCHANGED <<deployed, faults>>
     \/ /\ ~RegisterMode
        /\ ~reach \/ (worker.step = 0 /\ ~IsDatingCluster /\ ~pivotKnown)
        /\ Goto("failRetry", worker.obj)
        /\ UNCHANGED <<deployed, faults>>
     \/ /\ ~RegisterMode /\ reach /\ pivotKnown
        /\ IF worker.step = 0 /\ IsDatingCluster
           THEN faults < MaxFaults /\ faults' = faults + 1
           ELSE UNCHANGED faults
        /\ LET r == Resources[worker.step + 1]
           IN  IF Refused(r)
               THEN UNCHANGED deployed /\ Goto("failRetry", worker.obj)
               ELSE /\ deployed' \in AfterCreate(r)
                    /\ IF worker.step + 1 < Len(Resources)
                       THEN worker' = [worker EXCEPT !.step = @ + 1] /\ UNCHANGED queue
                       ELSE Goto("add", worker.obj)
  /\ UNCHANGED <<frame, cr, pend, retry, reg, lost>>

\* AddInternalClusterWithScoutOpts: what an abnormal cluster costs is in
\* MultiCluster.
AddInternalCluster ==
  /\ worker.pc = "add"
  /\ IF reg = "healthy" \/ reach
     THEN /\ reg' = IF reg = None THEN "healthy" ELSE reg
          /\ Goto("scout", worker.obj)
     ELSE Goto("failEnqueue", worker.obj) /\ UNCHANGED reg
  /\ UNCHANGED <<frame, cr, pend, retry, deployed, faults, lost>>

StartScout ==
  /\ worker.pc = "scout"
  /\ IF reg = "healthy" THEN Done ELSE Goto("failRetry", worker.obj)
  /\ UNCHANGED <<frame, cr, pend, retry, reg, deployed, faults, lost>>

\* The state becomes initFailed, if that can be written, and the error is
\* returned or the cluster is given to the retry queue.
MarkInitFailed ==
  /\ worker.pc \in {"failRetry", "failEnqueue"}
  /\ \/ /\ IF cr = None THEN UNCHANGED <<cr, pend>> ELSE SetState("initFailed")
        /\ UNCHANGED faults
     \/ faults < MaxFaults /\ faults' = faults + 1 /\ UNCHANGED <<cr, pend>>
  /\ IF worker.pc = "failRetry" THEN Requeue ELSE Goto("enqueue", worker.obj)
  /\ UNCHANGED <<frame, retry, reg, deployed, lost>>

\* enqueue: LoadOrStore, and a goroutine if there was no entry.
Enqueue ==
  /\ worker.pc = "enqueue"
  /\ retry' = IF retry = None THEN [at |-> "wait", cancelled |-> FALSE] ELSE retry
  /\ Done
  /\ UNCHANGED <<frame, cr, pend, reg, deployed, faults, lost>>

\* removeFinalizer, up to deleteExternalResources.
MarkDeleting ==
  /\ worker.pc = "deleting"
  /\ IF cr = None THEN Requeue /\ UNCHANGED <<cr, pend>>
     ELSE SetState("deleting") /\ Goto("external", worker.obj)
  /\ UNCHANGED <<frame, retry, reg, deployed, faults, lost>>

\* (mutant of DeleteExternal: the retry task is left running)
DeleteExternalKeepingRetry ==
  /\ worker.pc = "external"
  /\ UNCHANGED retry
  /\ \/ (retry # None \/ reg = None) /\ Goto("unfinalize", worker.obj)
     \/ retry = None /\ reg = "abnormal" /\ Requeue
     \/ /\ retry = None /\ reg = "healthy"
        /\ Goto(IF Retain THEN "unregister" ELSE "namespace", worker.obj)
  /\ UNCHANGED <<frame, cr, pend, reg, deployed, faults, lost>>

\* (mutant of DeleteExternal: a cluster that is not registered is an error)
DeleteExternalNeedsCluster ==
  /\ worker.pc = "external"
  /\ IF retry # None
     THEN /\ retry' = [retry EXCEPT !.cancelled = TRUE]
          /\ Goto("unfinalize", worker.obj)
     ELSE /\ IF reg # "healthy" THEN Requeue
             ELSE Goto(IF Retain THEN "unregister" ELSE "namespace", worker.obj)
          /\ UNCHANGED retry
  /\ UNCHANGED <<frame, cr, pend, reg, deployed, faults, lost>>

\* deleteExternalResources: a cluster in the retry queue only has its task
\* stopped, an unhealthy one is an error, one that is not registered is done.
DeleteExternal ==
  /\ worker.pc = "external"
  /\ IF retry # None
     THEN /\ retry' = [retry EXCEPT !.cancelled = TRUE]
          /\ Goto("unfinalize", worker.obj)
     ELSE /\ IF reg = "abnormal" THEN Requeue
             ELSE IF reg = None THEN Goto("unfinalize", worker.obj)
             ELSE Goto(IF Retain THEN "unregister" ELSE "namespace", worker.obj)
          /\ UNCHANGED retry
  /\ UNCHANGED <<frame, cr, pend, reg, deployed, faults, lost>>

\* The namespace holds everything deployed but the webhook, and is Terminating
\* from now on; to delete it again until it is gone succeeds too.  An answer may
\* be lost; a namespace that is not found is logged, and returned as an error.
DeleteNamespace ==
  /\ worker.pc = "namespace"
  /\ IF reach /\ "deps" \in deployed
     THEN /\ nsEnding' = TRUE
          /\ \/ Goto("unregister", worker.obj) /\ UNCHANGED lost
             \/ lost < MaxLost /\ lost' = lost + 1 /\ Requeue
     ELSE Requeue /\ UNCHANGED <<nsEnding, lost>>
  /\ UNCHANGED <<cache, pivotKnown, reach, created, flips, expired,
                 cr, pend, retry, reg, deployed, faults>>

Unregister ==
  /\ worker.pc = "unregister"
  /\ reg' = None
  /\ Goto("unfinalize", worker.obj)
  /\ UNCHANGED <<frame, cr, pend, retry, deployed, faults, lost>>

\* The object is read again by its name.  Its last finalizer gone, so is an
\* object under deletion; one created since then is not.
RemoveFinalizer ==
  /\ worker.pc = "unfinalize"
  /\ IF cr = None THEN Requeue /\ UNCHANGED cr
     ELSE cr' = (IF cr.del THEN None ELSE [cr EXCEPT !.fin = FALSE]) /\ Done
  /\ UNCHANGED <<frame, pend, retry, reg, deployed, faults, lost>>

-----------------------------------------------------------------------------
(* The goroutine that retries to connect.                                  *)

retryFrame == <<cache, worker, pivotKnown, reg, reach, deployed, nsEnding, created, flips, faults, lost>>

\* The ticker fires every 7 seconds; select does not prefer a cancellation.
RetryConnects ==
  /\ retry # None
  /\ retry.at = "wait"
  /\ reach
  /\ retry' = [retry EXCEPT !.at = "send"]
  /\ UNCHANGED <<retryFrame, cr, pend, queue, expired>>

RetrySends ==
  /\ retry # None
  /\ retry.at = "send"
  /\ retry' = [retry EXCEPT !.at = "exit"]
  /\ queue' = TRUE
  /\ UNCHANGED <<retryFrame, cr, pend, expired>>

\* The context is cancelled, or at its deadline: the state is then written
\* with that context, which writes nothing.
RetryStops ==
  /\ retry # None
  /\ retry.at = "wait"
  /\ \/ retry.cancelled /\ UNCHANGED expired
     \/ expired < MaxExpired /\ expired' = expired + 1
  /\ retry' = [retry EXCEPT !.at = "exit"]
  /\ UNCHANGED <<retryFrame, cr, pend, queue>>

\* The deferred deletion from retryQueue.
RetryExits ==
  /\ retry # None
  /\ retry.at = "exit"
  /\ retry' = None
  /\ UNCHANGED <<retryFrame, cr, pend, queue, expired>>

-----------------------------------------------------------------------------
Environment ==
  \/ ClusterCreate \/ ClusterDelete \/ MemberFlips \/ PivotReconciled \/ Deliver
  \/ NamespaceEmpties \/ NamespaceGoes

TakeOver ==
  \/ EnsureFinalizer \/ MarkProcessing \/ TryConnect \/ Deploy
  \/ AddInternalCluster \/ StartScout \/ MarkInitFailed \/ Enqueue

CleanUp ==
  \/ MarkDeleting \/ DeleteExternal \/ DeleteNamespace \/ Unregister \/ RemoveFinalizer

RetryTask == RetryConnects \/ RetrySends \/ RetryStops \/ RetryExits

Next == Environment \/ Reconcile \/ TakeOver \/ CleanUp \/ CallFails \/ RetryTask

\* The informers, the worker and the retry goroutine run on; the pivot
\* cluster's own object is reconciled at some time.
Fairness ==
  /\ WF_vars(Deliver) /\ WF_vars(PivotReconciled)
  /\ WF_vars(Reconcile) /\ WF_vars(TakeOver) /\ WF_vars(CleanUp)
  /\ WF_vars(RetryTask)

Spec == Init /\ [][Next]_vars
FairSpec == Spec /\ Fairness

-----------------------------------------------------------------------------
(* Properties.                                                             *)

\* A retry task that was not told to stop has a Cluster object with the
\* finalizer, so that a deletion of the cluster meets removeFinalizer, which
\* stops the task (helper.go:136): whatever the informer still shows, and
\* however often the object was deleted and created again.
RetryHasObject ==
  retry # None /\ ~retry.cancelled => cr # None /\ cr.fin

\* No background task goes on retrying a cluster that was deleted.
RetryEnds == <>[](cr = None) => <>[](retry = None)

\* The namespace is gone although the cluster is still registered: an answer to
\* its deletion was lost, or the cluster was taken over again while the warden's
\* deployment was still there, in the namespace that was Terminating.
NamespaceIsGone == ~Retain /\ reg # None /\ "deps" \notin deployed

\* A deleted cluster's object goes away once the cluster is reachable, and not
\* declared abnormal, for long enough, whatever failed before and however often
\* the namespace is deleted while it is Terminating: but for a namespace that is
\* not found (helper.go:160-167).
DeletionCompletes ==
  <>[](reach /\ reg # "abnormal") => []<>(cr = None \/ ~cr.del \/ NamespaceIsGone)

\* helper.go:163 logs "namespace %v of cluster %v not found, delete skip": the
\* deletion goes on without it.
DeletionSkipsMissing ==
  <>[](reach /\ reg # "abnormal") => []<>(cr = None \/ ~cr.del)

\* helper.go:171, "delete internal cluster and release goroutine inside".
InternalClusterReleased == (cr = None /\ worker.pc = "idle") => reg = None

\* cluster_controller.go:176, "It enqueues a cluster for later reconciliation":
\* a cluster that can be connected to is taken over at last.
RetriedUntilTakenOver ==
  <>[](reach /\ cr # None /\ ~cr.del) => []<>(reg # None)

\* cluster_types.go:30, "ClusterReconnectedFailed happened when kubecube retry
\* connect with member cluster exceed".
DeadlineRecorded ==
  [](expired > 0 => <>(cr = None \/ cr.state # "initFailed"))

\* resources.go:147, "create validate webhook to target cluster": a cluster
\* that is taken over has everything that is deployed without a mere warning.
TakenOverIsDeployed ==
  worker.pc = "scout" => Kinds \ {"service"} \subseteq deployed
=============================================================================
