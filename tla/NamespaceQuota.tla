--------------------------- MODULE NamespaceQuota ---------------------------
(***************************************************************************)
(* The quota of a tenant in one cluster: a CubeResourceQuota in the pivot  *)
(* cluster, the parent, shared out to ResourceQuotas in namespaces of the  *)
(* member cluster, its children.                                           *)
(*                                                                         *)
(* The member cluster's warden admits the children by webhook against the  *)
(* parent's status, and its controller counts them there                   *)
(* (pkg/warden/localmgr, pkg/quota/k8s).  The parent has a webhook and a   *)
(* controller in the pivot cluster, which writes that status too           *)
(* (pkg/ctrlmgr, pkg/quota/cube).  Both controllers have one worker.       *)
(*                                                                         *)
(* One kind of resource stands for all, and every quota sets it.           *)
(***************************************************************************)
EXTENDS Integers, FiniteSets, FiniteSetsExt

CONSTANTS
  None,
  Children,    \* the names of the ResourceQuotas
  Hards,       \* what a child may ask for
  ParentHards, \* what the parent may be given
  MaxOps,      \* bound: creations and updates of children
  MaxEdits,    \* bound: updates of the parent
  MaxDrops     \* bound: deletions of the parent

ASSUME HardAssumption == Hards \subseteq Nat /\ ParentHards \subseteq Nat
ASSUME ChildrenAssumption == IsFiniteSet(Children)
ASSUME BoundAssumption == MaxOps \in Nat /\ MaxEdits \in Nat /\ MaxDrops \in Nat

Child == [uid : Nat, hard : Nat, fin : BOOLEAN, del : BOOLEAN]
Status == [hard : Nat \cup {None}, used : Nat \cup {None}, subs : SUBSET Children]
Parent == [hard : Nat, fin : BOOLEAN, del : BOOLEAN, status : Status]

ASSUME NoneAssumption == None \notin Child \cup Parent \cup Status \cup Nat \cup Children

VARIABLES
  child,       \* child[k]: the ResourceQuota k
  review,      \* review[k]: a write of k the webhook has let pass
  seen,        \* seen[k]: the ResourceQuota k in the warden's informer
  events,      \* children with an event that passes the predicates
  queue,       \* the warden's queue
  worker,      \* the warden's reconciliation in progress
  parent,      \* the CubeResourceQuota
  pSeen,       \* the CubeResourceQuota in the pivot's informer
  pEvent,      \* an event of it that passes the predicates is under way
  pQueue,      \* it is in the pivot controller's queue
  pWorker,     \* the pivot controller's reconciliation in progress
  ops, edits, drops

wardenVars == <<seen, events, queue, worker>>
pivotVars == <<pSeen, pEvent, pQueue, pWorker>>
bounds == <<ops, edits, drops>>
vars == <<child, review, parent, wardenVars, pivotVars, bounds>>

AtRest == [pc |-> "idle", key |-> None, obj |-> None, status |-> None]
PAtRest == [pc |-> "idle", obj |-> None]

NoStatus == [hard |-> None, used |-> None, subs |-> {}]

\* What the hards in f, one for each child, come to.
Total(f) == MapThenSumSet(LAMBDA k : f[k], DOMAIN f)

\* The parent has just been created.
Init ==
  /\ child = [k \in Children |-> None]
  /\ review = [k \in Children |-> None]
  /\ seen = child
  /\ events = {} /\ queue = {}
  /\ worker = AtRest
  /\ \E h \in ParentHards :
       parent = [hard |-> h, fin |-> FALSE, del |-> FALSE, status |-> NoStatus]
  /\ pSeen = parent
  /\ pEvent = FALSE /\ pQueue = TRUE
  /\ pWorker = PAtRest
  /\ ops = 0 /\ edits = 0 /\ drops = 0

-----------------------------------------------------------------------------
(* Users, and the webhooks their requests pass.                            *)

\* (mutant of Overload: the old value of the child is not taken off)
OverloadByTotal(current, old) ==
  \/ parent.status.used = None
  \/ parent.status.used + current > parent.hard

\* isExceedParent: current is asked for where old was counted.
Overload(current, old) ==
  \/ parent.status.used = None
  \/ LET used == parent.status.used + (current - old)
     IN  used > parent.hard \/ used < 0

\* The webhook of the member cluster reads the parent; one it cannot find is
\* an error.  The write itself comes later.
Admits(current, old) == parent # None /\ ~Overload(current, old)

Review(k) ==
  /\ review[k] = None
  /\ ops < MaxOps
  /\ ops' = ops + 1
  /\ \E h \in Hards :
       /\ child[k] # None => h # child[k].hard
       /\ Admits(h, IF child[k] = None THEN 0 ELSE child[k].hard)
       /\ review' = [review EXCEPT ![k] = [hard |-> h, old |-> child[k]]]
  /\ UNCHANGED <<child, parent, wardenVars, pivotVars, edits, drops>>

\* A write that finds another version of the object fails.
Persist(k) ==
  /\ review[k] # None
  /\ IF child[k] = review[k].old
     THEN /\ child' = [child EXCEPT ![k] =
                         IF @ = None
                         THEN [uid |-> ops, hard |-> review[k].hard, fin |-> FALSE, del |-> FALSE]
                         ELSE [@ EXCEPT !.hard = review[k].hard]]
          /\ events' = events \cup {k}
     ELSE UNCHANGED <<child, events>>
  /\ review' = [review EXCEPT ![k] = None]
  /\ UNCHANGED <<parent, seen, queue, worker, pivotVars, bounds>>

ChildDelete(k) ==
  /\ child[k] # None
  /\ ~child[k].del
  /\ child' = [child EXCEPT ![k] = IF @.fin THEN [@ EXCEPT !.del = TRUE] ELSE None]
  /\ events' = events \cup {k}
  /\ UNCHANGED <<review, parent, seen, queue, worker, pivotVars, bounds>>

AllowedUpdate(hard) == parent.status.used # None => hard >= parent.status.used

ParentEdit ==
  /\ parent # None
  /\ edits < MaxEdits
  /\ edits' = edits + 1
  /\ \E h \in ParentHards \ {parent.hard} :
       AllowedUpdate(h) /\ parent' = [parent EXCEPT !.hard = h]
  /\ pEvent' = TRUE
  /\ UNCHANGED <<child, review, wardenVars, pSeen, pQueue, pWorker, ops, drops>>

AllowedDel == parent.status.subs = {}

ParentDelete ==
  /\ parent # None
  /\ ~parent.del
  /\ AllowedDel
  /\ drops < MaxDrops
  /\ drops' = drops + 1
  /\ parent' = IF parent.fin THEN [parent EXCEPT !.del = TRUE] ELSE None
  /\ pEvent' = TRUE
  /\ UNCHANGED <<child, review, wardenVars, pSeen, pQueue, pWorker, ops, edits>>

-----------------------------------------------------------------------------
(* The warden's controller of the children.                                *)

wardenFrame == <<review, pivotVars, bounds>>

Deliver(k) ==
  /\ seen[k] # child[k] \/ k \in events
  /\ seen' = [seen EXCEPT ![k] = child[k]]
  /\ events' = events \ {k}
  /\ queue' = IF k \in events THEN queue \cup {k} ELSE queue
  /\ UNCHANGED <<wardenFrame, child, parent, worker>>

Goto(pc) == worker' = [worker EXCEPT !.pc = pc] /\ UNCHANGED queue
Done == worker' = AtRest /\ UNCHANGED queue
Requeue == worker' = AtRest /\ queue' = queue \cup {worker.key}

Reconcile(k) ==
  /\ worker.pc = "idle"
  /\ k \in queue
  /\ queue' = queue \ {k}
  /\ LET obj == seen[k]
     IN  worker' = IF obj = None \/ (obj.del /\ ~obj.fin) THEN AtRest
                   ELSE [pc |-> IF obj.fin THEN "read" ELSE "finalizer",
                         key |-> k, obj |-> obj, status |-> None]
  /\ UNCHANGED <<wardenFrame, child, parent, seen, events>>

\* A write of the controller passes the webhook too, which finds no change.
EnsureFinalizer ==
  LET k == worker.key
  IN  /\ worker.pc = "finalizer"
      /\ IF child[k] # None /\ seen[k] = child[k] /\ Admits(child[k].hard, child[k].hard)
         THEN child' = [child EXCEPT ![k].fin = TRUE] /\ Goto("read")
         ELSE Requeue /\ UNCHANGED child
      /\ UNCHANGED <<wardenFrame, parent, seen, events>>

\* (mutant of ReadParent: a child under deletion is listed again)
ReadParentListing ==
  /\ worker.pc = "read"
  /\ IF parent = None THEN Requeue
     ELSE /\ worker' = [worker EXCEPT !.pc = "refresh",
                          !.status = [parent.status EXCEPT !.subs = @ \cup {worker.key}]]
          /\ UNCHANGED queue
  /\ UNCHANGED <<wardenFrame, child, parent, seen, events>>

\* UpdateParentStatus: the child is listed, or not when it is under deletion.
ReadParent ==
  /\ worker.pc = "read"
  /\ IF parent = None THEN Requeue
     ELSE /\ worker' = [worker EXCEPT !.pc = "refresh",
                          !.status = [parent.status EXCEPT
                            !.subs = IF worker.obj.del THEN @ \ {worker.key}
                                                       ELSE @ \cup {worker.key}]]
          /\ UNCHANGED queue
  /\ UNCHANGED <<wardenFrame, child, parent, seen, events>>

\* refreshUsedResource: the child at hand is counted as it was read, another
\* one as the informer shows it, one the informer does not show is dropped.
Counted(k, obj, subs) ==
  Total([j \in subs |-> IF j = k THEN obj.hard ELSE seen[j].hard])

Refresh ==
  LET k == worker.key
      subs == {j \in worker.status.subs : j = k \/ seen[j] # None}
      used == IF worker.status.used = None THEN None ELSE Counted(k, worker.obj, subs)
  IN  /\ worker.pc = "refresh"
      /\ worker' = [worker EXCEPT !.pc = "write",
           !.status = [hard |-> worker.status.hard, used |-> used, subs |-> subs]]
      /\ UNCHANGED <<wardenFrame, child, parent, seen, events, queue>>

\* The status is replaced, whatever it has become since it was read.  The
\* pivot's predicates let every event of a parent under deletion pass.
SetStatus(status) ==
  /\ parent' = [parent EXCEPT !.status = status]
  /\ pEvent' = (pEvent \/ parent.del)

WriteStatus ==
  /\ worker.pc = "write"
  /\ IF parent = None THEN Requeue /\ UNCHANGED <<parent, pEvent>>
     ELSE /\ SetStatus(worker.status)
          /\ IF worker.obj.del THEN Goto("unfinalize") ELSE Done
  /\ UNCHANGED <<child, review, seen, events, pSeen, pQueue, pWorker, bounds>>

RemoveFinalizer ==
  LET k == worker.key
  IN  /\ worker.pc = "unfinalize"
      /\ IF child[k] = worker.obj /\ Admits(worker.obj.hard, worker.obj.hard)
         THEN /\ child' = [child EXCEPT ![k] = None]
              /\ events' = events \cup {k}
              /\ Done
         ELSE Requeue /\ UNCHANGED <<child, events>>
      /\ UNCHANGED <<wardenFrame, parent, seen>>

-----------------------------------------------------------------------------
(* The pivot cluster's controller of the parent.                           *)

pivotFrame == <<child, review, wardenVars, bounds>>

PDeliver ==
  /\ pSeen # parent \/ pEvent
  /\ pSeen' = parent
  /\ pEvent' = FALSE
  /\ pQueue' = (pQueue \/ pEvent)
  /\ UNCHANGED <<pivotFrame, parent, pWorker>>

PGoto(pc, obj) == pWorker' = [pc |-> pc, obj |-> obj] /\ UNCHANGED pQueue
PDone == pWorker' = PAtRest /\ UNCHANGED pQueue
PRequeue == pWorker' = PAtRest /\ pQueue' = TRUE

PReconcile ==
  /\ pWorker.pc = "idle"
  /\ pQueue
  /\ pQueue' = FALSE
  /\ pWorker' = IF pSeen = None \/ (pSeen.del /\ ~pSeen.fin) THEN PAtRest
                ELSE [pc |-> IF pSeen.del THEN "unfinalize"
                             ELSE IF pSeen.fin THEN "status" ELSE "finalizer",
                      obj |-> pSeen]
  /\ UNCHANGED <<pivotFrame, parent, pSeen, pEvent>>

PEnsureFinalizer ==
  /\ pWorker.pc = "finalizer"
  /\ IF parent # None /\ parent = pWorker.obj /\ AllowedUpdate(parent.hard)
     THEN /\ parent' = [parent EXCEPT !.fin = TRUE]
          /\ PGoto("status", parent')
     ELSE PRequeue /\ UNCHANGED parent
  /\ UNCHANGED <<pivotFrame, pSeen, pEvent>>

\* initCubeQuotaStatus and ensureSpecAndStatusConsistent: at most one of them
\* has a status to write, and it replaces the parent's.
InitStatus(obj) == [hard |-> obj.hard, used |-> 0, subs |-> {}]

PStatus ==
  LET obj == pWorker.obj
      new == IF obj.status.used = None \/ obj.status.hard = None THEN InitStatus(obj)
             ELSE [obj.status EXCEPT !.hard = obj.hard]
  IN  /\ pWorker.pc = "status"
      /\ IF new = obj.status THEN PDone /\ UNCHANGED <<parent, pEvent>>
         ELSE IF parent = None THEN PRequeue /\ UNCHANGED <<parent, pEvent>>
         ELSE PDone /\ SetStatus(new)
      /\ UNCHANGED <<pivotFrame, pSeen>>

PRemoveFinalizer ==
  /\ pWorker.pc = "unfinalize"
  /\ IF parent # None /\ parent = pWorker.obj /\ AllowedUpdate(parent.hard)
     THEN parent' = None /\ pEvent' = TRUE /\ PDone
     ELSE PRequeue /\ UNCHANGED <<parent, pEvent>>
  /\ UNCHANGED <<pivotFrame, pSeen>>

-----------------------------------------------------------------------------
Users ==
  \/ \E k \in Children : Review(k) \/ Persist(k) \/ ChildDelete(k)
  \/ ParentEdit \/ ParentDelete

Warden ==
  \/ \E k \in Children : Reconcile(k)
  \/ EnsureFinalizer \/ ReadParent \/ Refresh \/ WriteStatus \/ RemoveFinalizer

Pivot == PReconcile \/ PEnsureFinalizer \/ PStatus \/ PRemoveFinalizer

Next == Users \/ Warden \/ Pivot \/ PDeliver \/ \E k \in Children : Deliver(k)

\* The informers deliver, the queues are served in turn, the workers go on.
Fairness ==
  /\ \A k \in Children : WF_vars(Deliver(k)) /\ SF_vars(Reconcile(k)) /\ WF_vars(Persist(k))
  /\ WF_vars(Warden) /\ WF_vars(PDeliver) /\ WF_vars(Pivot)

Spec == Init /\ [][Next]_vars
FairSpec == Spec /\ Fairness

-----------------------------------------------------------------------------
(* Properties.                                                             *)

\* What the children that exist ask for.
Asked == Total([k \in {j \in Children : child[j] # None} |-> child[k].hard])

Overloaded == parent.status.used # None /\ parent.status.used > parent.hard

\* A child that is gone is not in the parent's list any more, which would keep
\* the parent from being deleted: the finalizer is set before the child is
\* listed and removed after it was taken off (quota_controller.go:71), while
\* the parent's own controller initialises the same status.  When the parent's hard
\* was edited that controller may write an old list back.
ListedExist ==
  parent # None =>
    \A k \in parent.status.subs : child[k] # None /\ child[k].fin
NoPhantomChild == edits = 0 => ListedExist

\* The warden has handled every event of a child and is not at work.
Handled == events = {} /\ queue = {} /\ worker.pc = "idle"

\* What the warden leaves when it has handled everything: a parent that lists and
\* counts the children that exist and no others, as they are, once its own
\* controller has initialised it and as long as its hard was not edited; no child is
\* under deletion (Reconcile and refreshUsedResource).
ParentIsExact ==
  edits = 0 /\ Handled /\ parent # None =>
    /\ parent.status.subs = {k \in Children : child[k] # None}
    /\ parent.status = NoStatus \/ parent.status.used = Asked
    /\ \A k \in Children : child[k] # None => ~child[k].del

\* Once the children stay as they are, the parent's used is what they ask for,
\* though each count is made from an informer that may lag: unless admissions
\* that overtook each other have overloaded the parent for good, or its hard was edited.
UsedSettles ==
  <>[](edits = 0 /\ parent # None /\ ~parent.del /\ ~Overloaded)
    => <>[](parent # None /\ parent.status.used = Asked)

\* A child under deletion goes, as long as its parent is there and not
\* overloaded.
ChildDeletionCompletes ==
  \A k \in Children :
    <>[](parent # None /\ ~Overloaded) => []<>(child[k] = None \/ ~child[k].del)

\* cuberesourcequota_types.go:61, "Used is the current observed total usage of
\* the resource in the namespace", also after the parent was updated.
UsedIsObserved ==
  <>[](parent # None /\ ~parent.del /\ ~Overloaded)
    => <>[](parent # None /\ parent.status.used = Asked)

\* cuberesourcequota_types.go:57, "Hard is the set of enforced hard limits for
\* each named resource".
HardIsEnforced == parent # None => Asked <= parent.hard

\* cube_resource_quota_v.go:86, "must delete sub resource of cube resource
\* quota %v first".
ParentOutlivesChildren == parent = None => \A k \in Children : child[k] = None
=============================================================================
