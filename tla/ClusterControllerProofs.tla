----------------------- MODULE ClusterControllerProofs -----------------------
(***************************************************************************)
(* Proofs about ClusterController, for any flags and bounds: types, and    *)
(* that a retry task always has an object whose deletion stops it.         *)
(***************************************************************************)
EXTENDS ClusterController, TLAPS

-----------------------------------------------------------------------------
(* The inductive invariant.                                                *)

Busy == {"processing", "connect", "deploy", "add", "scout",
         "failRetry", "failEnqueue", "enqueue"}
Cleaning == {"deleting", "external", "namespace", "unregister", "unfinalize"}

\* Nothing known of o keeps it from being removed.
Removable(o) == o = None \/ o.del \/ ~o.fin

UidInv ==
  /\ cr # None => cr.uid <= created
  /\ cache # None => cache.uid <= created
  /\ worker.obj # None => worker.obj.uid <= created

\* The finalizer is only written to an object the informer has shown, and the
\* informer, which may lag, shows no finalizer or deletion too early.
CacheInv ==
  /\ (cr # None /\ cr.fin) => (cache # None /\ cache.uid = cr.uid)
  /\ (cr # None /\ cache # None /\ cache.uid = cr.uid)
       => (cache.del => cr.del) /\ (cache.fin => cr.fin)
  /\ (cache # None /\ cache.fin /\ ~cache.del) => (cr # None /\ cr.uid = cache.uid)

\* The finalizer is on the object before the cluster is taken over and stays
\* until the reconciler itself has cleaned up.
WorkerInv ==
  /\ worker.pc = "finalizer" =>
       /\ worker.obj # None /\ ~worker.obj.del
       /\ cr = worker.obj => cache # None /\ cache.uid = cr.uid
  /\ worker.pc \in Busy => cr # None /\ cr.fin
  /\ worker.pc \in Cleaning => Removable(cr) /\ Removable(cache)
  /\ worker.pc \in {"namespace", "unregister", "unfinalize"}
       => retry = None \/ retry.cancelled

IInv == TypeOK /\ UidInv /\ CacheInv /\ WorkerInv /\ RetryHasObject

-----------------------------------------------------------------------------
(* Lemmas on the types.                                                    *)

USE FlagAssumption, BoundAssumption, NoneAssumption

LEMMA ResourceTypes ==
  Len(Resources) = 5 /\ \A n \in 1 .. 5 : Resources[n] \in Kinds
  BY DEF Resources, Kinds

LEMMA RestTyped == AtRest \in Reconciliation
  BY ResourceTypes DEF AtRest, Reconciliation, Phase

LEMMA GotoTyped ==
  ASSUME NEW pc \in Phase, NEW o \in Object \cup {None}
  PROVE  [pc |-> pc, obj |-> o, step |-> 0] \in Reconciliation
  BY ResourceTypes DEF Reconciliation

LEMMA Moves ==
  ASSUME TypeOK, NEW pc \in Phase, Goto(pc, worker.obj)
  PROVE  /\ worker' \in Reconciliation /\ queue' \in BOOLEAN
         /\ worker'.pc = pc /\ worker'.obj = worker.obj
<1>1. worker.obj \in Object \cup {None} /\ queue \in BOOLEAN
  BY DEF TypeOK, Reconciliation
<1>2. QED BY <1>1, GotoTyped DEF Goto

LEMMA Ends ==
  ASSUME TypeOK, Requeue \/ Done
  PROVE  /\ worker' \in Reconciliation /\ queue' \in BOOLEAN
         /\ worker'.pc = "idle" /\ worker'.obj = None
<1>1. worker' = AtRest /\ queue' \in BOOLEAN
  <2>1. queue \in BOOLEAN
    BY DEF TypeOK
  <2>2. CASE Requeue
    BY <2>2 DEF Requeue
  <2>3. CASE Done
    BY <2>1, <2>3 DEF Done
  <2>4. QED BY <2>2, <2>3
<1>2. QED BY <1>1, RestTyped DEF AtRest

\* SetState keeps what the invariant is about.
LEMMA SetStateKeeps ==
  ASSUME cr \in Object, pend \in BOOLEAN, NEW st \in State, SetState(st)
  PROVE  /\ cr' \in Object /\ pend' \in BOOLEAN
         /\ cr'.uid = cr.uid /\ cr'.fin = cr.fin /\ cr'.del = cr.del
  BY DEF SetState, Object

-----------------------------------------------------------------------------
(* Steps by what they change of the state the invariant is about.          *)

LEMMA Elsewhere ==
  ASSUME IInv, TypeOK', UNCHANGED <<cr, cache, retry, created, worker>>
  PROVE  IInv'
  BY DEF IInv, UidInv, CacheInv, WorkerInv, Removable, RetryHasObject

\* A reconciliation that goes on, or ends, without a change to the object.
LEMMA GoesOn ==
  ASSUME IInv, TypeOK', UNCHANGED <<cr, cache, retry, created>>,
         worker'.obj \in {worker.obj, None},
         worker'.pc # "finalizer",
         worker'.pc \in Busy => worker.pc \in Busy,
         worker'.pc \in Cleaning => worker.pc \in Cleaning,
         worker'.pc \in {"namespace", "unregister", "unfinalize"}
           => retry = None \/ retry.cancelled
  PROVE  IInv'
<1> USE DEF IInv
<1>1. UidInv'
  BY DEF UidInv
<1>2. CacheInv' /\ RetryHasObject'
  BY DEF CacheInv, RetryHasObject
<1>3. WorkerInv'
  BY DEF WorkerInv, Removable
<1>4. QED BY <1>1, <1>2, <1>3

\* A reconciliation that also writes the state of the object, if there is one.
LEMMA WritesState ==
  ASSUME IInv, TypeOK', UNCHANGED <<cache, retry, created>>,
         cr # None, cr' # None,
         cr'.uid = cr.uid, cr'.fin = cr.fin, cr'.del = cr.del,
         worker.pc # "finalizer",
         worker'.obj \in {worker.obj, None},
         worker'.pc # "finalizer",
         worker'.pc \in Busy => worker.pc \in Busy,
         worker'.pc \in Cleaning => worker.pc \in Cleaning,
         worker'.pc \notin {"namespace", "unregister", "unfinalize"}
  PROVE  IInv'
<1> USE DEF IInv
<1>1. UidInv'
  BY DEF UidInv
<1>2. CacheInv' /\ RetryHasObject'
  BY DEF CacheInv, RetryHasObject
<1>3. WorkerInv'
  BY DEF WorkerInv, Removable
<1>4. QED BY <1>1, <1>2, <1>3

-----------------------------------------------------------------------------
(* The environment's actions.                                              *)

LEMMA ClusterCreateStep == IInv /\ ClusterCreate => IInv'
<1> SUFFICES ASSUME IInv, ClusterCreate PROVE IInv'
  OBVIOUS
<1> USE DEF IInv, ClusterCreate
<1>1. cr' \in Object /\ cr'.uid = created + 1 /\ ~cr'.fin /\ ~cr'.del
  BY DEF TypeOK, NewObject, Object, State
<1>2. TypeOK'
  BY <1>1 DEF TypeOK
<1>3. UidInv'
  BY <1>1 DEF UidInv, TypeOK, Object, Reconciliation
<1>4. CacheInv'
  BY <1>1 DEF UidInv, CacheInv, TypeOK, Object
<1>5. WorkerInv'
  BY <1>1 DEF UidInv, WorkerInv, Removable, TypeOK, Object, Reconciliation
<1>6. RetryHasObject'
  BY <1>1 DEF RetryHasObject
<1>7. QED BY <1>2, <1>3, <1>4, <1>5, <1>6

LEMMA ClusterDeleteStep == IInv /\ ClusterDelete => IInv'
<1> SUFFICES ASSUME IInv, ClusterDelete PROVE IInv'
  OBVIOUS
<1> USE DEF IInv, ClusterDelete
<1>1. CASE cr.fin
  <2>1. cr' \in Object /\ cr'.uid = cr.uid /\ cr'.fin /\ cr'.del
    BY <1>1 DEF TypeOK, Object
  <2>2. TypeOK'
    BY <2>1 DEF TypeOK, bounds
  <2>3. UidInv' /\ CacheInv' /\ RetryHasObject'
    BY <1>1, <2>1 DEF UidInv, CacheInv, RetryHasObject, bounds
  <2>4. WorkerInv'
    BY <1>1, <2>1 DEF WorkerInv, Removable
  <2>5. QED BY <2>2, <2>3, <2>4
<1>2. CASE ~cr.fin
  <2>1. cr' = None
    BY <1>2
  <2>2. TypeOK'
    BY <2>1 DEF TypeOK, Object, bounds
  <2>3. UidInv' /\ CacheInv' /\ RetryHasObject'
    BY <1>2, <2>1 DEF UidInv, CacheInv, RetryHasObject, bounds
  <2>4. WorkerInv'
    BY <1>2, <2>1 DEF WorkerInv, Removable
  <2>5. QED BY <2>2, <2>3, <2>4
<1>3. QED BY <1>1, <1>2

LEMMA MemberFlipsStep == IInv /\ MemberFlips => IInv'
<1> SUFFICES ASSUME IInv, MemberFlips PROVE IInv'
  OBVIOUS
<1>1. reg' \in {None, "healthy", "abnormal"}
  BY DEF IInv, TypeOK, MemberFlips
<1>2. reach' \in BOOLEAN
  <2>1. reach \in BOOLEAN /\ (reach' = ~reach \/ reach' = reach)
    BY DEF IInv, TypeOK, MemberFlips
  <2>2. QED BY <2>1
<1>3. flips' \in Nat
  BY DEF IInv, TypeOK, MemberFlips
<1>4. TypeOK'
  BY <1>1, <1>2, <1>3 DEF IInv, TypeOK, MemberFlips
<1>5. QED BY <1>4, Elsewhere DEF MemberFlips

LEMMA PivotReconciledStep == IInv /\ PivotReconciled => IInv'
<1> SUFFICES ASSUME IInv, PivotReconciled PROVE IInv'
  OBVIOUS
<1>1. TypeOK'
  BY DEF IInv, TypeOK, PivotReconciled, bounds
<1>2. QED BY <1>1, Elsewhere DEF PivotReconciled, bounds

LEMMA NamespaceStep == IInv /\ (NamespaceEmpties \/ NamespaceGoes) => IInv'
<1> SUFFICES ASSUME IInv, NamespaceEmpties \/ NamespaceGoes PROVE IInv'
  OBVIOUS
<1>1. deployed' \in SUBSET Kinds /\ nsEnding' \in BOOLEAN
  BY DEF IInv, TypeOK, NamespaceEmpties, NamespaceGoes
<1>2. TypeOK'
  BY <1>1 DEF IInv, TypeOK, NamespaceEmpties, NamespaceGoes, bounds
<1>3. QED BY <1>2, Elsewhere DEF NamespaceEmpties, NamespaceGoes, bounds

LEMMA DeliverStep == IInv /\ Deliver => IInv'
<1> SUFFICES ASSUME IInv, Deliver PROVE IInv'
  OBVIOUS
<1> USE DEF IInv, Deliver, bounds
<1>1. TypeOK'
  BY DEF TypeOK
<1>2. UidInv' /\ CacheInv' /\ RetryHasObject'
  BY DEF UidInv, CacheInv, RetryHasObject
<1>3. WorkerInv'
  BY DEF WorkerInv, Removable
<1>4. QED BY <1>1, <1>2, <1>3

-----------------------------------------------------------------------------
(* The reconciler's actions.                                               *)

LEMMA ReconcileStep == IInv /\ Reconcile => IInv'
<1> SUFFICES ASSUME IInv, Reconcile PROVE IInv'
  OBVIOUS
<1> USE DEF IInv, Reconcile, frame
<1>1. /\ worker'.obj \in {cache, None}
      /\ worker'.pc \in {"idle", "finalizer", "processing", "deleting"}
      /\ worker'.pc = "finalizer"
           => worker'.obj = cache /\ cache # None /\ ~cache.del
      /\ worker'.pc = "processing" => cache # None /\ cache.fin /\ ~cache.del
      /\ worker'.pc = "deleting" => cache # None /\ cache.del
      /\ worker' \in Reconciliation
  <2>1. CASE cache = None
    BY <2>1, RestTyped DEF AtRest
  <2>2. CASE cache # None
    <3>1. /\ {"idle", "finalizer", "processing", "deleting"} \subseteq Phase
          /\ cache \in Object
      BY <2>2 DEF TypeOK, Phase
    <3>2. worker' \in Reconciliation
      BY <2>2, <3>1, GotoTyped
    <3>3. QED BY <2>2, <3>2
  <2>3. QED BY <2>1, <2>2
<1>2. TypeOK'
  BY <1>1 DEF TypeOK
<1>3. UidInv'
  BY <1>1 DEF UidInv
<1>4. CacheInv' /\ RetryHasObject'
  BY DEF CacheInv, RetryHasObject
<1>5. WorkerInv'
  BY <1>1 DEF WorkerInv, CacheInv, Busy, Cleaning, Removable
<1>6. QED BY <1>2, <1>3, <1>4, <1>5

LEMMA EnsureFinalizerStep == IInv /\ EnsureFinalizer => IInv'
<1> SUFFICES ASSUME IInv, EnsureFinalizer PROVE IInv'
  OBVIOUS
<1> USE DEF IInv, EnsureFinalizer, frame
<1>1. CASE cr = worker.obj
  <2>1. cr \in Object /\ ~cr.del /\ cache # None /\ cache.uid = cr.uid
    BY <1>1 DEF TypeOK, WorkerInv
  <2>2. cr' \in Object /\ cr'.uid = cr.uid /\ cr'.fin /\ ~cr'.del
    BY <1>1, <2>1 DEF Object
  <2>3. worker' \in Reconciliation /\ worker'.pc = "processing" /\ worker'.obj = cr'
    BY <1>1, <2>2, GotoTyped DEF Goto, Phase
  <2>4. TypeOK'
    BY <1>1, <2>2, <2>3 DEF TypeOK, Goto
  <2>5. UidInv'
    BY <2>1, <2>2, <2>3 DEF UidInv
  <2>6. CacheInv' /\ RetryHasObject'
    BY <2>1, <2>2 DEF CacheInv, RetryHasObject
  <2>7. WorkerInv'
    BY <2>2, <2>3 DEF WorkerInv, Cleaning
  <2>8. QED BY <2>4, <2>5, <2>6, <2>7
<1>2. CASE cr # worker.obj
  <2>1. worker'.obj = None /\ worker'.pc = "idle" /\ worker' \in Reconciliation
    BY <1>2, RestTyped DEF Requeue, AtRest
  <2>2. TypeOK'
    BY <1>2, <2>1 DEF TypeOK, Requeue
  <2>3. QED BY <1>2, <2>1, <2>2, GoesOn DEF Busy, Cleaning
<1>3. QED BY <1>1, <1>2

LEMMA MarkProcessingStep == IInv /\ MarkProcessing => IInv'
<1> SUFFICES ASSUME IInv, MarkProcessing PROVE IInv'
  OBVIOUS
<1> USE DEF IInv, MarkProcessing, frame
<1>1. cr # None /\ cr \in Object /\ SetState("processing") /\ Goto("connect", worker.obj)
  BY DEF TypeOK, WorkerInv, Busy
<1>2. /\ cr' \in Object /\ pend' \in BOOLEAN
      /\ cr'.uid = cr.uid /\ cr'.fin = cr.fin /\ cr'.del = cr.del
  BY <1>1, SetStateKeeps DEF State, TypeOK
<1>3. worker'.pc = "connect" /\ worker'.obj = worker.obj /\ worker' \in Reconciliation
  BY <1>1, GotoTyped DEF Goto, Phase, TypeOK, Reconciliation
<1>4. TypeOK'
  BY <1>1, <1>2, <1>3 DEF TypeOK, Goto
<1>5. QED BY <1>1, <1>2, <1>3, <1>4, WritesState DEF Busy, Cleaning

LEMMA TryConnectStep == IInv /\ TryConnect => IInv'
<1> SUFFICES ASSUME IInv, TryConnect PROVE IInv'
  OBVIOUS
<1> USE DEF TryConnect, frame
<1>1. /\ worker'.pc \in {"deploy", "failEnqueue"} /\ worker'.obj = worker.obj
      /\ worker' \in Reconciliation
  BY GotoTyped DEF IInv, Goto, Phase, TypeOK, Reconciliation
<1>2. TypeOK'
  BY <1>1 DEF IInv, TypeOK, Goto
<1>3. QED BY <1>1, <1>2, GoesOn DEF Busy, Cleaning

LEMMA DeployStep == IInv /\ Deploy => IInv'
<1> SUFFICES ASSUME IInv, Deploy PROVE IInv'
  OBVIOUS
<1> USE DEF Deploy, frame
<1>0. worker \in Reconciliation /\ worker.step \in 0 .. 4
  BY ResourceTypes DEF IInv, TypeOK, Reconciliation
<1>1. /\ worker'.pc \in {"deploy", "add", "failRetry"} /\ worker'.obj = worker.obj
      /\ worker' \in Reconciliation
      /\ UNCHANGED queue
  <2>1. TypeOK /\ {"add", "failRetry"} \subseteq Phase
    BY DEF IInv, Phase
  <2>2. CASE Goto("add", worker.obj) \/ Goto("failRetry", worker.obj)
    BY <2>1, <2>2, Moves DEF Goto
  <2>3. CASE /\ worker.step + 1 < Len(Resources)
             /\ worker' = [worker EXCEPT !.step = @ + 1] /\ UNCHANGED queue
    BY <1>0, <2>3, ResourceTypes DEF Reconciliation
  <2>4. QED BY <2>2, <2>3, Zenon
<1>2. deployed' \in SUBSET Kinds
  <2>1. Resources[worker.step + 1] \in Kinds
    BY <1>0, ResourceTypes
  <2>2. deployed \in SUBSET Kinds
    BY DEF IInv, TypeOK
  <2>3. deployed' = deployed \/ deployed' = deployed \cup {Resources[worker.step + 1]}
    BY DEF AfterCreate
  <2>4. QED BY <2>1, <2>2, <2>3
<1>3. faults' \in Nat
  BY DEF IInv, TypeOK
<1>4. TypeOK'
  BY <1>1, <1>2, <1>3 DEF IInv, TypeOK
<1>5. QED BY <1>1, <1>4, GoesOn DEF Busy, Cleaning

LEMMA AddInternalClusterStep == IInv /\ AddInternalCluster => IInv'
<1> SUFFICES ASSUME IInv, AddInternalCluster PROVE IInv'
  OBVIOUS
<1> USE DEF AddInternalCluster, frame
<1>1. /\ worker'.pc \in {"scout", "failEnqueue"} /\ worker'.obj = worker.obj
      /\ worker' \in Reconciliation
      /\ UNCHANGED queue
  BY GotoTyped DEF IInv, Goto, Phase, TypeOK, Reconciliation
<1>2. TypeOK'
  BY <1>1 DEF IInv, TypeOK
<1>3. QED BY <1>1, <1>2, GoesOn DEF Busy, Cleaning

LEMMA StartScoutStep == IInv /\ StartScout => IInv'
<1> SUFFICES ASSUME IInv, StartScout PROVE IInv'
  OBVIOUS
<1> USE DEF StartScout, frame
<1>1. /\ worker'.pc \in {"idle", "failRetry"} /\ worker'.obj \in {worker.obj, None}
      /\ worker' \in Reconciliation
      /\ UNCHANGED queue
  BY GotoTyped, RestTyped DEF IInv, Goto, Done, AtRest, Phase, TypeOK, Reconciliation
<1>2. TypeOK'
  BY <1>1 DEF IInv, TypeOK
<1>3. QED BY <1>1, <1>2, GoesOn DEF Busy, Cleaning

LEMMA MarkInitFailedStep == IInv /\ MarkInitFailed => IInv'
<1> SUFFICES ASSUME IInv, MarkInitFailed PROVE IInv'
  OBVIOUS
<1> USE DEF MarkInitFailed, frame
<1>1. cr # None /\ cr \in Object
  BY DEF IInv, TypeOK, WorkerInv, Busy
<1>2. /\ cr' \in Object /\ pend' \in BOOLEAN
      /\ cr'.uid = cr.uid /\ cr'.fin = cr.fin /\ cr'.del = cr.del
      /\ faults' \in Nat
  <2>1. CASE SetState("initFailed") /\ UNCHANGED faults
    BY <1>1, <2>1, SetStateKeeps DEF State, IInv, TypeOK
  <2>2. CASE UNCHANGED <<cr, pend>> /\ faults' = faults + 1
    BY <1>1, <2>2 DEF IInv, TypeOK
  <2>3. QED BY <1>1, <2>1, <2>2
<1>3. /\ worker'.pc \in {"idle", "enqueue"} /\ worker'.obj \in {worker.obj, None}
      /\ worker' \in Reconciliation
      /\ queue' \in BOOLEAN
  <2>1. TypeOK /\ {"enqueue"} \subseteq Phase
    BY DEF IInv, Phase
  <2>2. Requeue \/ Goto("enqueue", worker.obj)
    BY Zenon
  <2>3. QED BY <2>1, <2>2, Moves, Ends
<1>4. TypeOK'
  BY <1>2, <1>3 DEF IInv, TypeOK
<1>5. QED BY <1>1, <1>2, <1>3, <1>4, WritesState DEF Busy, Cleaning

\* The only step that adds a task: the object with the finalizer is there.
LEMMA EnqueueStep == IInv /\ Enqueue => IInv'
<1> SUFFICES ASSUME IInv, Enqueue PROVE IInv'
  OBVIOUS
<1> USE DEF IInv, Enqueue, frame
<1>1. worker'.pc = "idle" /\ worker'.obj = None /\ worker' \in Reconciliation
  BY RestTyped DEF Done, AtRest
<1>2. retry' \in Task
  BY DEF Task, TypeOK
<1>3. TypeOK'
  BY <1>1, <1>2 DEF TypeOK, Done
<1>4. RetryHasObject'
  BY DEF RetryHasObject, WorkerInv, Busy
<1>5. UidInv' /\ CacheInv' /\ WorkerInv'
  BY <1>1 DEF UidInv, CacheInv, WorkerInv, Busy, Cleaning
<1>6. QED BY <1>3, <1>4, <1>5

LEMMA CallFailsStep == IInv /\ CallFails => IInv'
<1> SUFFICES ASSUME IInv, CallFails PROVE IInv'
  OBVIOUS
<1> USE DEF CallFails, frame
<1>1. /\ worker'.pc \in {"idle", "failRetry", "failEnqueue"}
      /\ worker'.obj \in {worker.obj, None}
      /\ worker'.pc # "idle" => worker.pc \in {"deploy", "connect", "add"}
      /\ worker' \in Reconciliation
      /\ queue' \in BOOLEAN
  <2>1. TypeOK /\ {"failRetry", "failEnqueue"} \subseteq Phase
    BY DEF IInv, Phase
  <2>2. \/ Requeue
        \/ worker.pc = "deploy" /\ Goto("failRetry", worker.obj)
        \/ worker.pc \in {"connect", "add"} /\ Goto("failEnqueue", worker.obj)
    BY Zenon
  <2>3. QED BY <2>1, <2>2, Moves, Ends
<1>2. TypeOK'
  BY <1>1 DEF IInv, TypeOK
<1>3. QED BY <1>1, <1>2, GoesOn DEF Busy, Cleaning

LEMMA MarkDeletingStep == IInv /\ MarkDeleting => IInv'
<1> SUFFICES ASSUME IInv, MarkDeleting PROVE IInv'
  OBVIOUS
<1> USE DEF MarkDeleting, frame
<1>1. CASE cr = None
  <2>1. worker'.pc = "idle" /\ worker'.obj = None /\ worker' \in Reconciliation
    BY <1>1, RestTyped DEF Requeue, AtRest
  <2>2. TypeOK'
    BY <1>1, <2>1 DEF IInv, TypeOK, Requeue
  <2>3. QED BY <1>1, <2>1, <2>2, GoesOn DEF Busy, Cleaning
<1>2. CASE cr # None
  <2>1. /\ cr' \in Object /\ pend' \in BOOLEAN
        /\ cr'.uid = cr.uid /\ cr'.fin = cr.fin /\ cr'.del = cr.del
    BY <1>2, SetStateKeeps DEF State, IInv, TypeOK
  <2>2. /\ worker'.pc = "external" /\ worker'.obj = worker.obj
        /\ worker' \in Reconciliation
    BY <1>2, GotoTyped DEF IInv, Goto, Phase, TypeOK, Reconciliation
  <2>3. TypeOK'
    BY <1>2, <2>1, <2>2 DEF IInv, TypeOK, Goto
  <2>4. QED BY <1>2, <2>1, <2>2, <2>3, WritesState DEF Busy, Cleaning
<1>3. QED BY <1>1, <1>2

\* The step that tells the task to stop, if there is one.
LEMMA DeleteExternalStep == IInv /\ DeleteExternal => IInv'
<1> SUFFICES ASSUME IInv, DeleteExternal PROVE IInv'
  OBVIOUS
<1> USE DEF DeleteExternal, frame
<1>1. /\ worker'.pc \in {"idle", "unfinalize", "unregister", "namespace"}
      /\ worker'.obj \in {worker.obj, None}
      /\ worker' \in Reconciliation
      /\ queue' \in BOOLEAN
  <2>1. TypeOK /\ {"unfinalize", "unregister", "namespace"} \subseteq Phase
    BY DEF IInv, Phase
  <2>2. Requeue \/ Goto("unfinalize", worker.obj) \/ Goto("unregister", worker.obj) \/ Goto("namespace", worker.obj)
    BY Zenon
  <2>3. QED BY <2>1, <2>2, Moves, Ends
<1>2. CASE retry # None
  <2>1. retry' \in Task /\ retry'.cancelled
    BY <1>2 DEF IInv, TypeOK, Task
  <2>2. TypeOK'
    BY <1>1, <2>1 DEF IInv, TypeOK
  <2>3. RetryHasObject' /\ UidInv' /\ CacheInv'
    BY <1>1, <2>1 DEF IInv, RetryHasObject, UidInv, CacheInv
  <2>4. WorkerInv'
    BY <1>1, <2>1 DEF IInv, WorkerInv, Busy, Cleaning, Removable
  <2>5. QED BY <2>2, <2>3, <2>4 DEF IInv
<1>3. CASE retry = None
  <2>1. TypeOK'
    BY <1>1, <1>3 DEF IInv, TypeOK
  <2>2. QED BY <1>1, <1>3, <2>1, GoesOn DEF Busy, Cleaning
<1>4. QED BY <1>2, <1>3

LEMMA DeleteNamespaceStep == IInv /\ DeleteNamespace => IInv'
<1> SUFFICES ASSUME IInv, DeleteNamespace PROVE IInv'
  OBVIOUS
<1> USE DEF DeleteNamespace, frame
<1>1. /\ worker'.pc \in {"idle", "unregister"} /\ worker'.obj \in {worker.obj, None}
      /\ worker' \in Reconciliation
      /\ queue' \in BOOLEAN
  <2>1. TypeOK /\ {"unregister"} \subseteq Phase
    BY DEF IInv, Phase
  <2>2. Requeue \/ Goto("unregister", worker.obj)
    BY Zenon
  <2>3. QED BY <2>1, <2>2, Moves, Ends
<1>2. deployed' \in SUBSET Kinds /\ lost' \in Nat
  BY DEF IInv, TypeOK
<1>3. TypeOK'
  BY <1>1, <1>2 DEF IInv, TypeOK
<1>4. retry = None \/ retry.cancelled
  BY DEF IInv, WorkerInv
<1>5. QED BY <1>1, <1>3, <1>4, GoesOn DEF Busy, Cleaning

LEMMA UnregisterStep == IInv /\ Unregister => IInv'
<1> SUFFICES ASSUME IInv, Unregister PROVE IInv'
  OBVIOUS
<1> USE DEF Unregister, frame
<1>1. /\ worker'.pc = "unfinalize" /\ worker'.obj = worker.obj
      /\ worker' \in Reconciliation
  BY GotoTyped DEF IInv, Goto, Phase, TypeOK, Reconciliation
<1>2. TypeOK'
  BY <1>1 DEF IInv, TypeOK, Goto
<1>3. retry = None \/ retry.cancelled
  BY DEF IInv, WorkerInv
<1>4. QED BY <1>1, <1>2, <1>3, GoesOn DEF Busy, Cleaning

\* The step that lets the object go: its task, if any, was told to stop.
LEMMA RemoveFinalizerStep == IInv /\ RemoveFinalizer => IInv'
<1> SUFFICES ASSUME IInv, RemoveFinalizer PROVE IInv'
  OBVIOUS
<1> USE DEF RemoveFinalizer, frame
<1>1. worker'.pc = "idle" /\ worker'.obj = None /\ worker' \in Reconciliation /\ queue' \in BOOLEAN
  <2>1. Requeue \/ Done
    OBVIOUS
  <2>2. QED BY <2>1, Ends DEF IInv
<1>2. cr' = None \/ cr' = cr
  BY DEF IInv, TypeOK, Object, WorkerInv, Cleaning, Removable
<1>3. TypeOK'
  BY <1>1, <1>2 DEF IInv, TypeOK
<1>4. CASE cr' = cr
  BY <1>1, <1>3, <1>4, GoesOn DEF Busy, Cleaning
<1>5. CASE cr' = None
  <2>1. RetryHasObject' /\ UidInv' /\ WorkerInv'
    BY <1>1, <1>5 DEF IInv, WorkerInv, RetryHasObject, UidInv, Busy, Cleaning
  <2>2. CacheInv'
    BY <1>5 DEF IInv, WorkerInv, CacheInv, Cleaning, Removable
  <2>3. QED BY <1>3, <2>1, <2>2 DEF IInv
<1>6. QED BY <1>2, <1>4, <1>5

-----------------------------------------------------------------------------
(* The retry goroutine, and the theorems.                                  *)

LEMMA RetryTaskStep == IInv /\ RetryTask => IInv'
<1> SUFFICES ASSUME IInv, RetryTask PROVE IInv'
  OBVIOUS
<1> USE DEF RetryTask, RetryConnects, RetrySends, RetryStops, RetryExits, retryFrame
<1>1. /\ retry' = None \/ (retry' \in Task /\ retry'.cancelled = retry.cancelled)
      /\ retry # None
      /\ UNCHANGED <<cr, cache, pend, worker, pivotKnown, reg, reach, deployed,
                     created, flips, faults, lost>>
  BY DEF IInv, TypeOK, Task
<1>2. queue' \in BOOLEAN
  BY DEF IInv, TypeOK
<1>3. expired' \in Nat
  BY DEF IInv, TypeOK
<1>4. TypeOK'
  BY <1>1, <1>2, <1>3 DEF IInv, TypeOK
<1>5. RetryHasObject' /\ UidInv' /\ CacheInv'
  BY <1>1 DEF IInv, RetryHasObject, UidInv, CacheInv
<1>6. WorkerInv'
  BY <1>1 DEF IInv, WorkerInv, Removable
<1>7. QED BY <1>4, <1>5, <1>6 DEF IInv

LEMMA InitInv == Init => IInv
<1> SUFFICES ASSUME Init PROVE IInv
  OBVIOUS
<1> USE DEF Init
<1>1. /\ cr \in Object \cup {None}
      /\ cr # None => cr.uid = 0 /\ cr.fin /\ ~cr.del
  <2>1. CASE cr = None
    BY <2>1
  <2>2. CASE cr = [NewObject(0) EXCEPT !.state = "processing", !.fin = TRUE]
    BY <2>2 DEF NewObject, Object, State
  <2>3. QED BY <2>1, <2>2
<1>2. TypeOK
  BY <1>1, RestTyped DEF TypeOK
<1>3. UidInv /\ CacheInv /\ RetryHasObject
  BY <1>1 DEF UidInv, CacheInv, RetryHasObject, AtRest
<1>4. WorkerInv
  BY DEF WorkerInv, AtRest, Busy, Cleaning
<1>5. QED BY <1>2, <1>3, <1>4 DEF IInv

LEMMA NextInv == IInv /\ [Next]_vars => IInv'
<1> SUFFICES ASSUME IInv, [Next]_vars PROVE IInv'
  OBVIOUS
<1>1. CASE Environment
  BY <1>1, ClusterCreateStep, ClusterDeleteStep, MemberFlipsStep, PivotReconciledStep,
     DeliverStep, NamespaceStep DEF Environment
<1>2. CASE Reconcile
  BY <1>2, ReconcileStep
<1>3. CASE TakeOver
  BY <1>3, EnsureFinalizerStep, MarkProcessingStep, TryConnectStep, DeployStep,
     AddInternalClusterStep, StartScoutStep, MarkInitFailedStep, EnqueueStep DEF TakeOver
<1>4. CASE CleanUp
  BY <1>4, MarkDeletingStep, DeleteExternalStep, DeleteNamespaceStep, UnregisterStep,
     RemoveFinalizerStep DEF CleanUp
<1>5. CASE CallFails
  BY <1>5, CallFailsStep
<1>6. CASE RetryTask
  BY <1>6, RetryTaskStep
<1>7. CASE UNCHANGED vars
  <2>1. TypeOK'
    BY <1>7 DEF IInv, TypeOK, vars, bounds
  <2>2. QED BY <1>7, <2>1, Elsewhere DEF vars, bounds
<1>8. QED BY <1>1, <1>2, <1>3, <1>4, <1>5, <1>6, <1>7 DEF Next

\* The inductive invariant holds for every behaviour of the controller.
THEOREM TakeoverInvariance == Spec => []IInv
  BY InitInv, NextInv, PTL DEF Spec

\* Every variable of the cluster controller keeps its type: in particular
\* deployResources never runs past the last resource.
THEOREM TakeoverTypes == Spec => []TypeOK
<1>1. IInv => TypeOK
  BY DEF IInv
<1>2. QED BY <1>1, TakeoverInvariance, PTL

\* A retry task that was not told to stop always has a Cluster object with the
\* finalizer (enqueue against removeFinalizer and deleteExternalResources).
THEOREM RetryStopsWithObject == Spec => []RetryHasObject
<1>1. IInv => RetryHasObject
  BY DEF IInv
<1>2. QED BY <1>1, TakeoverInvariance, PTL
=============================================================================
