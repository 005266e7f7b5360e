------------------------ MODULE NamespaceQuotaProofs ------------------------
(***************************************************************************)
(* Proofs about NamespaceQuota, for any set of children: while the         *)
(* parent's hard is not edited, its list names no child that is gone, and  *)
(* a warden that has handled every event has listed and counted those that *)
(* are there.                                                              *)
(*                                                                         *)
(* The first invariant does not look into the sum of what the children ask *)
(* for: a status is only known to be a record with a set of children.      *)
(***************************************************************************)
EXTENDS NamespaceQuota, FiniteSetTheorems, WellFoundedInduction, TLAPS

-----------------------------------------------------------------------------
(* The inductive invariant.                                                *)

StatusLike(s) ==
  /\ s = [hard |-> s.hard, used |-> s.used, subs |-> s.subs]
  /\ s.subs \subseteq Children

\* The status of p has p's hard once it was initialised.
ParentLike(p) ==
  /\ p = [hard |-> p.hard, fin |-> p.fin, del |-> p.del, status |-> p.status]
  /\ p.hard \in Nat /\ p.fin \in BOOLEAN /\ p.del \in BOOLEAN
  /\ StatusLike(p.status)
  /\ p.status.hard \in {None, p.hard}

ChildTypes ==
  /\ child \in [Children -> Child \cup {None}]
  /\ seen \in [Children -> Child \cup {None}]
  /\ review \in [Children -> [hard : Nat, old : Child \cup {None}] \cup {None}]
  /\ ops \in Nat
  /\ edits = 0

\* All that is known of the parent agrees on its hard.
ParentInv ==
  /\ parent # None => ParentLike(parent)
  /\ pSeen # None => ParentLike(pSeen)
  /\ pWorker.pc # "idle" => ParentLike(pWorker.obj)
  /\ parent # None /\ pSeen # None => pSeen.hard = parent.hard
  /\ parent # None /\ pWorker.pc # "idle" => pWorker.obj.hard = parent.hard

\* A child's uid tells its incarnations apart.
UidInv ==
  \A k \in Children :
    /\ child[k] # None => child[k].uid <= ops
    /\ seen[k] # None => seen[k].uid <= ops
    /\ review[k] # None =>
         /\ child[k] # None => child[k].uid < ops
         /\ seen[k] # None => seen[k].uid < ops
         /\ worker.pc # "idle" /\ worker.key = k => worker.obj.uid < ops

\* The informer may lag, but shows no finalizer or deletion too early, and a
\* child it shows with the finalizer only goes when it was seen deleted.
SeenInv ==
  \A k \in Children :
    /\ child[k] # None /\ child[k].del => child[k].fin
    /\ seen[k] # None /\ seen[k].del => seen[k].fin
    /\ seen[k] # None /\ child[k] # None /\ seen[k].uid = child[k].uid =>
         (seen[k].fin => child[k].fin) /\ (seen[k].del => child[k].del)
    /\ seen[k] # None /\ seen[k].fin /\ ~seen[k].del =>
         child[k] # None /\ child[k].fin

Live(k) == child[k] # None /\ child[k].fin

WorkerTypes ==
  /\ worker = [pc |-> worker.pc, key |-> worker.key, obj |-> worker.obj,
               status |-> worker.status]
  /\ worker.pc # "idle" =>
       worker.key \in Children /\ worker.obj \in Child /\ worker.obj.uid <= ops
  /\ worker.pc \in {"refresh", "write"} =>
       StatusLike(worker.status)
       /\ (parent # None => worker.status.hard \in {None, parent.hard})

\* What the reconciliation in progress relies on.
WorkerInv ==
  /\ worker.pc = "finalizer" => ~worker.obj.del
  /\ worker.pc \in {"read", "refresh", "write"} /\ ~worker.obj.del => Live(worker.key)
  /\ worker.pc \in {"refresh", "write"} =>
       /\ \A j \in worker.status.subs : Live(j)
       /\ worker.obj.del => worker.key \notin worker.status.subs
  /\ worker.pc = "unfinalize" =>
       worker.obj.del /\ (parent # None => worker.key \notin parent.status.subs)
  /\ (/\ worker.pc # "idle" /\ worker.obj.del
      /\ child[worker.key] # None /\ child[worker.key].uid = worker.obj.uid) =>
       /\ child[worker.key].del
       /\ seen[worker.key] # None
       /\ seen[worker.key].uid = worker.obj.uid /\ seen[worker.key].del

IInv ==
  /\ ChildTypes /\ ParentInv /\ UidInv /\ SeenInv
  /\ WorkerTypes /\ WorkerInv /\ ListedExist

-----------------------------------------------------------------------------
(* Each action preserves the invariant.                                    *)

USE HardAssumption, NoneAssumption

LEMMA RestIsNoRecord == AtRest.pc = "idle" /\ PAtRest.pc = "idle"
  BY DEF AtRest, PAtRest

\* A step that leaves the children, the queue's worker and the status alone.
LEMMA QuietStep ==
  ASSUME IInv,
         UNCHANGED <<child, seen, review, ops, edits, worker, parent, pSeen>>,
         pWorker'.pc # "idle" =>
           ParentLike(pWorker'.obj) /\ (parent # None => pWorker'.obj.hard = parent.hard)
  PROVE  IInv'
  <1>1. ChildTypes' /\ UidInv' /\ SeenInv' /\ WorkerTypes' /\ WorkerInv' /\ ListedExist'
    BY DEF IInv, ChildTypes, UidInv, SeenInv, WorkerTypes, WorkerInv, Live,
           ListedExist, StatusLike
  <1>2. ParentInv'
    BY DEF IInv, ParentInv, ParentLike, StatusLike
  <1> QED BY <1>1, <1>2 DEF IInv

LEMMA InitStep ==
  ASSUME Init PROVE IInv
  <1> PICK h \in ParentHards :
        parent = [hard |-> h, fin |-> FALSE, del |-> FALSE, status |-> NoStatus]
    BY DEF Init
  <1>0. NoStatus \in Status
    BY DEF NoStatus, Status
  <1>1. parent # None
    <2>1. parent \in Parent
      BY <1>0 DEF Parent
    <2> QED BY <2>1
  <1>2. ParentLike(parent)
    BY DEF ParentLike, StatusLike, NoStatus
  <1>3. ParentInv
    BY <1>1, <1>2 DEF Init, ParentInv, PAtRest
  <1>4. ChildTypes /\ UidInv /\ SeenInv
    BY DEF Init, ChildTypes, UidInv, SeenInv
  <1>5. WorkerTypes /\ WorkerInv
    BY DEF Init, WorkerTypes, WorkerInv, AtRest
  <1>6. ListedExist
    BY DEF ListedExist, NoStatus
  <1> QED BY <1>3, <1>4, <1>5, <1>6 DEF IInv

LEMMA ReviewStep ==
  ASSUME IInv, NEW k \in Children, Review(k) PROVE IInv'
  <1> USE DEF IInv
  <1> PICK h \in Hards : review' = [review EXCEPT ![k] = [hard |-> h, old |-> child[k]]]
    BY DEF Review
  <1>0. [hard |-> h, old |-> child[k]] \in [hard : Nat, old : Child \cup {None}]
    BY DEF ChildTypes
  <1>1. ChildTypes'
    BY <1>0 DEF ChildTypes, Review, wardenVars
  <1>2. ParentInv'
    BY DEF ParentInv, Review, pivotVars
  <1>3. UidInv'
    BY DEF ChildTypes, UidInv, WorkerTypes, Review, wardenVars, Child
  <1>4. SeenInv' /\ WorkerInv' /\ ListedExist'
    BY DEF SeenInv, WorkerInv, Live, ListedExist, Review, wardenVars
  <1>5. WorkerTypes'
    BY DEF ChildTypes, WorkerTypes, Review, wardenVars, Child
  <1> QED BY <1>1, <1>2, <1>3, <1>4, <1>5

LEMMA PersistStep ==
  ASSUME IInv, NEW k \in Children, Persist(k) PROVE IInv'
  <1> USE DEF IInv
  <1>0. /\ ops' = ops /\ edits' = edits /\ seen' = seen /\ worker' = worker
        /\ parent' = parent /\ pSeen' = pSeen /\ pWorker' = pWorker
        /\ review' = [review EXCEPT ![k] = None]
    BY DEF Persist, bounds, pivotVars
  <1>1. ParentInv'
    BY <1>0 DEF ParentInv
  <1>2. CASE child[k] # review[k].old
    <2>1. child' = child
      BY <1>2 DEF Persist
    <2> QED BY <1>0, <1>1, <2>1 DEF ChildTypes, UidInv, SeenInv, WorkerTypes, WorkerInv,
                                    Live, ListedExist
  <1>3. CASE child[k] = review[k].old /\ child[k] = None
    <2> DEFINE new == [uid |-> ops, hard |-> review[k].hard, fin |-> FALSE, del |-> FALSE]
    <2>0. review[k].hard \in Nat
      BY DEF Persist, ChildTypes
    <2>1. child' = [child EXCEPT ![k] = new] /\ new \in Child /\ new # None
      <3>1. child' = [child EXCEPT ![k] = new]
        BY <1>3 DEF Persist
      <3>2. new \in Child
        BY <2>0 DEF ChildTypes, Child
      <3> QED BY <3>1, <3>2
    <2> HIDE DEF new
    <2>2. new.uid = ops /\ ~new.fin /\ ~new.del
      BY DEF new
    <2>3. ChildTypes'
      BY <1>0, <2>1 DEF ChildTypes
    <2>4. UidInv'
      BY <1>0, <2>1, <2>2 DEF ChildTypes, UidInv
    <2>5. review[k] # None
      BY DEF Persist
    <2>6. SeenInv'
      BY <1>0, <1>3, <2>1, <2>2, <2>5 DEF ChildTypes, SeenInv, UidInv
    <2>7. WorkerTypes'
      BY <1>0 DEF WorkerTypes
    <2>8. WorkerInv'
      BY <1>0, <1>3, <2>1, <2>2, <2>5 DEF ChildTypes, WorkerTypes, WorkerInv, UidInv, Live, StatusLike
    <2>9. ListedExist'
      BY <1>0, <1>3, <2>1 DEF ChildTypes, ParentInv, ParentLike, StatusLike, ListedExist
    <2> QED BY <1>1, <2>3, <2>4, <2>6, <2>7, <2>8, <2>9
  <1>4. CASE child[k] = review[k].old /\ child[k] # None
    <2> DEFINE new == [child[k] EXCEPT !.hard = review[k].hard]
    <2>1. /\ child' = [child EXCEPT ![k] = new] /\ new \in Child /\ new # None
          /\ new.uid = child[k].uid /\ new.fin = child[k].fin /\ new.del = child[k].del
      BY <1>4 DEF Persist, ChildTypes, Child
    <2> HIDE DEF new
    <2>3. ChildTypes'
      BY <1>0, <2>1 DEF ChildTypes
    <2>4. UidInv'
      BY <1>0, <1>4, <2>1 DEF ChildTypes, UidInv
    <2>6. SeenInv'
      BY <1>0, <1>4, <2>1 DEF ChildTypes, SeenInv
    <2>7. WorkerTypes'
      BY <1>0 DEF WorkerTypes
    <2>8. WorkerInv'
      BY <1>0, <1>4, <2>1 DEF ChildTypes, WorkerTypes, WorkerInv, Live, StatusLike
    <2>9. ListedExist'
      BY <1>0, <1>4, <2>1 DEF ChildTypes, ParentInv, ParentLike, StatusLike, ListedExist
    <2> QED BY <1>1, <2>3, <2>4, <2>6, <2>7, <2>8, <2>9
  <1> QED BY <1>2, <1>3, <1>4

LEMMA ChildDeleteStep ==
  ASSUME IInv, NEW k \in Children, ChildDelete(k) PROVE IInv'
  <1> USE DEF IInv
  <1>0. /\ UNCHANGED <<ops, edits, seen, worker, parent, pSeen, pWorker, review>>
        /\ child[k] # None /\ ~child[k].del
    BY DEF ChildDelete, bounds, pivotVars
  <1>1. ParentInv' /\ WorkerTypes'
    BY <1>0 DEF ParentInv, WorkerTypes
  <1>2. CASE child[k].fin
    <2> DEFINE new == [child[k] EXCEPT !.del = TRUE]
    <2>1. /\ child' = [child EXCEPT ![k] = new] /\ new \in Child /\ new # None
          /\ new.uid = child[k].uid /\ new.fin /\ new.del
      BY <1>0, <1>2 DEF ChildDelete, ChildTypes, Child
    <2> HIDE DEF new
    <2>2. ChildTypes' /\ UidInv'
      BY <1>0, <2>1 DEF ChildTypes, UidInv
    <2>3. SeenInv'
      BY <1>0, <1>2, <2>1 DEF ChildTypes, SeenInv
    <2>4. WorkerInv'
      BY <1>0, <1>2, <2>1 DEF ChildTypes, WorkerTypes, WorkerInv, Live, StatusLike
    <2>5. ListedExist'
      BY <1>0, <1>2, <2>1 DEF ChildTypes, ParentInv, ParentLike, StatusLike, ListedExist
    <2> QED BY <1>1, <2>2, <2>3, <2>4, <2>5
  <1>3. CASE ~child[k].fin
    <2>1. child' = [child EXCEPT ![k] = None]
      BY <1>3 DEF ChildDelete
    <2>2. ChildTypes' /\ UidInv'
      BY <1>0, <2>1 DEF ChildTypes, UidInv
    <2>3. SeenInv'
      BY <1>0, <1>3, <2>1 DEF ChildTypes, SeenInv
    <2>4. WorkerInv'
      BY <1>0, <1>3, <2>1 DEF ChildTypes, WorkerTypes, WorkerInv, Live, StatusLike
    <2>5. ListedExist'
      BY <1>0, <1>3, <2>1 DEF ChildTypes, ParentInv, ParentLike, StatusLike, ListedExist
    <2> QED BY <1>1, <2>2, <2>3, <2>4, <2>5
  <1> QED BY <1>2, <1>3

LEMMA DeliverStep ==
  ASSUME IInv, NEW k \in Children, Deliver(k) PROVE IInv'
  <1> USE DEF IInv
  <1>0. /\ UNCHANGED <<child, ops, edits, worker, parent, pSeen, pWorker, review>>
        /\ seen' = [seen EXCEPT ![k] = child[k]]
    BY DEF Deliver, wardenFrame, bounds, pivotVars
  <1>1. ParentInv' /\ WorkerTypes' /\ ListedExist'
    BY <1>0 DEF ParentInv, WorkerTypes, ListedExist
  <1>2. ChildTypes' /\ UidInv'
    BY <1>0 DEF ChildTypes, UidInv
  <1>3. SeenInv'
    BY <1>0 DEF ChildTypes, SeenInv
  <1>4. WorkerInv'
    BY <1>0 DEF ChildTypes, WorkerTypes, WorkerInv, Live
  <1> QED BY <1>1, <1>2, <1>3, <1>4

\* The worker comes to rest: nothing is claimed of it any more.
LEMMA RestStep ==
  ASSUME IInv, worker' = AtRest,
         UNCHANGED <<child, seen, review, ops, edits, parent, pSeen, pWorker>>
  PROVE  IInv'
  <1> USE DEF IInv
  <1>1. ChildTypes' /\ ParentInv' /\ SeenInv' /\ ListedExist'
    BY DEF ChildTypes, ParentInv, SeenInv, ListedExist
  <1>2. UidInv' /\ WorkerTypes' /\ WorkerInv'
    BY DEF UidInv, WorkerTypes, WorkerInv, AtRest
  <1> QED BY <1>1, <1>2

LEMMA ReconcileStep ==
  ASSUME IInv, NEW k \in Children, Reconcile(k) PROVE IInv'
  <1> USE DEF IInv
  <1> DEFINE obj == seen[k]
  <1>0. UNCHANGED <<child, seen, ops, edits, parent, pSeen, pWorker, review>>
    BY DEF Reconcile, wardenFrame, bounds, pivotVars
  <1>1. CASE obj = None \/ (obj.del /\ ~obj.fin)
    BY <1>0, <1>1, RestStep DEF Reconcile
  <1>2. CASE obj # None /\ ~(obj.del /\ ~obj.fin)
    <2>1. worker' = [pc |-> IF obj.fin THEN "read" ELSE "finalizer", key |-> k,
                     obj |-> obj, status |-> None]
      BY <1>2 DEF Reconcile
    <2>2. obj \in Child
      BY <1>2 DEF ChildTypes
    <2>3. ChildTypes' /\ ParentInv' /\ SeenInv' /\ ListedExist'
      BY <1>0 DEF ChildTypes, ParentInv, SeenInv, ListedExist
    <2>4. WorkerTypes'
      BY <1>0, <2>1, <2>2, <1>2 DEF WorkerTypes, UidInv
    <2>5. UidInv'
      BY <1>0, <2>1, <1>2 DEF UidInv
    <2>6. WorkerInv'
      BY <1>0, <1>2, <2>1, <2>2 DEF WorkerInv, SeenInv, Live
    <2> QED BY <2>3, <2>4, <2>5, <2>6
  <1> QED BY <1>1, <1>2

LEMMA EnsureFinalizerStep ==
  ASSUME IInv, EnsureFinalizer PROVE IInv'
  <1> USE DEF IInv
  <1> DEFINE k == worker.key
  <1>0. /\ UNCHANGED <<seen, ops, edits, parent, pSeen, pWorker, review>>
        /\ worker.pc = "finalizer" /\ k \in Children /\ worker.obj \in Child
        /\ ~worker.obj.del /\ worker.obj.uid <= ops
    BY DEF EnsureFinalizer, wardenFrame, bounds, pivotVars, WorkerTypes, WorkerInv
  <1>1. CASE worker' = AtRest /\ child' = child
    BY <1>0, <1>1, RestStep
  <1>2. CASE /\ child[k] # None /\ seen[k] = child[k]
             /\ child' = [child EXCEPT ![k].fin = TRUE]
             /\ worker' = [worker EXCEPT !.pc = "read"]
    <2> DEFINE new == [child[k] EXCEPT !.fin = TRUE]
    <2>1. /\ child' = [child EXCEPT ![k] = new] /\ new \in Child /\ new # None
          /\ new.uid = child[k].uid /\ new.fin /\ new.del = child[k].del
      BY <1>0, <1>2 DEF ChildTypes, Child
    <2> HIDE DEF new
    <2>2. worker' = [pc |-> "read", key |-> worker.key, obj |-> worker.obj,
                     status |-> worker.status]
      BY <1>2 DEF WorkerTypes
    <2>3. ChildTypes' /\ ParentInv'
      BY <1>0, <2>1 DEF ChildTypes, ParentInv
    <2>4. UidInv'
      BY <1>0, <1>2, <2>1, <2>2 DEF ChildTypes, UidInv
    <2>5. SeenInv'
      BY <1>0, <1>2, <2>1 DEF ChildTypes, SeenInv
    <2>6. WorkerTypes'
      BY <1>0, <2>2 DEF WorkerTypes
    <2>7. WorkerInv'
      BY <1>0, <1>2, <2>1, <2>2 DEF ChildTypes, WorkerInv, Live
    <2>8. ListedExist'
      BY <1>0, <2>1 DEF ChildTypes, ParentInv, ParentLike, StatusLike, ListedExist
    <2> QED BY <2>3, <2>4, <2>5, <2>6, <2>7, <2>8
  <1> QED BY <1>1, <1>2 DEF EnsureFinalizer, Goto, Requeue

LEMMA ReadParentStep ==
  ASSUME IInv, ReadParent PROVE IInv'
  <1> USE DEF IInv
  <1> DEFINE subs == IF worker.obj.del THEN parent.status.subs \ {worker.key}
                                       ELSE parent.status.subs \cup {worker.key}
             new == [parent.status EXCEPT !.subs = subs]
  <1>0. /\ UNCHANGED <<child, seen, ops, edits, parent, pSeen, pWorker, review>>
        /\ worker.pc = "read" /\ worker.key \in Children
    BY DEF ReadParent, wardenFrame, bounds, pivotVars, WorkerTypes
  <1>1. CASE parent = None
    BY <1>0, <1>1, RestStep DEF ReadParent, Requeue
  <1>2. CASE parent # None
    <2>1. ParentLike(parent)
      BY <1>2 DEF ParentInv
    <2>2. StatusLike(new) /\ new.subs = subs /\ new.hard = parent.status.hard
      <3>1. subs \subseteq Children
        BY <1>0, <2>1 DEF ParentLike, StatusLike
      <3>2. /\ parent.status = [hard |-> parent.status.hard, used |-> parent.status.used,
                                subs |-> parent.status.subs]
        BY <2>1 DEF ParentLike, StatusLike
      <3>3. \A h, u, s, t : [[hard |-> h, used |-> u, subs |-> s] EXCEPT !.subs = t]
                             = [hard |-> h, used |-> u, subs |-> t]
        OBVIOUS
      <3>4. new = [hard |-> parent.status.hard, used |-> parent.status.used, subs |-> subs]
        <4> HIDE DEF subs
        <4> QED BY ONLY <3>2, <3>3
      <3> QED BY <3>1, <3>4 DEF StatusLike
    <2>3. worker' = [pc |-> "refresh", key |-> worker.key, obj |-> worker.obj, status |-> new]
      <3>1. new = [parent.status EXCEPT
                     !.subs = IF worker.obj.del THEN @ \ {worker.key} ELSE @ \cup {worker.key}]
        OBVIOUS
      <3>2. worker' = [worker EXCEPT !.pc = "refresh", !.status = new]
        BY <1>2, <3>1 DEF ReadParent
      <3> HIDE DEF new
      <3> QED BY <3>2 DEF WorkerTypes
    <2>4. \A j \in subs : Live(j)
      BY <1>0, <1>2 DEF ListedExist, WorkerInv, Live
    <2> HIDE DEF new
    <2>5. ChildTypes' /\ ParentInv' /\ SeenInv' /\ ListedExist'
      BY <1>0 DEF ChildTypes, ParentInv, SeenInv, ListedExist
    <2>6. WorkerTypes' /\ UidInv'
      BY <1>0, <1>2, <2>1, <2>2, <2>3 DEF WorkerTypes, UidInv, ParentLike, StatusLike
    <2>7. WorkerInv'
      BY <1>0, <2>2, <2>3, <2>4 DEF WorkerInv, Live
    <2> QED BY <2>5, <2>6, <2>7
  <1> QED BY <1>1, <1>2

LEMMA RefreshStep ==
  ASSUME IInv, Refresh PROVE IInv'
  <1> USE DEF IInv
  <1> DEFINE subs == {j \in worker.status.subs : j = worker.key \/ seen[j] # None}
             used == IF worker.status.used = None THEN None
                     ELSE Counted(worker.key, worker.obj, subs)
             new == [hard |-> worker.status.hard, used |-> used, subs |-> subs]
  <1>0. /\ UNCHANGED <<child, seen, ops, edits, parent, pSeen, pWorker, review>>
        /\ worker.pc = "refresh" /\ worker.key \in Children
    BY DEF Refresh, wardenFrame, bounds, pivotVars, WorkerTypes
  <1>1. worker' = [pc |-> "write", key |-> worker.key, obj |-> worker.obj, status |-> new]
    <2>1. worker' = [worker EXCEPT !.pc = "write", !.status = new]
      BY DEF Refresh
    <2> HIDE DEF new
    <2> QED BY <2>1 DEF WorkerTypes
  <1>2. StatusLike(new) /\ new.subs = subs /\ new.hard = worker.status.hard
    <2> HIDE DEF used
    <2> QED BY <1>0 DEF WorkerTypes, StatusLike
  <1>3. \A j \in subs : Live(j)
    BY <1>0 DEF WorkerInv
  <1> HIDE DEF new
  <1>4. ChildTypes' /\ ParentInv' /\ SeenInv' /\ ListedExist'
    BY <1>0 DEF ChildTypes, ParentInv, SeenInv, ListedExist
  <1>5. WorkerTypes' /\ UidInv'
    BY <1>0, <1>1, <1>2 DEF WorkerTypes, UidInv, StatusLike
  <1>6. WorkerInv'
    BY <1>0, <1>1, <1>2, <1>3 DEF WorkerInv, Live
  <1> QED BY <1>4, <1>5, <1>6

\* A status of children that exist replaces the parent's.
LEMMA StatusReplaced ==
  ASSUME ParentInv, parent # None, NEW STATE s, StatusLike(s), s.hard \in {None, parent.hard},
         parent' = [parent EXCEPT !.status = s],
         UNCHANGED pSeen, pWorker'.pc = "idle" \/ UNCHANGED pWorker
  PROVE  ParentInv' /\ parent'.status = s /\ parent'.hard = parent.hard
  <1>1. ParentLike(parent)
    BY DEF ParentInv
  <1>2. parent' = [hard |-> parent.hard, fin |-> parent.fin, del |-> parent.del, status |-> s]
    BY <1>1 DEF ParentLike
  <1>3. ParentLike(parent')
    BY <1>1, <1>2 DEF ParentLike, StatusLike
  <1> QED BY <1>1, <1>2, <1>3 DEF ParentInv, ParentLike

LEMMA WriteStatusStep ==
  ASSUME IInv, WriteStatus PROVE IInv'
  <1> USE DEF IInv
  <1>0. /\ UNCHANGED <<child, seen, ops, edits, pSeen, pWorker, review>>
        /\ worker.pc = "write" /\ worker.key \in Children /\ worker.obj \in Child
    BY DEF WriteStatus, bounds, WorkerTypes
  <1>1. CASE parent = None
    BY <1>0, <1>1, RestStep DEF WriteStatus, Requeue
  <1>2. CASE parent # None
    <2>1. parent' = [parent EXCEPT !.status = worker.status]
      BY <1>2 DEF WriteStatus, SetStatus
    <2>2. ParentInv' /\ parent'.status = worker.status /\ parent'.hard = parent.hard
      BY <1>0, <1>2, <2>1, StatusReplaced DEF WorkerTypes
    <2>3. ChildTypes' /\ SeenInv'
      BY <1>0 DEF ChildTypes, SeenInv
    <2>4. ListedExist'
      BY <1>0, <2>2 DEF ListedExist, WorkerInv, Live
    <2>5. CASE worker.obj.del
      <3>1. worker' = [pc |-> "unfinalize", key |-> worker.key, obj |-> worker.obj,
                       status |-> worker.status]
        BY <1>2, <2>5 DEF WriteStatus, Goto, WorkerTypes
      <3>2. UidInv' /\ WorkerTypes'
        BY <1>0, <3>1 DEF UidInv, WorkerTypes
      <3>3. WorkerInv'
        BY <1>0, <2>2, <2>5, <3>1 DEF WorkerInv
      <3> QED BY <2>2, <2>3, <2>4, <3>2, <3>3
    <2>6. CASE ~worker.obj.del
      <3>1. worker' = AtRest
        BY <1>2, <2>6 DEF WriteStatus, Done
      <3>2. UidInv' /\ WorkerTypes' /\ WorkerInv'
        BY <1>0, <3>1 DEF UidInv, WorkerTypes, WorkerInv, AtRest
      <3> QED BY <2>2, <2>3, <2>4, <3>2
    <2> QED BY <2>5, <2>6
  <1> QED BY <1>1, <1>2

LEMMA RemoveFinalizerStep ==
  ASSUME IInv, RemoveFinalizer PROVE IInv'
  <1> USE DEF IInv
  <1> DEFINE k == worker.key
  <1>0. /\ UNCHANGED <<seen, ops, edits, parent, pSeen, pWorker, review>>
        /\ worker' = AtRest /\ worker.pc = "unfinalize"
        /\ k \in Children /\ worker.obj \in Child /\ worker.obj.del
    BY DEF RemoveFinalizer, Done, Requeue, wardenFrame, bounds, pivotVars,
           WorkerTypes, WorkerInv
  <1>1. CASE child' = child
    BY <1>0, <1>1, RestStep
  <1>2. CASE child[k] = worker.obj /\ child' = [child EXCEPT ![k] = None]
    <2>1. seen[k] # None /\ seen[k].del
      BY <1>0, <1>2 DEF WorkerInv
    <2>2. ChildTypes' /\ ParentInv' /\ UidInv'
      BY <1>0, <1>2 DEF ChildTypes, ParentInv, UidInv, AtRest
    <2>3. SeenInv'
      BY <1>0, <1>2, <2>1 DEF ChildTypes, SeenInv
    <2>4. WorkerTypes' /\ WorkerInv'
      BY <1>0 DEF WorkerTypes, WorkerInv, AtRest
    <2>5. ListedExist'
      BY <1>0, <1>2 DEF ChildTypes, ListedExist, WorkerInv, ParentInv, ParentLike, StatusLike
    <2> QED BY <2>2, <2>3, <2>4, <2>5
  <1> QED BY <1>1, <1>2 DEF RemoveFinalizer

LEMMA PReconcileStep ==
  ASSUME IInv, PReconcile PROVE IInv'
  <1>1. UNCHANGED <<child, seen, review, ops, edits, worker, parent, pSeen>>
    BY DEF PReconcile, pivotFrame, wardenVars, bounds
  <1>2. pWorker'.pc # "idle" =>
          ParentLike(pWorker'.obj) /\ (parent # None => pWorker'.obj.hard = parent.hard)
    BY DEF PReconcile, PAtRest, IInv, ParentInv
  <1> QED BY <1>1, <1>2, QuietStep

\* The informer shows the parent as it is, or the parent goes, or it changes
\* in its finalizer or its deletion only.
LEMMA ParentStep ==
  ASSUME IInv,
         UNCHANGED <<child, seen, review, ops, edits, worker>>,
         parent' # None => parent # None /\ ParentLike(parent')
                           /\ parent'.hard = parent.hard /\ parent'.status = parent.status,
         pSeen' = pSeen \/ (pSeen' = parent /\ parent' = parent),
         \/ pWorker' = pWorker
         \/ pWorker'.pc = "idle"
         \/ pWorker'.obj = parent' /\ ParentLike(parent')
  PROVE  IInv'
  <1> USE DEF IInv
  <1>1. ChildTypes' /\ SeenInv' /\ UidInv'
    BY DEF ChildTypes, SeenInv, UidInv
  <1>2. WorkerTypes' /\ WorkerInv' /\ ListedExist'
    BY DEF WorkerTypes, WorkerInv, Live, ListedExist, StatusLike
  <1>3. ParentInv'
    BY DEF ParentInv
  <1> QED BY <1>1, <1>2, <1>3

LEMMA PDeliverStep ==
  ASSUME IInv, PDeliver PROVE IInv'
  BY ParentStep DEF IInv, ParentInv, PDeliver, pivotFrame, wardenVars, bounds

LEMMA ParentDeleteStep ==
  ASSUME IInv, ParentDelete PROVE IInv'
  <1>1. /\ UNCHANGED <<child, seen, review, ops, edits, worker, pSeen, pWorker>>
        /\ parent # None
    BY DEF ParentDelete, wardenVars
  <1>2. ParentLike(parent)
    BY <1>1 DEF IInv, ParentInv
  <1>3. CASE parent' = None
    BY <1>1, <1>3, ParentStep
  <1>4. CASE parent' = [parent EXCEPT !.del = TRUE]
    <2>1. /\ ParentLike(parent')
          /\ parent'.hard = parent.hard /\ parent'.status = parent.status
      BY <1>2, <1>4 DEF ParentLike
    <2> QED BY <1>1, <2>1, ParentStep
  <1> QED BY <1>3, <1>4 DEF ParentDelete

LEMMA PEnsureFinalizerStep ==
  ASSUME IInv, PEnsureFinalizer PROVE IInv'
  <1>1. UNCHANGED <<child, seen, review, ops, edits, worker, pSeen>>
    BY DEF PEnsureFinalizer, pivotFrame, wardenVars, bounds
  <1>2. CASE parent' = parent /\ pWorker' = PAtRest
    BY <1>1, <1>2, ParentStep, RestIsNoRecord DEF IInv, ParentInv
  <1>3. CASE /\ parent # None /\ parent' = [parent EXCEPT !.fin = TRUE]
             /\ pWorker' = [pc |-> "status", obj |-> parent']
    <2>1. ParentLike(parent)
      BY <1>3 DEF IInv, ParentInv
    <2>2. /\ ParentLike(parent')
          /\ parent'.hard = parent.hard /\ parent'.status = parent.status
      BY <1>3, <2>1 DEF ParentLike
    <2>3. pWorker'.obj = parent'
      BY <1>3
    <2> QED BY <1>1, <1>3, <2>2, <2>3, ParentStep
  <1> QED BY <1>2, <1>3 DEF PEnsureFinalizer, PGoto, PRequeue

LEMMA PRemoveFinalizerStep ==
  ASSUME IInv, PRemoveFinalizer PROVE IInv'
  <1>1. UNCHANGED <<child, seen, review, ops, edits, worker, pSeen>>
    BY DEF PRemoveFinalizer, pivotFrame, wardenVars, bounds
  <1>2. pWorker' = PAtRest /\ (parent' = parent \/ parent' = None)
    BY DEF PRemoveFinalizer, PDone, PRequeue
  <1> QED BY <1>1, <1>2, ParentStep, RestIsNoRecord DEF IInv, ParentInv

\* A status is written only when the parent's was not initialised yet: with no
\* edits the two hards of what was read are equal.
LEMMA PStatusStep ==
  ASSUME IInv, PStatus PROVE IInv'
  <1> USE DEF IInv
  <1> DEFINE obj == pWorker.obj
  <1>0. /\ UNCHANGED <<child, seen, review, ops, edits, worker, pSeen>>
        /\ pWorker.pc = "status" /\ ParentLike(obj)
        /\ parent # None => obj.hard = parent.hard
    BY DEF PStatus, pivotFrame, wardenVars, bounds, ParentInv
  <1>1. CASE parent' = parent /\ pWorker' = PAtRest
    BY <1>0, <1>1, ParentStep, RestIsNoRecord DEF ParentInv
  <1>2. CASE /\ parent # None /\ pWorker' = PAtRest
             /\ parent' = [parent EXCEPT !.status = InitStatus(obj)]
    <2>1. /\ StatusLike(InitStatus(obj)) /\ InitStatus(obj).hard = parent.hard
          /\ InitStatus(obj).subs = {}
      BY <1>0, <1>2 DEF InitStatus, StatusLike
    <2>2. ParentInv' /\ parent'.status = InitStatus(obj) /\ parent'.hard = parent.hard
      BY <1>0, <1>2, <2>1, StatusReplaced, RestIsNoRecord
    <2>3. ChildTypes' /\ SeenInv' /\ UidInv'
      BY <1>0 DEF ChildTypes, SeenInv, UidInv
    <2>4. WorkerTypes'
      BY <1>0, <1>2, <2>2 DEF WorkerTypes, StatusLike
    <2>5. WorkerInv' /\ ListedExist'
      BY <1>0, <2>1, <2>2 DEF WorkerInv, Live, ListedExist
    <2> QED BY <2>2, <2>3, <2>4, <2>5
  <1>3. [obj.status EXCEPT !.hard = obj.hard] = obj.status \/ obj.status.hard = None
    BY <1>0 DEF ParentLike, StatusLike
  <1> QED BY <1>1, <1>2, <1>3 DEF PStatus, PDone, PRequeue, SetStatus

-----------------------------------------------------------------------------
(* The theorem.                                                            *)

LEMMA QuotaStep ==
  ASSUME edits' = 0, IInv, [Next]_vars PROVE IInv'
  <1>1. ASSUME NEW k \in Children, Review(k) \/ Persist(k) \/ ChildDelete(k) PROVE IInv'
    BY <1>1, ReviewStep, PersistStep, ChildDeleteStep
  <1>2. ASSUME NEW k \in Children, Reconcile(k) \/ Deliver(k) PROVE IInv'
    BY <1>2, ReconcileStep, DeliverStep
  <1>3. CASE ParentDelete
    BY <1>3, ParentDeleteStep
  <1>4. ~ParentEdit
    BY DEF ParentEdit, IInv, ChildTypes
  <1>5. CASE EnsureFinalizer \/ ReadParent \/ Refresh \/ WriteStatus \/ RemoveFinalizer
    BY <1>5, EnsureFinalizerStep, ReadParentStep, RefreshStep, WriteStatusStep,
       RemoveFinalizerStep
  <1>6. CASE PReconcile \/ PEnsureFinalizer \/ PStatus \/ PRemoveFinalizer \/ PDeliver
    BY <1>6, PReconcileStep, PEnsureFinalizerStep, PStatusStep, PRemoveFinalizerStep,
       PDeliverStep
  <1>7. CASE UNCHANGED vars
    BY <1>7, ParentStep DEF vars, wardenVars, pivotVars, bounds, IInv, ParentInv
  <1> QED BY <1>1, <1>2, <1>3, <1>4, <1>5, <1>6, <1>7 DEF Next, Users, Warden, Pivot

\* Whoever has not edited the parent by now has not before.
LEMMA EditsGrow ==
  ASSUME edits \in Nat, [Next]_vars
  PROVE  edits' \in Nat /\ (edits' = 0 => edits = 0)
  BY DEF Next, Users, Warden, Pivot, Review, Persist, ChildDelete, ParentEdit,
     ParentDelete, Reconcile, EnsureFinalizer, ReadParent, Refresh, WriteStatus,
     RemoveFinalizer, PReconcile, PEnsureFinalizer, PStatus, PRemoveFinalizer,
     PDeliver, Deliver, wardenFrame, pivotFrame, vars, bounds

\* While nobody edits the parent's hard, a ResourceQuota that is gone is not in
\* the list that keeps the CubeResourceQuota from being deleted, for any set of
\* children and any lag of the informers: UpdateParentStatus and the two
\* finalizer functions of quota_controller.go keep that order.
THEOREM ListedChildExists == Spec => []NoPhantomChild
  <1> DEFINE Unedited == edits \in Nat /\ (edits = 0 => IInv)
  <1>1. Init => Unedited
    <2>1. Init => edits = 0
      BY DEF Init
    <2> QED BY <2>1, InitStep
  <1>2. Unedited /\ [Next]_vars => Unedited'
    <2> SUFFICES ASSUME Unedited, [Next]_vars PROVE Unedited'
      OBVIOUS
    <2>1. edits' \in Nat /\ (edits' = 0 => edits = 0)
      BY EditsGrow
    <2>2. edits' = 0 => IInv'
      BY <2>1, QuotaStep
    <2> QED BY <2>1, <2>2
  <1>3. Unedited => NoPhantomChild
    BY DEF IInv, NoPhantomChild
  <1> QED BY <1>1, <1>2, <1>3, PTL DEF Spec

-----------------------------------------------------------------------------
(* Sums.  Total makes its sum by recursion over the subsets of a domain.     *)

\* A set of numbers has a least one.
LEMMA LeastNumber ==
  ASSUME NEW N \in SUBSET Nat, N # {} PROVE \E n \in N : \A m \in N : ~(m < n)
  <1>1. PICK n \in N : \A m \in N : <<m, n>> \notin OpToRel(<, Nat)
    BY WFMin, NatLessThanWellFounded
  <1> QED BY <1>1 DEF OpToRel

\* What MapThenSumSet takes from a set.
Pick(s) == CHOOSE x \in s : TRUE

\* The equation of the sum, for the set s.
SumStep(f, g, s) == IF s = {} THEN 0 ELSE f[Pick(s)] + g[s \ {Pick(s)}]

\* Total is what some function that solves the equation gives for the whole domain.
LEMMA TotalUnfolds ==
  ASSUME NEW f
  PROVE  Total(f) =
           (CHOOSE g : g = [s \in SUBSET DOMAIN f |-> SumStep(f, g, s)])[DOMAIN f]
  BY DEF Total, MapThenSumSet, MapThenFoldSet, SumStep, Pick

LEMMA PickIn == \A s : s # {} => Pick(s) \in s
  BY DEF Pick

Small(S, n) == {s \in SUBSET S : Cardinality(s) <= n}

LEMMA SmallerSets ==
  ASSUME NEW S, IsFiniteSet(S), NEW n \in Nat, NEW s \in Small(S, n + 1), s # {}
  PROVE  s \ {Pick(s)} \in Small(S, n) /\ Pick(s) \in S
  <1>1. IsFiniteSet(s) /\ Pick(s) \in s
    BY FS_Subset, PickIn DEF Small
  <1>2. /\ IsFiniteSet(s \ {Pick(s)})
        /\ Cardinality(s \ {Pick(s)}) = Cardinality(s) - 1
    BY <1>1, FS_RemoveElement
  <1>3. Cardinality(s) \in Nat
    BY <1>1, FS_CardinalityType
  <1>. QED
    BY <1>1, <1>2, <1>3 DEF Small

\* The equation has a solution, in numbers, for the sets of at most n elements.
SumsTo(f, S, n) ==
  \E g \in [Small(S, n) -> Nat] : \A s \in Small(S, n) : g[s] = SumStep(f, g, s)

LEMMA SumsToNext ==
  ASSUME NEW S, IsFiniteSet(S), NEW f \in [S -> Nat], NEW n \in Nat, SumsTo(f, S, n)
  PROVE  SumsTo(f, S, n + 1)
  <1>1. PICK g \in [Small(S, n) -> Nat] : \A s \in Small(S, n) : g[s] = SumStep(f, g, s)
    BY DEF SumsTo
  <1>2. Small(S, n) \subseteq Small(S, n + 1)
    <2>1. \A s \in SUBSET S : Cardinality(s) \in Nat
      BY FS_Subset, FS_CardinalityType
    <2>. QED
      BY <2>1 DEF Small
  <1>. DEFINE h == [s \in Small(S, n + 1) |-> SumStep(f, g, s)]
  <1>3. \A s \in Small(S, n + 1) : SumStep(f, g, s) \in Nat
    BY SmallerSets DEF SumStep
  <1>4. h \in [Small(S, n + 1) -> Nat]
    BY <1>3
  <1>5. \A s \in Small(S, n) : h[s] = g[s]
    BY <1>1, <1>2
  <1>6. \A s \in Small(S, n + 1) : h[s] = SumStep(f, h, s)
    BY <1>5, SmallerSets DEF SumStep
  <1>. QED
    BY <1>4, <1>6 DEF SumsTo

\* By induction: a least size without a solution would not be 0 and have one before it.
LEMMA SumsToAll ==
  ASSUME NEW S, IsFiniteSet(S), NEW f \in [S -> Nat], NEW n \in Nat
  PROVE  SumsTo(f, S, n)
  <1>1. SumsTo(f, S, 0)
    <2>1. \A s \in Small(S, 0) : s = {}
      <3>1. \A s \in SUBSET S : IsFiniteSet(s) /\ Cardinality(s) \in Nat
        BY FS_Subset, FS_CardinalityType
      <3>. QED
        BY <3>1, FS_EmptySet DEF Small
    <2>. DEFINE g == [s \in Small(S, 0) |-> 0]
    <2>2. g \in [Small(S, 0) -> Nat] /\ \A s \in Small(S, 0) : g[s] = SumStep(f, g, s)
      BY <2>1 DEF SumStep
    <2>. QED
      BY <2>2 DEF SumsTo
  <1>. DEFINE Bad == {m \in Nat : ~SumsTo(f, S, m)}
  <1>2. SUFFICES ASSUME Bad # {} PROVE FALSE
    OBVIOUS
  <1>3. PICK m \in Bad : \A k \in Bad : ~(k < m)
    BY <1>2, LeastNumber
  <1>4. m # 0 /\ m \in Nat
    BY <1>1
  <1>5. m - 1 \in Nat /\ m - 1 \notin Bad
    BY <1>3, <1>4
  <1>6. SumsTo(f, S, m)
    BY <1>5, SumsToNext
  <1>. QED
    BY <1>6

\* A sum of numbers is one, and the sum of none is 0: no least size has a subset whose
\* sum is something else.
LEMMA TotalIsNat ==
  ASSUME NEW S, IsFiniteSet(S), NEW f \in [S -> Nat]
  PROVE  Total(f) \in Nat /\ (S = {} => Total(f) = 0)
  <1>. DEFINE IsSum(g) == g = [s \in SUBSET S |-> SumStep(f, g, s)]
              sum == CHOOSE g : IsSum(g)
  <1>1. \A s \in SUBSET S : IsFiniteSet(s) /\ Cardinality(s) \in Nat /\ Cardinality(s) <= Cardinality(S)
    BY FS_Subset, FS_CardinalityType
  <1>2. Small(S, Cardinality(S)) = SUBSET S /\ Cardinality(S) \in Nat
    BY <1>1, FS_CardinalityType DEF Small
  <1>3. PICK g \in [SUBSET S -> Nat] : \A s \in SUBSET S : g[s] = SumStep(f, g, s)
    <2>1. SumsTo(f, S, Cardinality(S))
      BY <1>2, SumsToAll
    <2>. QED
      BY <1>2, <2>1 DEF SumsTo
  <1>4. IsSum(g)
    BY <1>3
  <1>5. IsSum(sum)
    BY <1>4
  <1>6. Total(f) = sum[S]
    BY TotalUnfolds
  <1>. HIDE DEF sum
  <1>7. \A s \in SUBSET S : sum[s] = SumStep(f, sum, s)
    BY <1>5
  <1>. DEFINE Bad == {m \in Nat : \E s \in SUBSET S : Cardinality(s) = m /\ sum[s] \notin Nat}
  <1>8. Bad = {}
    <2>1. SUFFICES ASSUME Bad # {} PROVE FALSE
      OBVIOUS
    <2>2. PICK m \in Bad : \A k \in Bad : ~(k < m)
      BY <2>1, LeastNumber
    <2>3. PICK s \in SUBSET S : Cardinality(s) = m /\ sum[s] \notin Nat
      BY <2>2
    <2>4. s # {}
      <3>1. SUFFICES ASSUME s = {} PROVE FALSE
        OBVIOUS
      <3>2. SumStep(f, sum, s) = 0
        BY <3>1 DEF SumStep
      <3>3. sum[s] = SumStep(f, sum, s)
        BY <1>7
      <3>. QED
        BY ONLY <2>3, <3>2, <3>3
    <2>. DEFINE x == Pick(s)
    <2>5. x \in S /\ x \in s /\ s \ {x} \in SUBSET S
      BY <2>4, PickIn
    <2>. HIDE DEF x
    <2>6. Cardinality(s \ {x}) = m - 1 /\ m - 1 \in Nat
      <3>1. IsFiniteSet(s) /\ IsFiniteSet(s \ {x})
        BY <1>1, <2>5
      <3>2. Cardinality(s \ {x}) = Cardinality(s) - 1
        BY <2>5, <3>1, FS_RemoveElement
      <3>3. Cardinality(s \ {x}) \in Nat
        BY <1>1, <2>5
      <3>. QED
        BY <2>3, <3>2, <3>3
    <2>7. sum[s \ {x}] \in Nat
      <3>1. m - 1 \notin Bad
        BY <2>2, <2>6
      <3>. QED
        BY <2>5, <2>6, <3>1
    <2>8. sum[s] = f[x] + sum[s \ {x}]
      BY <1>7, <2>4 DEF SumStep, x
    <2>. QED
      BY <2>3, <2>5, <2>7, <2>8
  <1>9. sum[S] \in Nat
    BY <1>2, <1>8
  <1>. QED
    BY <1>6, <1>7, <1>9 DEF SumStep

-----------------------------------------------------------------------------
(* What the parent says when the warden is at rest.                          *)

Stirs(k) == k \in events \cup queue
At(k) == worker.pc # "idle" /\ worker.key = k

Like(o, p) == o.hard = p.hard /\ o.del = p.del

\* What has no event under way is known as it is, to the informer, and to the
\* reconciliation at work on it unless it is queued again.
KnownInv ==
  \A k \in Children : child[k] # None =>
    /\ k \notin events => seen[k] # None /\ Like(seen[k], child[k])
    /\ ~Stirs(k) /\ At(k) => Like(worker.obj, child[k])

\* A child that nothing is to be done about is in the list, and stays there.
ListInv ==
  \A k \in Children : child[k] # None /\ ~Stirs(k) =>
    /\ ~At(k) => k \in parent.status.subs /\ ~child[k].del
    /\ worker.pc \in {"refresh", "write"} /\ ~(At(k) /\ worker.obj.del) =>
         k \in worker.status.subs

SumOf(c, subs) == Total([k \in subs |-> c[k].hard])

\* A wrong count is about to be made again, for a child that is in the list.
CountInv ==
  /\ \/ parent.status = NoStatus
     \/ parent.status.used = SumOf(child, parent.status.subs)
     \/ \E k \in parent.status.subs : Stirs(k) \/ At(k)
  /\ worker.pc = "write" =>
       \/ worker.status.used = SumOf(child, worker.status.subs)
       \/ \E k \in worker.status.subs : Stirs(k)

\* Before the parent's status is initialised, nothing passes the webhook.
Dormant ==
  /\ parent.status = NoStatus /\ pSeen.status = NoStatus
  /\ pWorker.pc # "idle" => pWorker.obj.status = NoStatus
  /\ pWorker.pc \in {"finalizer", "status"} /\ pQueue => pSeen.del
  /\ worker.pc = "idle"
  /\ \A k \in Children : child[k] = None /\ review[k] = None /\ seen[k] = None

\* After it was, the pivot's controller has nothing more to write.
Started ==
  /\ parent.status.used # None
  /\ worker.pc \in {"refresh", "write"} => worker.status.used # None
  /\ pWorker.pc \in {"idle", "unfinalize"}
  /\ pQueue => pSeen.del

StartInv ==
  /\ pSeen # None
  /\ pSeen.del \/ pEvent => parent.del
  /\ pWorker.pc = "unfinalize" => pSeen.del
  /\ Dormant \/ Started

Exact == KnownInv /\ ListInv /\ CountInv /\ StartInv

ExactInv == parent # None => Exact

-----------------------------------------------------------------------------
(* Each action preserves it.                                                 *)

\* Only the hards of the children counted matter.
LEMMA SumSame ==
  ASSUME NEW c, NEW d, NEW T, \A k \in T : c[k].hard = d[k].hard
  PROVE  SumOf(c, T) = SumOf(d, T)
  <1>1. [k \in T |-> c[k].hard] = [k \in T |-> d[k].hard]
    OBVIOUS
  <1> QED BY <1>1 DEF SumOf

\* A step in which nothing happens to the children and the parent's status.
LEMMA ExactFrame ==
  ASSUME KnownInv /\ ListInv /\ CountInv,
         UNCHANGED <<child, seen, events, queue, worker>>, parent'.status = parent.status
  PROVE  (KnownInv /\ ListInv /\ CountInv)'
  <1>1. (\A k : Stirs(k) <=> Stirs(k)') /\ (\A k : At(k) <=> At(k)')
    BY DEF Stirs, At
  <1>2. KnownInv'
    BY <1>1 DEF KnownInv, Like
  <1>3. ListInv'
    BY <1>1 DEF ListInv
  <1>4. CountInv'
    BY <1>1 DEF CountInv
  <1> QED BY <1>2, <1>3, <1>4

\* Nothing passes the webhook before the parent's status is initialised.
LEMMA AdmittedStarted ==
  ASSUME StartInv,
         \/ parent.status.used # None \/ worker.pc # "idle"
         \/ \E k \in Children : child[k] # None \/ review[k] # None \/ seen[k] # None
  PROVE  Started
  BY DEF StartInv, Dormant, NoStatus

\* A write that passed the webhook.
LEMMA ReviewExact ==
  ASSUME Exact, NEW k \in Children, Review(k) PROVE Exact'
  <1>1. /\ UNCHANGED <<child, seen, events, queue, worker, parent, pSeen, pEvent, pQueue, pWorker>>
        /\ parent.status.used # None
    BY DEF Review, wardenVars, pivotVars, Admits, Overload
  <1>2. Started
    BY <1>1, AdmittedStarted DEF Exact
  <1>3. StartInv'
    BY <1>1, <1>2 DEF Exact, StartInv, Started
  <1> QED BY <1>1, <1>3, ExactFrame DEF Exact

\* Nothing of what is started changes but what the worker does.
LEMMA StaysStarted ==
  ASSUME StartInv, Started, UNCHANGED <<parent, pSeen, pEvent, pQueue, pWorker>>,
         worker'.pc \in {"refresh", "write"} => worker'.status.used # None
  PROVE  StartInv'
  BY DEF StartInv, Started

\* A child changes and has an event; the worker goes on, or has done with it.
LEMMA EventStep ==
  ASSUME IInv, parent # None, Exact, Started, NEW k \in Children, NEW new,
         child' = [child EXCEPT ![k] = new], events' = events \cup {k},
         UNCHANGED <<seen, queue, parent, pSeen, pEvent, pQueue, pWorker>>,
         \/ worker' = worker
         \/ worker' = AtRest /\ worker.pc = "unfinalize" /\ worker.key = k
  PROVE  Exact'
  <1>1. \A j \in Children : j # k => child'[j] = child[j]
    BY DEF IInv, ChildTypes
  <1>2. /\ Stirs(k)'
        /\ \A j \in Children : j # k => (Stirs(j) <=> Stirs(j)') /\ (At(j) <=> At(j)')
        /\ worker'.pc \in {"refresh", "write"} => worker' = worker
    BY DEF Stirs, At, AtRest
  <1>3. k \in events' /\ (\A j \in Children : j # k => (j \in events <=> j \in events'))
    OBVIOUS
  <1>4. KnownInv'
    <2>1. ASSUME NEW j \in Children, j # k, child[j] # None
          PROVE  /\ j \notin events => seen[j] # None /\ Like(seen[j], child[j])
                 /\ ~Stirs(j) /\ At(j) => Like(worker.obj, child[j])
      BY <2>1 DEF Exact, KnownInv
    <2>2. ASSUME NEW j \in Children, At(j)' PROVE worker' = worker
      BY <2>2 DEF At, AtRest
    <2>3. ASSUME NEW j \in Children, child'[j] # None
          PROVE  /\ j \notin events' => seen'[j] # None /\ Like(seen'[j], child'[j])
                 /\ ~Stirs(j)' /\ At(j)' => Like(worker'.obj, child'[j])
      BY <1>1, <1>2, <1>3, <2>1, <2>2, <2>3
    <2> QED BY <2>3 DEF KnownInv, Like
  <1>5. ListInv'
    BY <1>1, <1>2 DEF Exact, ListInv
  <1>6. ASSUME NEW T \in SUBSET Children, k \notin T
        PROVE  SumOf(child', T) = SumOf(child, T)
    <2>1. \A j \in T : child'[j].hard = child[j].hard
      BY <1>1, <1>6
    <2> QED BY ONLY <2>1, SumSame
  <1>7. parent.status.subs \subseteq Children
    BY DEF IInv, ParentInv, ParentLike, StatusLike
  <1>8. worker.pc = "write" => worker.status.subs \subseteq Children
    BY DEF IInv, WorkerTypes, StatusLike
  <1>9. CountInv'
    BY <1>2, <1>6, <1>7, <1>8 DEF Exact, CountInv, AtRest
  <1>10. StartInv'
    BY <1>2, StaysStarted DEF Exact, Started
  <1> QED BY <1>4, <1>5, <1>9, <1>10 DEF Exact

LEMMA PersistExact ==
  ASSUME IInv, parent # None, Exact, NEW k \in Children, Persist(k) PROVE Exact'
  <1>1. /\ UNCHANGED <<seen, queue, worker, parent, pSeen, pEvent, pQueue, pWorker>>
        /\ review[k] # None
    BY DEF Persist, pivotVars
  <1>2. Started
    BY <1>1, AdmittedStarted DEF Exact
  <1>3. CASE child[k] # review[k].old
    <2>1. child' = child /\ events' = events
      BY <1>3 DEF Persist
    <2>2. StartInv'
      BY <1>1, <1>2, StaysStarted DEF Exact, Started
    <2> QED BY <1>1, <2>1, <2>2, ExactFrame DEF Exact
  <1>4. CASE child[k] = review[k].old
    BY <1>1, <1>2, <1>4, EventStep DEF Persist
  <1> QED BY <1>3, <1>4

LEMMA ChildDeleteExact ==
  ASSUME IInv, parent # None, Exact, NEW k \in Children, ChildDelete(k) PROVE Exact'
  <1>1. /\ UNCHANGED <<seen, queue, worker, parent, pSeen, pEvent, pQueue, pWorker>>
        /\ child[k] # None
    BY DEF ChildDelete, pivotVars
  <1>2. Started
    BY <1>1, AdmittedStarted DEF Exact
  <1> QED BY <1>1, <1>2, EventStep DEF ChildDelete

\* The event becomes the child's key in the queue.
LEMMA DeliverExact ==
  ASSUME IInv, parent # None, Exact, NEW k \in Children, Deliver(k) PROVE Exact'
  <1>1. /\ UNCHANGED <<child, worker, parent, pSeen, pEvent, pQueue, pWorker, review>>
        /\ seen' = [seen EXCEPT ![k] = child[k]] /\ events' = events \ {k}
        /\ queue' = IF k \in events THEN queue \cup {k} ELSE queue
    BY DEF Deliver, wardenFrame, pivotVars
  <1>2. /\ \A j \in Children : (Stirs(j) <=> Stirs(j)') /\ (At(j) <=> At(j)')
        /\ \A j \in Children : j # k => (j \in events <=> j \in events')
    BY <1>1 DEF Stirs, At
  <1>3. seen'[k] = child[k] /\ (\A j \in Children : j # k => seen'[j] = seen[j])
    BY <1>1 DEF IInv, ChildTypes
  <1>4. KnownInv'
    BY <1>1, <1>2, <1>3 DEF Exact, KnownInv, Like
  <1>5. ListInv'
    BY <1>1, <1>2 DEF Exact, ListInv
  <1>6. parent.status.subs \subseteq Children
        /\ (worker.pc = "write" => worker.status.subs \subseteq Children)
    BY DEF IInv, ParentInv, ParentLike, StatusLike, WorkerTypes
  <1>7. CountInv'
    BY <1>1, <1>2, <1>6 DEF Exact, CountInv
  <1>8. StartInv'
    BY <1>1 DEF Exact, StartInv, Started, Dormant
  <1> QED BY <1>4, <1>5, <1>7, <1>8 DEF Exact

\* An attempt that failed is made again: the key is queued.
LEMMA RequeueExact ==
  ASSUME Exact, worker.pc # "idle", worker' = AtRest, queue' = queue \cup {worker.key},
         UNCHANGED <<child, seen, events, parent, pSeen, pEvent, pQueue, pWorker>>
  PROVE  Exact'
  <1>1. /\ \A j : Stirs(j)' <=> Stirs(j) \/ j = worker.key
        /\ \A j : ~At(j)' /\ (At(j) <=> j = worker.key)
        /\ worker'.pc \notin {"refresh", "write"}
    BY DEF Stirs, At, AtRest
  <1>2. KnownInv'
    BY <1>1 DEF Exact, KnownInv, Like
  <1>3. ListInv'
    BY <1>1 DEF Exact, ListInv
  <1>4. CountInv'
    BY <1>1 DEF Exact, CountInv
  <1>5. StartInv'
    BY <1>1, AdmittedStarted, StaysStarted DEF Exact
  <1> QED BY <1>2, <1>3, <1>4, <1>5 DEF Exact

\* The child that goes is not in the list any more.
LEMMA RemoveFinalizerExact ==
  ASSUME IInv, parent # None, Exact, RemoveFinalizer PROVE Exact'
  <1> DEFINE k == worker.key
  <1>1. /\ UNCHANGED <<seen, parent, pSeen, pEvent, pQueue, pWorker>>
        /\ worker.pc = "unfinalize" /\ k \in Children /\ worker' = AtRest
    BY DEF RemoveFinalizer, Done, Requeue, wardenFrame, pivotVars, IInv, WorkerTypes
  <1>2. Started
    BY <1>1, AdmittedStarted DEF Exact
  <1>3. CASE child' = [child EXCEPT ![k] = None] /\ events' = events \cup {k} /\ queue' = queue
    BY <1>1, <1>2, <1>3, EventStep
  <1>4. CASE UNCHANGED <<child, events>> /\ queue' = queue \cup {worker.key}
    BY <1>1, <1>4, RequeueExact
  <1> QED BY <1>3, <1>4 DEF RemoveFinalizer, Done, Requeue

\* The finalizer changes nothing that is counted.
LEMMA EnsureFinalizerExact ==
  ASSUME IInv, parent # None, Exact, EnsureFinalizer PROVE Exact'
  <1> DEFINE k == worker.key
  <1>1. /\ UNCHANGED <<seen, events, parent, pSeen, pEvent, pQueue, pWorker>>
        /\ worker.pc = "finalizer" /\ k \in Children
    BY DEF EnsureFinalizer, wardenFrame, pivotVars, IInv, WorkerTypes
  <1>2. Started
    BY <1>1, AdmittedStarted DEF Exact
  <1>3. CASE child' = child /\ worker' = AtRest /\ queue' = queue \cup {worker.key}
    BY <1>1, <1>3, RequeueExact
  <1>4. CASE /\ child[k] # None
             /\ child' = [child EXCEPT ![k].fin = TRUE]
             /\ worker' = [worker EXCEPT !.pc = "read"] /\ queue' = queue
    <2>1. worker' = [pc |-> "read", key |-> worker.key, obj |-> worker.obj,
                     status |-> worker.status]
      BY <1>4 DEF IInv, WorkerTypes
    <2>2. /\ \A j : (Stirs(j) <=> Stirs(j)') /\ (At(j) <=> At(j)')
          /\ worker'.obj = worker.obj /\ worker'.pc = "read"
      BY <1>1, <1>4, <2>1 DEF Stirs, At
    <2>3. \A j \in Children : /\ child'[j] # None => child[j] # None
                              /\ child[j] # None => Like(child[j], child'[j])
      BY <1>1, <1>4 DEF IInv, ChildTypes, Child, Like
    <2>4. KnownInv'
      BY <1>1, <2>2, <2>3 DEF Exact, KnownInv, Like
    <2>5. ListInv'
      BY <1>1, <2>2, <2>3 DEF Exact, ListInv, Like
    <2>6. SumOf(child', parent.status.subs) = SumOf(child, parent.status.subs)
      <3>1. \A j \in parent.status.subs : child'[j].hard = child[j].hard
        BY <2>3 DEF IInv, ListedExist, ParentInv, ParentLike, StatusLike, Like
      <3> QED BY ONLY <3>1, SumSame
    <2>7. CountInv'
      BY <1>1, <2>2, <2>6 DEF Exact, CountInv
    <2>8. StartInv'
      BY <1>1, <1>2, <2>2, StaysStarted DEF Exact
    <2> QED BY <2>4, <2>5, <2>7, <2>8 DEF Exact
  <1> QED BY <1>3, <1>4 DEF EnsureFinalizer, Goto, Requeue

\* A key is only dropped for a child that is gone or has an event.
LEMMA ReconcileExact ==
  ASSUME IInv, parent # None, Exact, NEW k \in Children, Reconcile(k) PROVE Exact'
  <1> DEFINE obj == seen[k]
  <1>1. /\ UNCHANGED <<child, review, seen, events, parent, pSeen, pEvent, pQueue, pWorker>>
        /\ worker.pc = "idle" /\ queue' = queue \ {k} /\ k \in queue
    BY DEF Reconcile, wardenFrame, pivotVars
  <1>2. /\ \A j \in Children : ~At(j) /\ Stirs(k)
        /\ \A j \in Children : j # k => (Stirs(j) <=> Stirs(j)')
        /\ Stirs(k)' <=> k \in events
    BY <1>1 DEF Stirs, At
  <1>3. CASE obj = None \/ (obj.del /\ ~obj.fin)
    <2>1. worker' = AtRest
      BY <1>3 DEF Reconcile
    <2>2. child[k] # None => Stirs(k)'
      BY <1>2, <1>3 DEF IInv, SeenInv, Exact, KnownInv
    <2>3. (\A j \in Children : ~At(j)') /\ worker'.pc = "idle"
      BY <2>1 DEF At, AtRest
    <2>4. KnownInv'
      BY <1>1, <2>3 DEF Exact, KnownInv
    <2>5. ListInv'
      BY <1>1, <1>2, <2>2, <2>3 DEF Exact, ListInv
    <2>6. \A j \in parent.status.subs : j \in Children /\ child[j] # None
      BY DEF IInv, ListedExist, ParentInv, ParentLike, StatusLike
    <2>7. CountInv'
      BY <1>1, <1>2, <2>2, <2>3, <2>6 DEF Exact, CountInv
    <2>8. StartInv'
      BY <1>1, <2>3 DEF Exact, StartInv, Dormant, Started
    <2> QED BY <2>4, <2>5, <2>7, <2>8 DEF Exact
  <1>4. CASE obj # None /\ ~(obj.del /\ ~obj.fin)
    <2>1. worker' = [pc |-> IF obj.fin THEN "read" ELSE "finalizer", key |-> k,
                     obj |-> obj, status |-> None]
      BY <1>4 DEF Reconcile
    <2>2. /\ \A j \in Children : At(j)' <=> j = k
          /\ worker'.pc \notin {"idle", "refresh", "write"} /\ worker'.obj = seen[k]
      BY <2>1 DEF At
    <2>3. KnownInv'
      BY <1>1, <1>2, <2>2 DEF Exact, KnownInv
    <2>4. ListInv'
      BY <1>1, <1>2, <2>2 DEF Exact, ListInv
    <2>5. parent.status.subs \subseteq Children
      BY DEF IInv, ParentInv, ParentLike, StatusLike
    <2>6. CountInv'
      BY <1>1, <1>2, <2>2, <2>5 DEF Exact, CountInv
    <2>7. Started
      BY <1>4, AdmittedStarted DEF Exact
    <2>8. StartInv'
      BY <1>1, <2>2, <2>7, StaysStarted DEF Exact
    <2> QED BY <2>3, <2>4, <2>6, <2>8 DEF Exact
  <1> QED BY <1>3, <1>4

\* The child at hand is put in the list, or taken off when it is under deletion.
LEMMA ReadParentExact ==
  ASSUME IInv, parent # None, Exact, ReadParent PROVE Exact'
  <1> DEFINE subs == IF worker.obj.del THEN parent.status.subs \ {worker.key}
                                       ELSE parent.status.subs \cup {worker.key}
             new == [parent.status EXCEPT !.subs = subs]
  <1>1. /\ UNCHANGED <<child, seen, events, queue, parent, pSeen, pEvent, pQueue, pWorker>>
        /\ worker.pc = "read" /\ worker.key \in Children
    BY DEF ReadParent, wardenFrame, pivotVars, IInv, WorkerTypes
  <1>2. Started
    BY <1>1, AdmittedStarted DEF Exact
  <1>3. new.subs = subs /\ new.used = parent.status.used
    BY DEF IInv, ParentInv, ParentLike, StatusLike
  <1>4. worker' = [pc |-> "refresh", key |-> worker.key, obj |-> worker.obj, status |-> new]
    <2>1. new = [parent.status EXCEPT
                   !.subs = IF worker.obj.del THEN @ \ {worker.key} ELSE @ \cup {worker.key}]
      OBVIOUS
    <2>2. worker' = [worker EXCEPT !.pc = "refresh", !.status = new]
      BY <2>1 DEF ReadParent
    <2> HIDE DEF new
    <2> QED BY <2>2 DEF IInv, WorkerTypes
  <1> HIDE DEF new
  <1>5. /\ \A j \in Children : (Stirs(j) <=> Stirs(j)') /\ (At(j) <=> At(j)')
        /\ worker'.obj = worker.obj /\ worker'.pc = "refresh" /\ worker'.status = new
    BY <1>1, <1>4 DEF Stirs, At
  <1>6. KnownInv'
    BY <1>1, <1>5 DEF Exact, KnownInv
  <1>7. ListInv'
    <2>1. \A j \in Children : At(j) <=> j = worker.key
      BY <1>1 DEF At
    <2>2. ASSUME NEW j \in Children, child[j] # None, ~Stirs(j), ~(At(j) /\ worker.obj.del)
          PROVE  j \in subs
      BY <2>1, <2>2 DEF Exact, ListInv
    <2> HIDE DEF subs
    <2> QED BY <1>1, <1>3, <1>5, <2>2 DEF Exact, ListInv
  <1>8. CountInv'
    <2>1. parent.status.subs \subseteq Children
      BY DEF IInv, ParentInv, ParentLike, StatusLike
    <2> QED BY <1>1, <1>5, <2>1 DEF Exact, CountInv
  <1>9. StartInv'
    BY <1>1, <1>2, <1>3, <1>5, StaysStarted DEF Exact, Started
  <1> QED BY <1>6, <1>7, <1>8, <1>9 DEF Exact

\* What is counted is what there is, or a child of the list has an event.
LEMMA RefreshExact ==
  ASSUME IInv, parent # None, Exact, Refresh PROVE Exact'
  <1> DEFINE subs == {j \in worker.status.subs : j = worker.key \/ seen[j] # None}
             hards == [j \in subs |-> IF j = worker.key THEN worker.obj.hard ELSE seen[j].hard]
             new == [hard |-> worker.status.hard, used |-> Total(hards), subs |-> subs]
  <1>1. /\ UNCHANGED <<child, seen, events, queue, parent, pSeen, pEvent, pQueue, pWorker>>
        /\ worker.pc = "refresh" /\ worker.key \in Children /\ worker.obj \in Child
    BY DEF Refresh, wardenFrame, pivotVars, IInv, WorkerTypes
  <1>2. Started
    BY <1>1, AdmittedStarted DEF Exact
  <1>3. worker' = [pc |-> "write", key |-> worker.key, obj |-> worker.obj, status |-> new]
    <2>1. worker' = [worker EXCEPT !.pc = "write", !.status = new]
      BY <1>1, <1>2 DEF Refresh, Started, Counted
    <2> HIDE DEF new
    <2> QED BY <2>1 DEF IInv, WorkerTypes
  <1>4. /\ subs \subseteq Children
        /\ \A j \in subs : child[j] # None /\ (j # worker.key => seen[j] \in Child)
    <2>1. worker.status.subs \subseteq Children /\ \A j \in worker.status.subs : Live(j)
      BY <1>1 DEF IInv, WorkerTypes, WorkerInv, StatusLike
    <2> QED BY <2>1 DEF Live, IInv, ChildTypes
  <1>5. hards \in [subs -> Nat]
    BY <1>1, <1>4 DEF Child
  <1>6. Total(hards) \in Nat
    <2>1. IsFiniteSet(subs)
      BY ONLY <1>4, ChildrenAssumption, FS_Subset
    <2> HIDE DEF subs, hards
    <2> QED BY <1>5, <2>1, TotalIsNat
  <1>7. (\A j \in subs : ~Stirs(j)) => Total(hards) = SumOf(child, subs)
    <2>1. \A j \in Children : At(j) <=> j = worker.key
      BY <1>1 DEF At
    <2>2. ASSUME NEW j \in subs, ~Stirs(j) PROVE hards[j] = child[j].hard
      BY <1>4, <2>1, <2>2 DEF Exact, KnownInv, Like, Stirs
    <2>3. ASSUME \A j \in subs : ~Stirs(j)
          PROVE  hards = [j \in subs |-> child[j].hard]
      <3>1. \A j \in subs : hards[j] = child[j].hard
        BY <2>2, <2>3
      <3> QED BY <3>1
    <2> QED BY <2>3 DEF SumOf
  <1>8. new.subs = subs /\ new.used = Total(hards)
    OBVIOUS
  <1> HIDE DEF new, hards
  <1>9. /\ \A j \in Children : (Stirs(j) <=> Stirs(j)') /\ (At(j) <=> At(j)')
        /\ worker'.obj = worker.obj /\ worker'.pc = "write" /\ worker'.status = new
    BY <1>1, <1>3 DEF Stirs, At
  <1>10. KnownInv'
    BY <1>1, <1>9 DEF Exact, KnownInv
  <1>11. ListInv'
    <2>1. ASSUME NEW j \in Children, child[j] # None, ~Stirs(j), j \in worker.status.subs
          PROVE  j \in subs
      BY <2>1 DEF Exact, KnownInv, Stirs
    <2> HIDE DEF subs
    <2> QED BY <1>1, <1>8, <1>9, <2>1 DEF Exact, ListInv
  <1>12. CountInv'
    <2> HIDE DEF subs
    <2>1. parent.status.subs \subseteq Children
      BY DEF IInv, ParentInv, ParentLike, StatusLike
    <2> QED BY <1>1, <1>4, <1>7, <1>8, <1>9, <2>1 DEF Exact, CountInv
  <1>13. StartInv'
    <2>1. Total(hards) # None
      BY <1>6, NoneAssumption
    <2> QED BY <1>1, <1>2, <1>8, <1>9, <2>1, StaysStarted DEF Exact
  <1> QED BY <1>10, <1>11, <1>12, <1>13 DEF Exact

\* The list that was made becomes the parent's.
LEMMA WriteStatusExact ==
  ASSUME IInv, parent # None, Exact, WriteStatus PROVE Exact'
  <1>1. /\ UNCHANGED <<child, seen, events, queue, pSeen, pQueue, pWorker>>
        /\ worker.pc = "write" /\ worker.key \in Children
        /\ pEvent' = (pEvent \/ parent.del)
        /\ parent' = [parent EXCEPT !.status = worker.status]
    BY DEF WriteStatus, SetStatus, Goto, Done, IInv, WorkerTypes
  <1>2. Started
    BY <1>1, AdmittedStarted DEF Exact
  <1>3. parent'.status = worker.status /\ parent'.del = parent.del
    BY <1>1 DEF IInv, ParentInv, ParentLike
  <1>4. worker.status.subs \subseteq Children
    BY <1>1 DEF IInv, WorkerTypes, StatusLike
  <1>5. \/ worker.obj.del /\ worker' = [worker EXCEPT !.pc = "unfinalize"]
        \/ ~worker.obj.del /\ worker' = AtRest
    BY DEF WriteStatus, Goto, Done
  <1>6. /\ \A j \in Children : Stirs(j) <=> Stirs(j)'
        /\ \A j \in Children : At(j) <=> j = worker.key
        /\ \A j \in Children : At(j)' => At(j) /\ worker.obj.del /\ worker'.obj = worker.obj
        /\ \A j \in Children : At(j) /\ worker.obj.del => At(j)'
        /\ worker'.pc \notin {"refresh", "write"}
    <2>1. CASE worker.obj.del
      <3>1. worker' = [pc |-> "unfinalize", key |-> worker.key, obj |-> worker.obj,
                       status |-> worker.status]
        BY <1>5, <2>1 DEF IInv, WorkerTypes
      <3> QED BY <1>1, <2>1, <3>1 DEF Stirs, At
    <2>2. CASE ~worker.obj.del
      BY <1>1, <1>5, <2>2 DEF Stirs, At, AtRest
    <2> QED BY <2>1, <2>2
  <1>7. KnownInv'
    BY <1>1, <1>6 DEF Exact, KnownInv
  <1>8. ListInv'
    <2>1. ASSUME NEW j \in Children, child[j] # None, ~Stirs(j), ~(At(j) /\ worker.obj.del)
          PROVE  j \in worker.status.subs /\ ~child[j].del
      BY <1>1, <2>1 DEF Exact, ListInv, KnownInv, Like
    <2> QED BY <1>1, <1>3, <1>6, <2>1 DEF ListInv
  <1>9. CountInv'
    BY <1>1, <1>3, <1>4, <1>6 DEF Exact, CountInv
  <1>10. StartInv'
    BY <1>1, <1>2, <1>3, <1>6 DEF Exact, StartInv, Started
  <1> QED BY <1>7, <1>8, <1>9, <1>10 DEF Exact

\* The parent goes, or keeps its status: only what is started has to be looked at.
LEMMA PivotFrame ==
  ASSUME Exact, UNCHANGED <<child, seen, events, queue, worker>>,
         parent' # None => parent'.status = parent.status /\ StartInv'
  PROVE  ExactInv'
  BY ExactFrame DEF Exact, ExactInv

LEMMA ParentDeleteExact ==
  ASSUME IInv, parent # None, Exact, ParentDelete PROVE ExactInv'
  <1>1. /\ UNCHANGED <<child, review, seen, events, queue, worker, pSeen, pQueue, pWorker>>
        /\ parent' = None \/ parent' = [parent EXCEPT !.del = TRUE]
    BY DEF ParentDelete, wardenVars
  <1>2. CASE parent' = None
    BY <1>2 DEF ExactInv
  <1>3. CASE parent' = [parent EXCEPT !.del = TRUE]
    <2>1. parent'.status = parent.status /\ parent'.del
      BY <1>3 DEF IInv, ParentInv, ParentLike
    <2>2. StartInv'
      BY <1>1, <2>1 DEF Exact, StartInv, Started, Dormant
    <2> QED BY <1>1, <2>1, <2>2, PivotFrame
  <1> QED BY <1>1, <1>2, <1>3

LEMMA PDeliverExact ==
  ASSUME parent # None, Exact, PDeliver PROVE ExactInv'
  <1>1. /\ UNCHANGED <<child, review, seen, events, queue, worker, parent, pWorker>>
        /\ pSeen' = parent /\ pEvent' = FALSE /\ pQueue' = (pQueue \/ pEvent)
    BY DEF PDeliver, pivotFrame, wardenVars
  <1>2. StartInv'
    BY <1>1 DEF Exact, StartInv, Started, Dormant
  <1> QED BY <1>1, <1>2, PivotFrame

LEMMA PReconcileExact ==
  ASSUME parent # None, Exact, PReconcile PROVE ExactInv'
  <1>1. /\ UNCHANGED <<child, review, seen, events, queue, worker, parent, pSeen, pEvent>>
        /\ pQueue /\ pQueue' = FALSE
        /\ \/ pWorker'.pc = "idle"
           \/ /\ pWorker'.obj = pSeen
              /\ pSeen.del <=> pWorker'.pc = "unfinalize"
    BY RestIsNoRecord DEF PReconcile, pivotFrame, wardenVars
  <1>2. StartInv'
    BY <1>1 DEF Exact, StartInv, Started, Dormant
  <1> QED BY <1>1, <1>2, PivotFrame

LEMMA PEnsureFinalizerExact ==
  ASSUME IInv, parent # None, Exact, PEnsureFinalizer PROVE ExactInv'
  <1>1. /\ UNCHANGED <<child, review, seen, events, queue, worker, pSeen, pEvent>>
        /\ pWorker.pc = "finalizer"
    BY DEF PEnsureFinalizer, pivotFrame, wardenVars
  <1>2. Dormant
    BY <1>1 DEF Exact, StartInv, Started
  <1>3. CASE parent' = parent /\ pWorker' = PAtRest
    <2>1. StartInv'
      BY <1>1, <1>2, <1>3, RestIsNoRecord DEF Exact, StartInv, Dormant
    <2> QED BY <1>1, <1>3, <2>1, PivotFrame
  <1>4. CASE /\ parent' = [parent EXCEPT !.fin = TRUE]
             /\ pWorker' = [pc |-> "status", obj |-> parent'] /\ pQueue' = pQueue
    <2>1. parent'.status = parent.status /\ parent'.del = parent.del /\ pWorker'.obj = parent'
          /\ pWorker'.pc = "status"
      BY <1>4 DEF IInv, ParentInv, ParentLike
    <2>2. StartInv'
      BY <1>1, <1>2, <1>4, <2>1 DEF Exact, StartInv, Dormant
    <2> QED BY <1>1, <2>1, <2>2, PivotFrame
  <1> QED BY <1>3, <1>4 DEF PEnsureFinalizer, PGoto, PRequeue

LEMMA PRemoveFinalizerExact ==
  ASSUME parent # None, Exact, PRemoveFinalizer PROVE ExactInv'
  <1>1. /\ UNCHANGED <<child, review, seen, events, queue, worker, pSeen>>
        /\ pWorker.pc = "unfinalize" /\ pWorker' = PAtRest
        /\ parent' = None \/ (parent' = parent /\ pEvent' = pEvent /\ pQueue' = TRUE)
    BY DEF PRemoveFinalizer, pivotFrame, wardenVars, PDone, PRequeue
  <1>2. CASE parent' = None
    BY <1>2 DEF ExactInv
  <1>3. CASE parent' = parent /\ pEvent' = pEvent /\ pQueue' = TRUE
    <2>1. StartInv'
      BY <1>1, <1>3, RestIsNoRecord DEF Exact, StartInv, Dormant, Started
    <2> QED BY <1>1, <1>3, <2>1, PivotFrame
  <1> QED BY <1>1, <1>2, <1>3

\* There is nobody to be counted when the status is initialised.
LEMMA PStatusExact ==
  ASSUME IInv, parent # None, Exact, PStatus PROVE ExactInv'
  <1>1. /\ UNCHANGED <<child, review, seen, events, queue, worker, pSeen>>
        /\ pWorker.pc = "status" /\ ParentLike(pWorker.obj)
    BY DEF PStatus, pivotFrame, wardenVars, IInv, ParentInv
  <1>2. Dormant
    BY <1>1 DEF Exact, StartInv, Started
  <1> DEFINE init == InitStatus(pWorker.obj)
  <1>3. /\ pWorker.obj.status = NoStatus /\ NoStatus.used = None
        /\ init.used = 0 /\ init.subs = {} /\ init # NoStatus /\ 0 # None
    <2>1. 0 # None
      BY NoneAssumption
    <2>2. init.used = 0 /\ init.subs = {} /\ NoStatus.used = None
      BY DEF NoStatus, InitStatus
    <2> HIDE DEF init
    <2> QED BY <1>1, <1>2, <2>1, <2>2 DEF Dormant
  <1>4. /\ parent' = [parent EXCEPT !.status = init]
        /\ pWorker' = PAtRest /\ pQueue' = pQueue /\ pEvent' = (pEvent \/ parent.del)
    <2> HIDE DEF init
    <2> QED BY <1>1, <1>3 DEF PStatus, PDone, SetStatus, init
  <1> HIDE DEF init
  <1>5. parent'.status = init /\ parent'.del = parent.del
    BY <1>4 DEF IInv, ParentInv, ParentLike
  <1>6. KnownInv' /\ ListInv'
    BY <1>1, <1>2 DEF Dormant, KnownInv, ListInv
  <1>7. CountInv'
    <2>1. [k \in {} |-> child'[k].hard] \in [{} -> Nat]
      OBVIOUS
    <2>2. SumOf(child', {}) = 0
      BY ONLY <2>1, FS_EmptySet, TotalIsNat DEF SumOf
    <2> QED BY <1>1, <1>2, <1>3, <1>5, <2>2 DEF CountInv, Dormant
  <1>8. StartInv'
    BY <1>1, <1>2, <1>3, <1>4, <1>5, RestIsNoRecord DEF Exact, StartInv, Dormant, Started
  <1> QED BY <1>6, <1>7, <1>8 DEF Exact, ExactInv

-----------------------------------------------------------------------------
(* The theorem about the parent at rest.                                     *)

LEMMA InitExact ==
  ASSUME Init PROVE ExactInv
  <1>1. PICK h \in ParentHards :
          parent = [hard |-> h, fin |-> FALSE, del |-> FALSE, status |-> NoStatus]
    BY DEF Init
  <1>2. parent.status = NoStatus /\ parent.del = FALSE /\ pSeen = parent
    BY <1>1 DEF Init
  <1>3. KnownInv /\ ListInv /\ CountInv
    BY <1>2 DEF Init, KnownInv, ListInv, CountInv, AtRest
  <1>4. parent # None => StartInv
    <2>1. pWorker.pc = "idle" /\ worker.pc = "idle"
      BY RestIsNoRecord DEF Init
    <2> QED BY <1>2, <2>1 DEF Init, StartInv, Dormant
  <1> QED BY <1>3, <1>4 DEF ExactInv, Exact

\* A parent that is gone does not come back.
LEMMA ExactStep ==
  ASSUME edits' = 0, IInv, ExactInv, [Next]_vars PROVE ExactInv'
  <1>1. CASE parent = None
    <2>1. parent' = None
      BY <1>1 DEF Next, Users, Warden, Pivot, Review, Persist, ChildDelete, ParentEdit,
           ParentDelete, Reconcile, EnsureFinalizer, ReadParent, Refresh, WriteStatus,
           RemoveFinalizer, PReconcile, PEnsureFinalizer, PStatus, PRemoveFinalizer,
           PDeliver, Deliver, wardenFrame, pivotFrame, vars
    <2> QED BY <2>1 DEF ExactInv
  <1>2. CASE parent # None
    <2>1. Exact
      BY <1>2 DEF ExactInv
    <2>2. ASSUME NEW k \in Children,
                 Review(k) \/ Persist(k) \/ ChildDelete(k) \/ Reconcile(k) \/ Deliver(k)
          PROVE  ExactInv'
      BY <1>2, <2>1, <2>2, ReviewExact, PersistExact, ChildDeleteExact, ReconcileExact,
         DeliverExact DEF ExactInv
    <2>3. CASE EnsureFinalizer \/ ReadParent \/ Refresh \/ WriteStatus \/ RemoveFinalizer
      BY <1>2, <2>1, <2>3, EnsureFinalizerExact, ReadParentExact, RefreshExact,
         WriteStatusExact, RemoveFinalizerExact DEF ExactInv
    <2>4. CASE PReconcile \/ PEnsureFinalizer \/ PStatus \/ PRemoveFinalizer \/ PDeliver
      BY <1>2, <2>1, <2>4, PReconcileExact, PEnsureFinalizerExact, PStatusExact,
         PRemoveFinalizerExact, PDeliverExact
    <2>5. CASE ParentDelete
      BY <1>2, <2>1, <2>5, ParentDeleteExact
    <2>6. ~ParentEdit
      BY DEF ParentEdit, IInv, ChildTypes
    <2>7. CASE UNCHANGED vars
      <3>1. UNCHANGED <<child, review, seen, events, queue, worker, parent, pSeen, pEvent,
                        pQueue, pWorker>>
        BY <2>7 DEF vars, wardenVars, pivotVars
      <3>2. StartInv'
        BY <2>1, <3>1 DEF Exact, StartInv, Dormant, Started
      <3> QED BY <2>1, <3>1, <3>2, PivotFrame
    <2> QED BY <2>2, <2>3, <2>4, <2>5, <2>6, <2>7 DEF Next, Users, Warden, Pivot
  <1> QED BY <1>1, <1>2

\* While nobody edits the parent's hard, a warden that has handled every event leaves a
\* CubeResourceQuota that lists the ResourceQuotas there are, with none of them under
\* deletion, and whose used is what they ask for: for any finite set of children, any
\* creations, updates and deletions, and however late the informers are (Reconcile and
\* refreshUsedResource).
THEOREM ParentIsExactAtRest == Spec => []ParentIsExact
  <1> DEFINE Unedited == edits \in Nat /\ (edits = 0 => IInv /\ ExactInv)
  <1>1. Init => Unedited
    <2>1. Init => edits = 0
      BY DEF Init
    <2> QED BY <2>1, InitStep, InitExact
  <1>2. Unedited /\ [Next]_vars => Unedited'
    <2> SUFFICES ASSUME Unedited, [Next]_vars PROVE Unedited'
      OBVIOUS
    <2>1. edits' \in Nat /\ (edits' = 0 => edits = 0)
      BY EditsGrow
    <2>2. edits' = 0 => IInv' /\ ExactInv'
      BY <2>1, QuotaStep, ExactStep
    <2> QED BY <2>1, <2>2
  <1>3. Unedited => ParentIsExact
    <2> SUFFICES ASSUME IInv, ExactInv, edits = 0, Handled, parent # None
                 PROVE  /\ parent.status.subs = {k \in Children : child[k] # None}
                        /\ parent.status = NoStatus \/ parent.status.used = Asked
                        /\ \A k \in Children : child[k] # None => ~child[k].del
      BY DEF ParentIsExact
    <2>1. \A k \in Children : ~Stirs(k) /\ ~At(k)
      BY DEF Handled, Stirs, At
    <2>2. parent.status.subs \subseteq Children
      BY DEF IInv, ParentInv, ParentLike, StatusLike
    <2>3. \A k \in Children : child[k] # None => k \in parent.status.subs /\ ~child[k].del
      BY <2>1 DEF ExactInv, Exact, ListInv
    <2>4. parent.status.subs = {k \in Children : child[k] # None}
      BY <2>2, <2>3 DEF IInv, ListedExist
    <2>5. parent.status = NoStatus \/ parent.status.used = SumOf(child, parent.status.subs)
      BY <2>1, <2>2 DEF ExactInv, Exact, CountInv
    <2>6. Asked = SumOf(child, parent.status.subs)
      BY <2>4 DEF Asked, SumOf
    <2> QED BY <2>3, <2>4, <2>5, <2>6
  <1> QED BY <1>1, <1>2, <1>3, PTL DEF Spec
=============================================================================
