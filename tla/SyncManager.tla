---------------------------- MODULE SyncManager ----------------------------
(***************************************************************************)
(* The sync manager of a member cluster's warden (pkg/warden/syncmgr): a   *)
(* controller on the pivot cluster's informer that copies every synced     *)
(* object of one kind into the member cluster, and the garbage collection  *)
(* that runs once, beside it, when the warden starts.                      *)
(*                                                                         *)
(* An object's content is abstracted to the resource version the pivot     *)
(* cluster gave it.  Each API call is a step of its own; the reads the     *)
(* reconciler makes of the pivot cluster go to the informer's cache.       *)
(***************************************************************************)
EXTENDS Integers, FiniteSets

CONSTANTS
  Keys,        \* namespaced names of the synced kind
  None,        \* no object
  NoRV,        \* the empty string in the annotation pivotResourceVersion
  Guarded,     \* the kind is Tenant or Project: the member's webhook denies
               \* its deletion without the force-delete annotation
  Finalized,   \* local controllers put a finalizer on the copies
  Unsync,      \* users may clear the annotation kubecube.io/sync
  MaxRV,       \* bound: writes to the pivot cluster
  MaxTime,     \* bound: seconds the clock advances
  MaxCrash,    \* bound: restarts of the warden that are not panics
  MaxFails     \* bound: calls that fail

ASSUME FlagAssumption ==
  /\ Guarded \in BOOLEAN /\ Finalized \in BOOLEAN
  /\ Unsync \in BOOLEAN

ASSUME BoundAssumption ==
  MaxRV \in Nat /\ MaxTime \in Nat /\ MaxCrash \in Nat /\ MaxFails \in Nat

\* uid numbers the incarnations of a name: the version that created this one.
PivotObj == [uid : Nat, rv : Nat, ct : Nat, sync : BOOLEAN]

\* src is the pivot version of the content, ann the annotation
\* pivotResourceVersion that labels it.
LocalObj == [src : Nat, ann : Nat \cup {NoRV}, ct : Nat, sync : BOOLEAN,
             del : BOOLEAN, force : BOOLEAN]

ASSUME NoneAssumption ==
  None \notin PivotObj /\ None \notin LocalObj /\ None \notin Nat
  /\ None \notin Keys /\ NoRV \notin Nat

VARIABLES
  rv,          \* the pivot cluster's last resource version
  now,         \* the clock both clusters share, in seconds
  pivot,       \* pivot[k]: the object in the pivot cluster
  pend,        \* pend[k]: an event on k that passes the filter is under way
  cache,       \* cache[k]: the object in the warden's informer of the pivot
  listed,      \* the informer has its first list, and the controller runs
  queue,       \* the controller's work queue
  held,        \* what the object the reconciler shares between requests holds
  worker,      \* the reconciliation in progress
  local,       \* local[k]: the object in the member cluster
  gc,          \* the start-up garbage collection
  crashes,     \* restarts so far
  fails,       \* calls that failed so far
  mark,        \* history: the highest version ever written under k
  missed       \* history: missed[k]: the first list already lacked the object
               \* of a copy, so that no event tells the controller; the
               \* collector was still to come to k ("due") or past it

vars == <<rv, now, pivot, pend, cache, listed, queue, held, worker, local, gc,
          crashes, fails, mark, missed>>
pivotVars == <<rv, now, pivot>>
procVars == <<pend, cache, listed, queue, held, worker, gc, crashes, fails>>

Phase == {"get", "delGet", "force", "delete", "create", "update"}

Idle == [pc |-> "idle", key |-> None, obj |-> None, ann |-> NoRV, loc |-> None]

GcAt(pc, todo, key) == [pc |-> pc, todo |-> todo, key |-> key]

TypeOK ==
  /\ rv \in Nat
  /\ now \in Nat
  /\ pivot \in [Keys -> PivotObj \cup {None}]
  /\ pend \in [Keys -> BOOLEAN]
  /\ cache \in [Keys -> PivotObj \cup {None}]
  /\ listed \in BOOLEAN
  /\ queue \in SUBSET Keys
  /\ held \in PivotObj \cup {None}
  /\ worker \in [pc : Phase \cup {"idle"}, key : Keys \cup {None},
                 obj : PivotObj \cup {None}, ann : Nat \cup {NoRV},
                 loc : LocalObj \cup {None}]
  /\ local \in [Keys -> LocalObj \cup {None}]
  /\ gc \in [pc : {"list", "check", "delete", "done"}, todo : SUBSET Keys,
             key : Keys \cup {None}]
  /\ crashes \in Nat
  /\ fails \in Nat
  /\ mark \in [Keys -> Nat]
  /\ missed \in [Keys -> {"no", "due", "passed"}]

Init ==
  /\ rv = 0
  /\ now = 0
  /\ pivot = [k \in Keys |-> None]
  /\ pend = [k \in Keys |-> FALSE]
  /\ cache = [k \in Keys |-> None]
  /\ listed = FALSE
  /\ queue = {}
  /\ held = None
  /\ worker = Idle
  /\ local = [k \in Keys |-> None]
  /\ gc = GcAt("list", {}, None)
  /\ crashes = 0
  /\ fails = 0
  /\ mark = [k \in Keys |-> 0]
  /\ missed = [k \in Keys |-> "no"]

-----------------------------------------------------------------------------
(* The pivot cluster: its users, and the watch that feeds the informer.    *)

SyncChoices == IF Unsync THEN BOOLEAN ELSE {TRUE}

\* A write to the pivot cluster: the event it raises passes the filter when
\* its object (the last state of a deleted one) is a sync resource and the
\* informer is watching.
PivotWrite(k, obj, passes) ==
  /\ rv < MaxRV
  /\ rv' = rv + 1
  /\ pivot' = [pivot EXCEPT ![k] = obj]
  /\ pend' = [pend EXCEPT ![k] = @ \/ (passes /\ listed)]
  /\ missed' = IF pivot[k] = None THEN [missed EXCEPT ![k] = "no"] ELSE missed
  /\ UNCHANGED <<now, cache, listed, queue, held, worker, local, gc, crashes, fails, mark>>

PivotCreate(k) ==
  /\ pivot[k] = None
  /\ \E s \in SyncChoices :
       PivotWrite(k, [uid |-> rv + 1, rv |-> rv + 1, ct |-> now, sync |-> s], s)

PivotUpdate(k) ==
  /\ pivot[k] # None
  /\ \E s \in SyncChoices :
       PivotWrite(k, [pivot[k] EXCEPT !.rv = rv + 1, !.sync = s], s)

PivotDelete(k) ==
  /\ pivot[k] # None
  /\ PivotWrite(k, None, pivot[k].sync)

Tick ==
  /\ now < MaxTime
  /\ now' = now + 1
  /\ UNCHANGED <<rv, pivot, procVars, local, mark, missed>>

\* The informer catches up with k; eventPredicate decides on the queue.
Deliver(k) ==
  /\ listed
  /\ cache[k] # pivot[k] \/ pend[k]
  /\ cache' = [cache EXCEPT ![k] = pivot[k]]
  /\ queue' = IF pend[k] THEN queue \cup {k} ELSE queue
  /\ pend' = [pend EXCEPT ![k] = FALSE]
  /\ UNCHANGED <<pivotVars, listed, held, worker, local, gc, crashes, fails, mark, missed>>

\* The informer's periodic resync is an update event of a cached object.
Resync(k) ==
  /\ cache[k] # None
  /\ cache[k].sync
  /\ queue' = queue \cup {k}
  /\ UNCHANGED <<pivotVars, pend, cache, listed, held, worker, local, gc, crashes,
                 fails, mark, missed>>

-----------------------------------------------------------------------------
(* The process: start, restart and panic.                                  *)

\* A start: Initialize starts the garbage collection; the informer is still empty.
Restart ==
  /\ cache' = [k \in Keys |-> None]
  /\ listed' = FALSE
  /\ pend' = [k \in Keys |-> FALSE]
  /\ queue' = {}
  /\ held' = None
  /\ worker' = Idle
  /\ gc' = GcAt("list", {}, None)
  /\ UNCHANGED <<pivotVars, local, fails, mark, missed>>

\* The collector will come to k.
Due(k) ==
  \/ gc.pc = "list"
  \/ gc.pc \in {"check", "delete"} /\ k \in gc.todo
  \/ gc.pc = "delete" /\ gc.key = k

Missed(k) == pivot[k] = None /\ local[k] # None

\* Run starts the informers, at any moment of the collection: the first list
\* is a create event per object, and the workers start when it is there.
InitialList ==
  /\ ~listed
  /\ listed' = TRUE
  /\ cache' = pivot
  /\ queue' = {k \in Keys : pivot[k] # None /\ pivot[k].sync}
  /\ missed' = [k \in Keys |-> IF ~Missed(k) THEN "no" ELSE IF Due(k) THEN "due" ELSE "passed"]
  /\ UNCHANGED <<pivotVars, pend, held, worker, local, gc, crashes, fails, mark>>

Crash ==
  /\ crashes < MaxCrash
  /\ crashes' = crashes + 1
  /\ Restart

-----------------------------------------------------------------------------
(* The reconciler.                                                         *)

workerFrame == <<pivotVars, pend, cache, listed, gc, crashes, missed>>

Fail == fails < MaxFails /\ fails' = fails + 1
NoFail == UNCHANGED fails

Goto(pc, obj, ann, loc) ==
  worker' = [pc |-> pc, key |-> worker.key, obj |-> obj, ann |-> ann, loc |-> loc]

\* The reconciliation ends without an error ...
Done == worker' = Idle /\ UNCHANGED queue

\* (mutant of Retry: the key is read after the request was dropped)
RetryLosingKey == worker' = Idle /\ queue' = queue \cup {Idle.key}

\* ... or with one, which puts the request back on the queue.
Retry == worker' = Idle /\ queue' = queue \cup {worker.key}

\* Reading the cache.  trimObjMeta writes into the annotation map of the
\* object just read, or, when nothing was found, of the object the previous
\* request left behind: without a map the process panics.
Pop(k) ==
  /\ worker.pc = "idle"
  /\ k \in queue
  /\ cache[k] # None \/ held # None
  /\ queue' = queue \ {k}
  /\ worker' = [pc |-> IF cache[k] = None THEN "delGet" ELSE "get", key |-> k,
                obj |-> cache[k], ann |-> NoRV, loc |-> None]
  /\ held' = IF cache[k] = None THEN held ELSE cache[k]
  /\ UNCHANGED <<workerFrame, fails, local, mark>>

Panic(k) ==
  /\ worker.pc = "idle"
  /\ k \in queue
  /\ IF cache[k] = None THEN held = None ELSE ~cache[k].sync
  /\ UNCHANGED crashes
  /\ Restart

\* (mutant of NewObject: the same second counts as later)
SameSecondIsNew(obj, loc) == obj.ct >= loc.ct

\* A pivot object created after the copy is a new object of the same name.
NewObject(obj, loc) == obj.ct > loc.ct

\* getLocalObj: trimObjMeta moves the resource version into the annotation
\* and clears it; then the copy is read and compared.
GetLocal ==
  LET k == worker.key
      obj == worker.obj
      loc == local[k]
  IN  /\ worker.pc = "get"
      /\ \/ /\ loc = None
            /\ Goto("create", obj, obj.rv, None)
            /\ UNCHANGED queue
         \/ /\ loc # None
            /\ NewObject(obj, loc)
            /\ Goto("delGet", obj, obj.rv, None)
            /\ UNCHANGED queue
         \/ /\ loc # None
            /\ ~NewObject(obj, loc)
            /\ loc.ann = NoRV
            /\ Retry
         \/ /\ loc # None
            /\ ~NewObject(obj, loc)
            /\ loc.ann # NoRV
            /\ obj.rv > loc.ann
            /\ Goto("update", obj, obj.rv, loc)
            /\ UNCHANGED queue
         \/ /\ loc # None
            /\ ~NewObject(obj, loc)
            /\ loc.ann # NoRV
            /\ obj.rv <= loc.ann
            /\ Done
      /\ UNCHANGED <<workerFrame, fails, held, local, mark>>

\* (mutant of AfterDelete: the return after the deletion is missing)
AfterDeleteGoingOn ==
  /\ Goto("create", held, worker.ann, None)
  /\ UNCHANGED queue

\* After deleteObjFunc: the request is finished when the pivot object is
\* gone, and goes on to re-create the copy otherwise.
AfterDelete ==
  /\ IF worker.obj = None THEN worker' = Idle
                          ELSE Goto("create", worker.obj, worker.ann, None)
  /\ UNCHANGED queue

\* deleteObjFunc reads the copy through getLocalObj, which runs trimObjMeta
\* again: the resource version is empty by now, and so becomes the label.
DelGet ==
  /\ worker.pc = "delGet"
  /\ IF local[worker.key] = None
     THEN IF worker.obj = None THEN Done
          ELSE Goto("create", worker.obj, NoRV, None) /\ UNCHANGED queue
     ELSE /\ Goto(IF Guarded THEN "force" ELSE "delete", worker.obj, NoRV, None)
          /\ UNCHANGED queue
  /\ UNCHANGED <<workerFrame, fails, held, local, mark>>

\* (mutant of ForceDelete: the annotated object is not stored)
ForceDeleteUnstored ==
  /\ worker.pc = "force"
  /\ Goto("delete", worker.obj, worker.ann, None)
  /\ UNCHANGED <<workerFrame, fails, queue, held, local, mark>>

\* updateSpecialObjForDelete
ForceDelete ==
  LET k == worker.key
  IN  /\ worker.pc = "force"
      /\ local' = IF local[k] = None THEN local
                  ELSE [local EXCEPT ![k].force = TRUE]
      /\ Goto("delete", worker.obj, worker.ann, None)
      /\ UNCHANGED <<workerFrame, fails, queue, held, mark>>

\* What a deletion leaves: nothing, or an object waiting for its finalizer.
DeleteOutcomes(o) ==
  {None} \cup (IF Finalized THEN {[o EXCEPT !.del = TRUE]} ELSE {})

\* The member cluster's webhook on Tenant and Project.
DeleteDenied(o) == Guarded /\ ~o.force

DeleteLocal ==
  LET k == worker.key
  IN  /\ worker.pc = "delete"
      /\ IF local[k] = None THEN AfterDelete /\ UNCHANGED local
         ELSE IF DeleteDenied(local[k]) THEN Retry /\ UNCHANGED local
         ELSE /\ \E o \in DeleteOutcomes(local[k]) : local' = [local EXCEPT ![k] = o]
              /\ AfterDelete
      /\ UNCHANGED <<workerFrame, fails, held, mark>>

CreateLocal ==
  LET k == worker.key
  IN  /\ worker.pc = "create"
      /\ IF local[k] = None
         THEN /\ local' = [local EXCEPT ![k] =
                   [src |-> worker.obj.rv, ann |-> worker.ann, ct |-> now,
                    sync |-> worker.obj.sync, del |-> FALSE, force |-> FALSE]]
              /\ mark' = [mark EXCEPT ![k] = worker.obj.rv]
              /\ Done
         ELSE Retry /\ UNCHANGED <<local, mark>>
      /\ UNCHANGED <<workerFrame, fails, held>>

\* The update carries the resource version read in GetLocal.
UpdateLocal ==
  LET k == worker.key
  IN  /\ worker.pc = "update"
      /\ IF local[k] # None /\ local[k] = worker.loc
         THEN /\ local' = [local EXCEPT ![k] =
                   [src |-> worker.obj.rv, ann |-> worker.ann, ct |-> @.ct,
                    sync |-> worker.obj.sync, del |-> @.del, force |-> FALSE]]
              /\ mark' = [mark EXCEPT ![k] = worker.obj.rv]
              /\ Done
         ELSE Retry /\ UNCHANGED <<local, mark>>
      /\ UNCHANGED <<workerFrame, fails, held>>

\* (mutant of CallFails: the error is not returned)
CallFailsSilently ==
  /\ worker.pc # "idle"
  /\ Fail
  /\ Done
  /\ UNCHANGED <<workerFrame, held, local, mark>>

\* Any call of the reconciler may fail: the request is retried.
CallFails ==
  /\ worker.pc # "idle"
  /\ Fail
  /\ Retry
  /\ UNCHANGED <<workerFrame, held, local, mark>>

\* A local controller finishes the deletion of a copy.
LocalFinalize(k) ==
  /\ local[k] # None
  /\ local[k].del
  /\ local' = [local EXCEPT ![k] = None]
  /\ UNCHANGED <<pivotVars, procVars, mark, missed>>

-----------------------------------------------------------------------------
(* The garbage collection.                                                 *)

gcFrame == <<pivotVars, pend, cache, listed, queue, held, worker, crashes, mark, missed>>

\* (mutant of GcList: the test for sync resources is inverted)
GcListInverted ==
  /\ gc.pc = "list"
  /\ \/ NoFail /\ gc' = GcAt("check", {k \in Keys : local[k] # None /\ ~local[k].sync}, None)
     \/ Fail /\ gc' = GcAt("done", {}, None)
  /\ UNCHANGED <<gcFrame, local>>

GcList ==
  /\ gc.pc = "list"
  /\ \/ NoFail /\ gc' = GcAt("check", {k \in Keys : local[k] # None /\ local[k].sync}, None)
     \/ Fail /\ gc' = GcAt("done", {}, None)
  /\ UNCHANGED <<gcFrame, local>>

\* An object the pivot cluster has, or an error, ends the work on the item.
GcCheck(k) ==
  /\ gc.pc = "check"
  /\ k \in gc.todo
  /\ \/ pivot[k] = None /\ NoFail /\ gc' = GcAt("delete", gc.todo \ {k}, k)
     \/ pivot[k] # None /\ NoFail /\ gc' = GcAt("check", gc.todo \ {k}, None)
     \/ Fail /\ gc' = GcAt("check", gc.todo \ {k}, None)
  /\ UNCHANGED <<gcFrame, local>>

GcDelete ==
  LET k == gc.key
  IN  /\ gc.pc = "delete"
      /\ gc' = GcAt("check", gc.todo, None)
      /\ IF local[k] = None \/ DeleteDenied(local[k])
         THEN NoFail /\ UNCHANGED local
         ELSE \/ NoFail /\ \E o \in DeleteOutcomes(local[k]) : local' = [local EXCEPT ![k] = o]
              \/ Fail /\ UNCHANGED local
      /\ UNCHANGED gcFrame

GcEnd ==
  /\ gc.pc = "check"
  /\ gc.todo = {}
  /\ gc' = GcAt("done", {}, None)
  /\ UNCHANGED <<gcFrame, fails, local>>

-----------------------------------------------------------------------------
Users == \E k \in Keys : PivotCreate(k) \/ PivotUpdate(k) \/ PivotDelete(k)

Reconcile ==
  \/ \E k \in Keys : Pop(k)
  \/ GetLocal \/ DelGet \/ ForceDelete \/ DeleteLocal
  \/ CreateLocal \/ UpdateLocal

Collect == GcList \/ (\E k \in Keys : GcCheck(k)) \/ GcDelete \/ GcEnd

Next ==
  \/ Users
  \/ Tick
  \/ Crash
  \/ InitialList
  \/ \E k \in Keys : Deliver(k) \/ Resync(k) \/ Panic(k) \/ LocalFinalize(k)
  \/ Reconcile
  \/ CallFails
  \/ Collect

\* The informer, the worker, the collector and the finalizing controllers
\* are goroutines that run on; a queued key is never starved.
Fairness ==
  /\ \A k \in Keys : WF_vars(Deliver(k)) /\ WF_vars(Resync(k))
                     /\ SF_vars(Pop(k) \/ Panic(k)) /\ WF_vars(LocalFinalize(k))
  /\ WF_vars(GetLocal \/ DelGet \/ ForceDelete \/ DeleteLocal
             \/ CreateLocal \/ UpdateLocal)
  /\ WF_vars(Collect) /\ WF_vars(InitialList)

Spec == Init /\ [][Next]_vars
FairSpec == Spec /\ Fairness

-----------------------------------------------------------------------------
(* Properties.                                                             *)

Copies == [k \in Keys |-> IF local[k] = None THEN None ELSE local[k].src]

Replica == INSTANCE ReplicaSpec WITH latest <- rv, copy <- Copies

\* The copies implement ReplicaSpec: whatever the lag of the informer, the
\* crashes and the collector's deletions, a copy is never overwritten with, or
\* re-created from, an older version than one that was already copied
\* (the version test of register.go:168 and the cached read of line 117).
ReplicaSafety == Replica!Spec

\* The reconciler never deletes the copy of an object the pivot cluster still
\* has: neither because its cache was late to see a re-creation (line 120) nor
\* because it took the copy for an older object's (the creation times of
\* lines 143-146).  An older incarnation's copy may go.
SparesLiveCopy(k) ==
  (/\ worker.pc = "delete" /\ worker.key = k /\ worker' # worker
   /\ local[k] # None /\ local'[k] # local[k] /\ pivot[k] # None)
  => local[k].src < pivot[k].uid

ReconcilerSparesLiveCopies == [][\A k \in Keys : SparesLiveCopy(k)]_vars

\* The member cluster mirrors k: the names agree, and a copy that carries a
\* version label has the latest content.
Mirrors(k) ==
  IF pivot[k] = None THEN local[k] = None
  ELSE /\ local[k] # None
       /\ local[k].ann # NoRV => local[k].src = pivot[k].rv

\* The controller has handled every event of k, and the collector has ended.
Settled(k) ==
  listed /\ ~pend[k] /\ k \notin queue /\ worker.key # k /\ gc.pc = "done"

\* The deletion of k's object is answered for: an event reported it, or the
\* collector, which may delete k and whose calls succeed, was still to come to it.
Answered(k) == missed[k] = "no" \/ (missed[k] = "due" /\ ~Guarded /\ MaxFails = 0)

\* What the controller and the collector leave when they have handled everything:
\* a copy that carries a version label has the latest content of an object that is
\* to be synced; and of one that is gone no copy lives, if its deletion was
\* answered for and users leave the annotation alone (register.go:117-178,
\* gc.go:41-88).
SettledIsMirrored ==
  \A k \in Keys : Settled(k) /\ local[k] # None =>
    /\ pivot[k] # None /\ pivot[k].sync /\ local[k].ann # NoRV => local[k].src = pivot[k].rv
    /\ pivot[k] = None /\ ~Unsync /\ Answered(k) => local[k].del

\* Once users leave the pivot cluster alone and calls no longer fail, the member
\* cluster comes to mirror it, after failed calls, lost queues, panics, denied deletions and a
\* collector that deleted a fresh copy; except for copies whose object was deleted
\* while the informer was not yet watching and the collector past them.
EventuallyMirrored ==
  <>[](\A k \in Keys : Mirrors(k) \/ ~Answered(k))

\* register.go:167, "update: when pivot resource version bigger than local
\* resource version": the latest content of every synced object is copied.
LatestVersionCopied ==
  <>[](\A k \in Keys : pivot[k] # None =>
         local[k] # None /\ local[k].src = pivot[k].rv)

\* gc.go:40, "If a resource exists on the current cluster but not on the control
\* cluster, the resource is a residual resource and needs to be deleted".
ResidualsRemoved == <>[](\A k \in Keys : pivot[k] = None => local[k] = None)

\* The same comment read the other way: what the collector deletes is a
\* residual, an object that does not exist on the control cluster.
GcDeletesOnlyResiduals ==
  [][\A k \in Keys :
       (/\ gc.pc = "delete" /\ gc.key = k /\ gc' # gc
        /\ local[k] # None /\ local'[k] # local[k])
       => pivot[k] = None]_vars
=============================================================================
