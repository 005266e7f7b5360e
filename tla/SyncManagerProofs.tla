-------------------------- MODULE SyncManagerProofs --------------------------
(***************************************************************************)
(* Proofs about SyncManager, for any set of names, any bounds and any of   *)
(* the flags: types, that the copies implement ReplicaSpec, that the       *)
(* reconciler never deletes the copy of a live object, and what the copies *)
(* are when every event has been handled.                                  *)
(***************************************************************************)
EXTENDS SyncManager, TLAPS

-----------------------------------------------------------------------------
(* The inductive invariant.                                                *)

\* The version o, read earlier, is of p's incarnation or of an older one.
NotAhead(o, p) ==
  \/ o.rv < p.uid
  \/ o.uid = p.uid /\ o.ct = p.ct /\ o.rv <= p.rv

\* Objects carry versions and times the pivot cluster has already given out.
Sound(o) == o.uid <= o.rv /\ o.rv <= rv /\ o.ct <= now

\* What the reconciler reads of k, or will read once the informer has its first list.
View(k) == IF listed THEN cache[k] ELSE pivot[k]

\* The version m of k has been seen: the view is at m or past it.
Seen(k, m) ==
  /\ m <= rv
  /\ View(k) # None => m <= View(k).rv
  /\ (View(k) = None /\ pivot[k] # None) => m < pivot[k].uid

\* Before the first list the controller has nothing to work on.
StartInv ==
  ~listed => /\ \A k \in Keys : cache[k] = None /\ ~pend[k]
             /\ queue = {}
             /\ worker = Idle

CacheInv ==
  \A k \in Keys :
    /\ pivot[k] # None => Sound(pivot[k])
    /\ cache[k] # None => Sound(cache[k])
    /\ (cache[k] # None /\ pivot[k] # None) => NotAhead(cache[k], pivot[k])

MarkInv ==
  \A k \in Keys :
    /\ Seen(k, mark[k])
    /\ local[k] # None => local[k].src = mark[k]

\* A copy of the current incarnation is not older than it.
ClockInv ==
  \A k \in Keys :
    (local[k] # None /\ pivot[k] # None /\ pivot[k].uid <= local[k].src)
      => pivot[k].ct <= local[k].ct

WorkerInv ==
  worker.pc # "idle" =>
    LET k == worker.key
        o == worker.obj
    IN  /\ k \in Keys
        /\ worker.pc \in {"get", "create", "update"} => o # None
        /\ o # None =>
             /\ Sound(o)
             /\ Seen(k, o.rv)
             /\ mark[k] <= o.rv
             /\ pivot[k] # None => NotAhead(o, pivot[k])
        /\ (o = None /\ pivot[k] # None) => mark[k] < pivot[k].uid
        /\ (/\ o # None /\ worker.pc \in {"delGet", "force", "delete"}
            /\ local[k] # None) => local[k].ct < o.ct
        /\ (worker.pc = "update" /\ worker.loc # None) => o.ct <= worker.loc.ct

GcInv == gc.pc = "delete" => gc.key \in Keys

IInv == TypeOK /\ StartInv /\ CacheInv /\ MarkInv /\ ClockInv /\ WorkerInv /\ GcInv

-----------------------------------------------------------------------------
(* One lemma per action: it preserves the inductive invariant.             *)

USE FlagAssumption, BoundAssumption, NoneAssumption

LEMMA UpdateTyped ==
  ASSUME NEW S, NEW f \in [Keys -> S], NEW k \in Keys, NEW v \in S
  PROVE  [f EXCEPT ![k] = v] \in [Keys -> S]
  OBVIOUS

\* A step that only deletes copies.
OnlyDeletes ==
  \A j \in Keys : local'[j] # None =>
    local[j] # None /\ local'[j].src = local[j].src /\ local'[j].ct = local[j].ct

\* What a deletion leaves of a copy is a copy or nothing, with the content and
\* the creation time it had.
LEMMA DeleteTyped ==
  ASSUME NEW o \in LocalObj, NEW d \in DeleteOutcomes(o)
  PROVE  /\ d \in LocalObj \cup {None}
         /\ d # None => d.src = o.src /\ d.ct = o.ct
  BY DEF DeleteOutcomes, LocalObj

LEMMA DeleteIsOnlyDelete ==
  ASSUME local \in [Keys -> LocalObj \cup {None}], NEW k \in Keys, local[k] # None,
         NEW d \in DeleteOutcomes(local[k]), local' = [local EXCEPT ![k] = d]
  PROVE  local' \in [Keys -> LocalObj \cup {None}] /\ OnlyDeletes
<1>1. /\ d \in LocalObj \cup {None}
      /\ d # None => d.src = local[k].src /\ d.ct = local[k].ct
  BY DeleteTyped
<1>2. local' \in [Keys -> LocalObj \cup {None}]
  BY <1>1, UpdateTyped
<1>3. OnlyDeletes
  BY <1>1 DEF OnlyDeletes
<1>4. QED BY <1>2, <1>3

LEMMA PivotCreateStep ==
  ASSUME IInv, NEW k \in Keys, PivotCreate(k)
  PROVE  IInv'
<1> USE DEF IInv, PivotCreate, PivotWrite
<1>1. TypeOK'
  <2>1. \A s \in BOOLEAN : [uid |-> rv + 1, rv |-> rv + 1, ct |-> now, sync |-> s] \in PivotObj
    BY DEF TypeOK, PivotObj
  <2>2. PICK s \in BOOLEAN :
          pivot' = [pivot EXCEPT ![k] = 
              [uid |-> rv + 1, rv |-> rv + 1, ct |-> now, sync |-> s]]
    BY DEF SyncChoices
  <2>3. pivot' \in [Keys -> PivotObj \cup {None}]
    <3>1. pivot \in [Keys -> PivotObj \cup {None}]
      BY DEF TypeOK
    <3> QED BY <2>1, <2>2, <3>1, UpdateTyped
  <2>4. pend' \in [Keys -> BOOLEAN]
    BY DEF TypeOK, SyncChoices
  <2>5. QED BY <2>3, <2>4 DEF TypeOK
<1>2. CacheInv'
  BY DEF TypeOK, PivotObj, SyncChoices, CacheInv, Sound, NotAhead
<1>3. MarkInv'
  BY DEF TypeOK, PivotObj, LocalObj, SyncChoices, CacheInv, MarkInv, WorkerInv, GcInv,
         Sound, Seen, View, NotAhead
<1>4. ClockInv'
  BY DEF TypeOK, PivotObj, LocalObj, SyncChoices, CacheInv, MarkInv, ClockInv, WorkerInv,
         GcInv, Sound, Seen, View, NotAhead
<1>5. WorkerInv'
  BY DEF TypeOK, PivotObj, LocalObj, Phase, Idle, SyncChoices, CacheInv, MarkInv, WorkerInv,
         GcInv, Sound, Seen, View, NotAhead
<1>6. GcInv'
  BY DEF GcInv, GcAt
<1>7. StartInv'
  BY DEF StartInv, TypeOK
<1>8. QED BY <1>1, <1>2, <1>3, <1>4, <1>5, <1>6, <1>7

LEMMA PivotUpdateStep ==
  ASSUME IInv, NEW k \in Keys, PivotUpdate(k)
  PROVE  IInv'
<1> USE DEF IInv, PivotUpdate, PivotWrite
<1>1. TypeOK'
  <2>1. \A s \in BOOLEAN : [pivot[k] EXCEPT !.rv = rv + 1, !.sync = s] \in PivotObj
    <3>1. pivot[k] \in PivotObj /\ rv + 1 \in Nat
      BY DEF TypeOK
    <3> QED BY <3>1 DEF PivotObj
  <2>2. PICK s \in BOOLEAN :
          pivot' = [pivot EXCEPT ![k] = 
              [pivot[k] EXCEPT !.rv = rv + 1, !.sync = s]]
    BY DEF SyncChoices
  <2>3. pivot' \in [Keys -> PivotObj \cup {None}]
    <3>1. pivot \in [Keys -> PivotObj \cup {None}]
      BY DEF TypeOK
    <3> QED BY <2>1, <2>2, <3>1, UpdateTyped
  <2>4. pend' \in [Keys -> BOOLEAN]
    BY DEF TypeOK, SyncChoices
  <2>5. QED BY <2>3, <2>4 DEF TypeOK
<1>2. CacheInv'
  BY DEF TypeOK, PivotObj, SyncChoices, CacheInv, Sound, NotAhead
<1>3. MarkInv'
  BY DEF TypeOK, PivotObj, LocalObj, SyncChoices, CacheInv, MarkInv, WorkerInv, GcInv,
         Sound, Seen, View, NotAhead
<1>4. ClockInv'
  BY DEF TypeOK, PivotObj, LocalObj, SyncChoices, CacheInv, MarkInv, ClockInv, WorkerInv,
         GcInv, Sound, Seen, View, NotAhead
<1>5. WorkerInv'
  BY DEF TypeOK, PivotObj, LocalObj, Phase, Idle, SyncChoices, CacheInv, MarkInv, WorkerInv,
         GcInv, Sound, Seen, View, NotAhead
<1>6. GcInv'
  BY DEF GcInv, GcAt
<1>7. StartInv'
  BY DEF StartInv, TypeOK
<1>8. QED BY <1>1, <1>2, <1>3, <1>4, <1>5, <1>6, <1>7

LEMMA PivotDeleteStep ==
  ASSUME IInv, NEW k \in Keys, PivotDelete(k)
  PROVE  IInv'
<1> USE DEF IInv, PivotDelete, PivotWrite
<1>1. TypeOK'
  BY DEF TypeOK, PivotObj, LocalObj, Phase, Idle, GcAt
<1>2. CacheInv'
  BY DEF TypeOK, PivotObj, SyncChoices, CacheInv, Sound, NotAhead
<1>3. MarkInv'
  BY DEF TypeOK, PivotObj, LocalObj, SyncChoices, CacheInv, MarkInv, WorkerInv, GcInv,
         Sound, Seen, View, NotAhead
<1>4. ClockInv'
  BY DEF TypeOK, PivotObj, LocalObj, SyncChoices, CacheInv, MarkInv, ClockInv, WorkerInv,
         GcInv, Sound, Seen, View, NotAhead
<1>5. WorkerInv'
  BY DEF TypeOK, PivotObj, LocalObj, Phase, Idle, SyncChoices, CacheInv, MarkInv, WorkerInv,
         GcInv, Sound, Seen, View, NotAhead
<1>6. GcInv'
  BY DEF GcInv, GcAt
<1>7. StartInv'
  BY DEF StartInv, TypeOK
<1>8. QED BY <1>1, <1>2, <1>3, <1>4, <1>5, <1>6, <1>7

LEMMA TickStep ==
  ASSUME IInv, Tick
  PROVE  IInv'
<1> USE DEF IInv, Tick, pivotVars, procVars
<1>1. TypeOK'
  BY DEF TypeOK, PivotObj, LocalObj, Phase, Idle, GcAt
<1>2. CacheInv'
  BY DEF TypeOK, PivotObj, CacheInv, Sound, NotAhead
<1>3. MarkInv'
  BY DEF TypeOK, PivotObj, LocalObj, CacheInv, MarkInv, WorkerInv, GcInv,
         Sound, Seen, View, NotAhead
<1>4. ClockInv'
  BY DEF TypeOK, PivotObj, LocalObj, CacheInv, MarkInv, ClockInv, WorkerInv,
         GcInv, Sound, Seen, View, NotAhead
<1>5. WorkerInv'
  BY DEF TypeOK, PivotObj, LocalObj, Phase, Idle, CacheInv, MarkInv, WorkerInv,
         GcInv, Sound, Seen, View, NotAhead
<1>6. GcInv'
  BY DEF GcInv, GcAt
<1>7. StartInv'
  BY DEF StartInv, Idle
<1>8. QED BY <1>1, <1>2, <1>3, <1>4, <1>5, <1>6, <1>7

LEMMA DeliverStep ==
  ASSUME IInv, NEW k \in Keys, Deliver(k)
  PROVE  IInv'
<1> USE DEF IInv, Deliver, pivotVars
<1>1. TypeOK'
  BY DEF TypeOK, PivotObj, LocalObj, Phase, Idle, GcAt
<1>2. CacheInv'
  BY DEF TypeOK, PivotObj, CacheInv, Sound, NotAhead
<1>3. MarkInv'
  BY DEF TypeOK, PivotObj, LocalObj, CacheInv, MarkInv, WorkerInv, GcInv,
         Sound, Seen, View, NotAhead
<1>4. ClockInv'
  BY DEF TypeOK, PivotObj, LocalObj, CacheInv, MarkInv, ClockInv, WorkerInv,
         GcInv, Sound, Seen, View, NotAhead
<1>5. WorkerInv'
  BY DEF TypeOK, PivotObj, LocalObj, Phase, Idle, CacheInv, MarkInv, WorkerInv,
         GcInv, Sound, Seen, View, NotAhead
<1>6. GcInv'
  BY DEF GcInv, GcAt
<1>7. StartInv'
  BY DEF StartInv, Idle
<1>8. QED BY <1>1, <1>2, <1>3, <1>4, <1>5, <1>6, <1>7

LEMMA ResyncStep ==
  ASSUME IInv, NEW k \in Keys, Resync(k)
  PROVE  IInv'
<1> USE DEF IInv, Resync, pivotVars
<1>1. TypeOK'
  BY DEF TypeOK, PivotObj, LocalObj, Phase, Idle, GcAt
<1>2. CacheInv'
  BY DEF TypeOK, PivotObj, CacheInv, Sound, NotAhead
<1>3. MarkInv'
  BY DEF TypeOK, PivotObj, LocalObj, CacheInv, MarkInv, WorkerInv, GcInv,
         Sound, Seen, View, NotAhead
<1>4. ClockInv'
  BY DEF TypeOK, PivotObj, LocalObj, CacheInv, MarkInv, ClockInv, WorkerInv,
         GcInv, Sound, Seen, View, NotAhead
<1>5. WorkerInv'
  BY DEF TypeOK, PivotObj, LocalObj, Phase, Idle, CacheInv, MarkInv, WorkerInv,
         GcInv, Sound, Seen, View, NotAhead
<1>6. GcInv'
  BY DEF GcInv, GcAt
<1>7. StartInv'
  BY DEF StartInv, Idle
<1>8. QED BY <1>1, <1>2, <1>3, <1>4, <1>5, <1>6, <1>7

LEMMA InitialListStep ==
  ASSUME IInv, InitialList
  PROVE  IInv'
<1> USE DEF IInv, InitialList, pivotVars
<1>1. TypeOK'
  BY DEF TypeOK, PivotObj, LocalObj, Phase, Idle, GcAt
<1>2. CacheInv'
  BY DEF TypeOK, PivotObj, CacheInv, Sound, NotAhead
<1>3. MarkInv'
  BY DEF TypeOK, PivotObj, LocalObj, CacheInv, MarkInv, WorkerInv, GcInv,
         Sound, Seen, View, NotAhead
<1>4. ClockInv'
  BY DEF TypeOK, PivotObj, LocalObj, CacheInv, MarkInv, ClockInv, WorkerInv,
         GcInv, Sound, Seen, View, NotAhead
<1>5. WorkerInv'
  BY DEF TypeOK, PivotObj, LocalObj, Phase, Idle, CacheInv, MarkInv, WorkerInv,
         GcInv, Sound, Seen, View, NotAhead
<1>6. GcInv'
  BY DEF GcInv, GcAt
<1>7. StartInv'
  BY DEF StartInv, Idle
<1>8. QED BY <1>1, <1>2, <1>3, <1>4, <1>5, <1>6, <1>7

LEMMA CrashStep ==
  ASSUME IInv, Crash
  PROVE  IInv'
<1> USE DEF IInv, Crash, Restart, pivotVars
<1>1. TypeOK'
  <2>1. worker' \in [pc : Phase \cup {"idle"}, key : Keys \cup {None},
                   obj : PivotObj \cup {None}, ann : Nat \cup {NoRV},
                   loc : LocalObj \cup {None}]
    BY DEF Idle
  <2>2. gc' \in [pc : {"list", "check", "delete", "done"}, todo : SUBSET Keys,
               key : Keys \cup {None}]
    BY DEF GcAt
  <2>3. crashes' \in Nat
    BY DEF TypeOK
  <2>4. QED BY <2>1, <2>2, <2>3 DEF TypeOK
<1>2. CacheInv'
  BY DEF TypeOK, PivotObj, CacheInv, Sound, NotAhead
<1>3. MarkInv'
  BY DEF TypeOK, PivotObj, LocalObj, CacheInv, MarkInv, WorkerInv, GcInv,
         Sound, Seen, View, NotAhead
<1>4. ClockInv'
  BY DEF TypeOK, PivotObj, LocalObj, CacheInv, MarkInv, ClockInv, WorkerInv,
         GcInv, Sound, Seen, View, NotAhead
<1>5. WorkerInv'
  BY DEF TypeOK, PivotObj, LocalObj, Phase, Idle, CacheInv, MarkInv, WorkerInv,
         GcInv, Sound, Seen, View, NotAhead
<1>6. GcInv'
  BY DEF GcInv, GcAt
<1>7. StartInv'
  BY DEF StartInv, Idle
<1>8. QED BY <1>1, <1>2, <1>3, <1>4, <1>5, <1>6, <1>7

LEMMA PanicStep ==
  ASSUME IInv, NEW k \in Keys, Panic(k)
  PROVE  IInv'
<1> USE DEF IInv, Panic, Restart, pivotVars
<1>1. TypeOK'
  BY DEF TypeOK, PivotObj, LocalObj, Phase, Idle, GcAt
<1>2. CacheInv'
  BY DEF TypeOK, PivotObj, CacheInv, Sound, NotAhead
<1>3. MarkInv'
  BY DEF TypeOK, PivotObj, LocalObj, CacheInv, MarkInv, WorkerInv, GcInv,
         Sound, Seen, View, NotAhead
<1>4. ClockInv'
  BY DEF TypeOK, PivotObj, LocalObj, CacheInv, MarkInv, ClockInv, WorkerInv,
         GcInv, Sound, Seen, View, NotAhead
<1>5. WorkerInv'
  BY DEF TypeOK, PivotObj, LocalObj, Phase, Idle, CacheInv, MarkInv, WorkerInv,
         GcInv, Sound, Seen, View, NotAhead
<1>6. GcInv'
  BY DEF GcInv, GcAt
<1>7. StartInv'
  BY DEF StartInv, Idle
<1>8. QED BY <1>1, <1>2, <1>3, <1>4, <1>5, <1>6, <1>7

LEMMA PopStep ==
  ASSUME IInv, NEW k \in Keys, Pop(k)
  PROVE  IInv'
<1> USE DEF IInv, Pop, workerFrame, pivotVars
<1>1. TypeOK'
  BY DEF TypeOK, PivotObj, LocalObj, Phase, Idle, GcAt
<1>2. CacheInv'
  BY DEF TypeOK, PivotObj, CacheInv, Sound, NotAhead
<1>3. MarkInv'
  BY DEF TypeOK, PivotObj, LocalObj, CacheInv, MarkInv, WorkerInv, GcInv,
         Sound, Seen, View, NotAhead
<1>4. ClockInv'
  BY DEF TypeOK, PivotObj, LocalObj, CacheInv, MarkInv, ClockInv, WorkerInv,
         GcInv, Sound, Seen, View, NotAhead
<1>5. WorkerInv'
  BY DEF StartInv, TypeOK, PivotObj, LocalObj, Phase, Idle, CacheInv, MarkInv, WorkerInv,
         GcInv, Sound, Seen, View, NotAhead
<1>6. GcInv'
  BY DEF GcInv, GcAt
<1>7. StartInv'
  BY DEF StartInv, Idle
<1>8. QED BY <1>1, <1>2, <1>3, <1>4, <1>5, <1>6, <1>7

LEMMA GetLocalStep ==
  ASSUME IInv, GetLocal
  PROVE  IInv'
<1> USE DEF IInv, GetLocal, NewObject, Goto, Retry, Done, workerFrame, pivotVars
<1>1. TypeOK'
  BY DEF TypeOK, PivotObj, LocalObj, Phase, Idle, GcAt, WorkerInv, GcInv
<1>2. CacheInv'
  BY DEF TypeOK, PivotObj, CacheInv, Sound, NotAhead
<1>3. MarkInv'
  BY DEF TypeOK, PivotObj, LocalObj, CacheInv, MarkInv, WorkerInv, GcInv,
         Sound, Seen, View, NotAhead
<1>4. ClockInv'
  BY DEF TypeOK, PivotObj, LocalObj, CacheInv, MarkInv, ClockInv, WorkerInv,
         GcInv, Sound, Seen, View, NotAhead
<1>5. WorkerInv'
  BY DEF TypeOK, PivotObj, LocalObj, Phase, Idle, CacheInv, MarkInv, WorkerInv,
         GcInv, Sound, Seen, View, NotAhead
<1>6. GcInv'
  BY DEF GcInv, GcAt
<1>7. StartInv'
  BY DEF StartInv, Idle
<1>8. QED BY <1>1, <1>2, <1>3, <1>4, <1>5, <1>6, <1>7

LEMMA DelGetStep ==
  ASSUME IInv, DelGet
  PROVE  IInv'
<1> USE DEF IInv, DelGet, Goto, Done, workerFrame, pivotVars
<1>1. TypeOK'
  BY DEF TypeOK, PivotObj, LocalObj, Phase, Idle, GcAt
<1>2. CacheInv'
  BY DEF TypeOK, PivotObj, CacheInv, Sound, NotAhead
<1>3. MarkInv'
  BY DEF TypeOK, PivotObj, LocalObj, CacheInv, MarkInv, WorkerInv, GcInv,
         Sound, Seen, View, NotAhead
<1>4. ClockInv'
  BY DEF TypeOK, PivotObj, LocalObj, CacheInv, MarkInv, ClockInv, WorkerInv,
         GcInv, Sound, Seen, View, NotAhead
<1>5. WorkerInv'
  BY DEF TypeOK, PivotObj, LocalObj, Phase, Idle, CacheInv, MarkInv, WorkerInv,
         GcInv, Sound, Seen, View, NotAhead
<1>6. GcInv'
  BY DEF GcInv, GcAt
<1>7. StartInv'
  BY DEF StartInv, Idle
<1>8. QED BY <1>1, <1>2, <1>3, <1>4, <1>5, <1>6, <1>7

LEMMA ForceDeleteStep ==
  ASSUME IInv, ForceDelete
  PROVE  IInv'
<1> USE DEF IInv, ForceDelete, Goto, workerFrame, pivotVars
<1>1. TypeOK'
  <2>1. local' \in [Keys -> LocalObj \cup {None}]
    <3>1. local \in [Keys -> LocalObj \cup {None}] /\ worker.key \in Keys
      BY DEF TypeOK, WorkerInv
    <3>2. local[worker.key] # None => [local[worker.key] EXCEPT !.force = TRUE] \in LocalObj
      BY <3>1 DEF LocalObj
    <3> QED BY <3>1, <3>2, UpdateTyped
  <2>2. worker' \in [pc : Phase \cup {"idle"}, key : Keys \cup {None},
                   obj : PivotObj \cup {None}, ann : Nat \cup {NoRV},
                   loc : LocalObj \cup {None}]
    BY DEF TypeOK, Phase
  <2>3. QED BY <2>1, <2>2 DEF TypeOK
<1>2. CacheInv'
  BY DEF TypeOK, PivotObj, CacheInv, Sound, NotAhead
<1>3. MarkInv'
  BY DEF TypeOK, PivotObj, LocalObj, CacheInv, MarkInv, WorkerInv, GcInv,
         Sound, Seen, View, NotAhead
<1>4. ClockInv'
  BY DEF TypeOK, PivotObj, LocalObj, CacheInv, MarkInv, ClockInv, WorkerInv,
         GcInv, Sound, Seen, View, NotAhead
<1>5. WorkerInv'
  BY DEF TypeOK, PivotObj, LocalObj, Phase, Idle, CacheInv, MarkInv, WorkerInv,
         GcInv, Sound, Seen, View, NotAhead
<1>6. GcInv'
  BY DEF GcInv, GcAt
<1>7. StartInv'
  BY DEF StartInv, Idle
<1>8. QED BY <1>1, <1>2, <1>3, <1>4, <1>5, <1>6, <1>7

LEMMA DeleteLocalStep ==
  ASSUME IInv, DeleteLocal
  PROVE  IInv'
<1> USE DEF IInv, DeleteLocal, AfterDelete, Goto, Retry,
                  workerFrame, pivotVars
<1>0. local' \in [Keys -> LocalObj \cup {None}] /\ OnlyDeletes
  <2>1. local \in [Keys -> LocalObj \cup {None}] /\ worker.key \in Keys
    BY DEF TypeOK, WorkerInv
  <2>2. CASE UNCHANGED local
    BY <2>1, <2>2 DEF OnlyDeletes
  <2>3. CASE local[worker.key] # None
          /\ \E o \in DeleteOutcomes(local[worker.key]) :
               local' = [local EXCEPT ![worker.key] = o]
    BY <2>1, <2>3, DeleteIsOnlyDelete
  <2>4. QED BY <2>2, <2>3
<1>1. TypeOK'
  <2>2. worker' \in [pc : Phase \cup {"idle"}, key : Keys \cup {None},
                   obj : PivotObj \cup {None}, ann : Nat \cup {NoRV},
                   loc : LocalObj \cup {None}]
    BY DEF TypeOK, Phase, Idle
  <2>3. queue' \in SUBSET Keys
    BY DEF TypeOK, WorkerInv
  <2>4. QED BY <1>0, <2>2, <2>3 DEF TypeOK
<1>2. CacheInv'
  BY DEF TypeOK, PivotObj, CacheInv, Sound, NotAhead
<1>3. MarkInv'
  BY <1>0 DEF OnlyDeletes, TypeOK, PivotObj, LocalObj, CacheInv, MarkInv, WorkerInv, GcInv,
         Sound, Seen, View, NotAhead
<1>4. ClockInv'
  BY <1>0 DEF OnlyDeletes, TypeOK, PivotObj, LocalObj, CacheInv, MarkInv, ClockInv, WorkerInv,
         GcInv, Sound, Seen, View, NotAhead
<1>5. WorkerInv'
  BY <1>0 DEF OnlyDeletes, TypeOK, PivotObj, LocalObj, Phase, Idle, CacheInv, MarkInv, WorkerInv,
         GcInv, Sound, Seen, View, NotAhead
<1>6. GcInv'
  BY DEF GcInv, GcAt
<1>7. StartInv'
  BY DEF StartInv, Idle
<1>8. QED BY <1>1, <1>2, <1>3, <1>4, <1>5, <1>6, <1>7

LEMMA CreateLocalStep ==
  ASSUME IInv, CreateLocal
  PROVE  IInv'
<1> USE DEF IInv, CreateLocal, Done, Retry, workerFrame, pivotVars
<1>1. TypeOK'
  <2>1. worker.obj \in PivotObj /\ worker.key \in Keys
    BY DEF TypeOK, WorkerInv
  <2>2. [src |-> worker.obj.rv, ann |-> worker.ann, ct |-> now,
         sync |-> worker.obj.sync, del |-> FALSE, force |-> FALSE] \in LocalObj
    BY <2>1 DEF TypeOK, PivotObj, LocalObj
  <2>3. local' \in [Keys -> LocalObj \cup {None}]
    <3>1. local \in [Keys -> LocalObj \cup {None}]
      BY DEF TypeOK
    <3> QED BY <2>1, <2>2, <3>1, UpdateTyped
  <2>4. mark' \in [Keys -> Nat]
    BY <2>1 DEF TypeOK, PivotObj
  <2>5. worker' \in [pc : Phase \cup {"idle"}, key : Keys \cup {None},
                   obj : PivotObj \cup {None}, ann : Nat \cup {NoRV},
                   loc : LocalObj \cup {None}]
    BY DEF TypeOK, Idle
  <2>6. queue' \in SUBSET Keys
    BY <2>1 DEF TypeOK
  <2>7. QED BY <2>3, <2>4, <2>5, <2>6 DEF TypeOK
<1>2. CacheInv'
  BY DEF TypeOK, PivotObj, CacheInv, Sound, NotAhead
<1>3. MarkInv'
  BY DEF TypeOK, PivotObj, LocalObj, CacheInv, MarkInv, WorkerInv, GcInv,
         Sound, Seen, View, NotAhead
<1>4. ClockInv'
  BY DEF TypeOK, PivotObj, LocalObj, CacheInv, MarkInv, ClockInv, WorkerInv,
         GcInv, Sound, Seen, View, NotAhead
<1>5. WorkerInv'
  BY DEF TypeOK, PivotObj, LocalObj, Phase, Idle, CacheInv, MarkInv, WorkerInv,
         GcInv, Sound, Seen, View, NotAhead
<1>6. GcInv'
  BY DEF GcInv, GcAt
<1>7. StartInv'
  BY DEF StartInv, Idle
<1>8. QED BY <1>1, <1>2, <1>3, <1>4, <1>5, <1>6, <1>7

LEMMA UpdateLocalStep ==
  ASSUME IInv, UpdateLocal
  PROVE  IInv'
<1> USE DEF IInv, UpdateLocal, Done, Retry, workerFrame, pivotVars
<1>1. TypeOK'
  <2>1. worker.obj \in PivotObj /\ worker.key \in Keys
    BY DEF TypeOK, WorkerInv
  <2>2. local[worker.key] # None =>
          [src |-> worker.obj.rv, ann |-> worker.ann, ct |-> local[worker.key].ct,
           sync |-> worker.obj.sync, del |-> local[worker.key].del,
           force |-> FALSE] \in LocalObj
    BY <2>1 DEF TypeOK, PivotObj, LocalObj
  <2>3. local' \in [Keys -> LocalObj \cup {None}]
    <3>1. local \in [Keys -> LocalObj \cup {None}]
      BY DEF TypeOK
    <3> QED BY <2>1, <2>2, <3>1, UpdateTyped
  <2>4. mark' \in [Keys -> Nat]
    BY <2>1 DEF TypeOK, PivotObj
  <2>5. worker' \in [pc : Phase \cup {"idle"}, key : Keys \cup {None},
                   obj : PivotObj \cup {None}, ann : Nat \cup {NoRV},
                   loc : LocalObj \cup {None}]
    BY DEF TypeOK, Idle
  <2>6. queue' \in SUBSET Keys
    BY <2>1 DEF TypeOK
  <2>7. QED BY <2>3, <2>4, <2>5, <2>6 DEF TypeOK
<1>2. CacheInv'
  BY DEF TypeOK, PivotObj, CacheInv, Sound, NotAhead
<1>3. MarkInv'
  BY DEF TypeOK, PivotObj, LocalObj, CacheInv, MarkInv, WorkerInv, GcInv,
         Sound, Seen, View, NotAhead
<1>4. ClockInv'
  BY DEF TypeOK, PivotObj, LocalObj, CacheInv, MarkInv, ClockInv, WorkerInv,
         GcInv, Sound, Seen, View, NotAhead
<1>5. WorkerInv'
  BY DEF TypeOK, PivotObj, LocalObj, Phase, Idle, CacheInv, MarkInv, WorkerInv,
         GcInv, Sound, Seen, View, NotAhead
<1>6. GcInv'
  BY DEF GcInv, GcAt
<1>7. StartInv'
  BY DEF StartInv, Idle
<1>8. QED BY <1>1, <1>2, <1>3, <1>4, <1>5, <1>6, <1>7

LEMMA CallFailsStep ==
  ASSUME IInv, CallFails
  PROVE  IInv'
<1> USE DEF IInv, CallFails, Fail, NoFail, Retry, workerFrame, pivotVars
<1>1. TypeOK'
  BY DEF TypeOK, PivotObj, LocalObj, Phase, Idle, GcAt, WorkerInv, GcInv
<1>2. CacheInv'
  BY DEF TypeOK, PivotObj, CacheInv, Sound, NotAhead
<1>3. MarkInv'
  BY DEF TypeOK, PivotObj, LocalObj, CacheInv, MarkInv, WorkerInv, GcInv,
         Sound, Seen, View, NotAhead
<1>4. ClockInv'
  BY DEF TypeOK, PivotObj, LocalObj, CacheInv, MarkInv, ClockInv, WorkerInv,
         GcInv, Sound, Seen, View, NotAhead
<1>5. WorkerInv'
  BY DEF TypeOK, PivotObj, LocalObj, Phase, Idle, CacheInv, MarkInv, WorkerInv,
         GcInv, Sound, Seen, View, NotAhead
<1>6. GcInv'
  BY DEF GcInv, GcAt
<1>7. StartInv'
  BY DEF StartInv, Idle
<1>8. QED BY <1>1, <1>2, <1>3, <1>4, <1>5, <1>6, <1>7

LEMMA LocalFinalizeStep ==
  ASSUME IInv, NEW k \in Keys, LocalFinalize(k)
  PROVE  IInv'
<1> USE DEF IInv, LocalFinalize, pivotVars, procVars
<1>1. TypeOK'
  BY DEF TypeOK, PivotObj, LocalObj, Phase, Idle, GcAt
<1>2. CacheInv'
  BY DEF TypeOK, PivotObj, CacheInv, Sound, NotAhead
<1>3. MarkInv'
  BY DEF TypeOK, PivotObj, LocalObj, CacheInv, MarkInv, WorkerInv, GcInv,
         Sound, Seen, View, NotAhead
<1>4. ClockInv'
  BY DEF TypeOK, PivotObj, LocalObj, CacheInv, MarkInv, ClockInv, WorkerInv,
         GcInv, Sound, Seen, View, NotAhead
<1>5. WorkerInv'
  BY DEF TypeOK, PivotObj, LocalObj, Phase, Idle, CacheInv, MarkInv, WorkerInv,
         GcInv, Sound, Seen, View, NotAhead
<1>6. GcInv'
  BY DEF GcInv, GcAt
<1>7. StartInv'
  BY DEF StartInv, Idle
<1>8. QED BY <1>1, <1>2, <1>3, <1>4, <1>5, <1>6, <1>7

LEMMA GcListStep ==
  ASSUME IInv, GcList
  PROVE  IInv'
<1> USE DEF IInv, GcList, Fail, NoFail, gcFrame, pivotVars
<1>1. TypeOK'
  BY DEF TypeOK, PivotObj, LocalObj, Phase, Idle, GcAt
<1>2. CacheInv'
  BY DEF TypeOK, PivotObj, CacheInv, Sound, NotAhead
<1>3. MarkInv'
  BY DEF TypeOK, PivotObj, LocalObj, CacheInv, MarkInv, WorkerInv, GcInv,
         Sound, Seen, View, NotAhead
<1>4. ClockInv'
  BY DEF TypeOK, PivotObj, LocalObj, CacheInv, MarkInv, ClockInv, WorkerInv,
         GcInv, Sound, Seen, View, NotAhead
<1>5. WorkerInv'
  BY DEF TypeOK, PivotObj, LocalObj, Phase, Idle, CacheInv, MarkInv, WorkerInv,
         GcInv, Sound, Seen, View, NotAhead
<1>6. GcInv'
  BY DEF GcInv, GcAt
<1>7. StartInv'
  BY DEF StartInv, Idle
<1>8. QED BY <1>1, <1>2, <1>3, <1>4, <1>5, <1>6, <1>7

LEMMA GcCheckStep ==
  ASSUME IInv, NEW k \in Keys, GcCheck(k)
  PROVE  IInv'
<1> USE DEF IInv, GcCheck, Fail, NoFail, gcFrame, pivotVars
<1>1. TypeOK'
  BY DEF TypeOK, PivotObj, LocalObj, Phase, Idle, GcAt
<1>2. CacheInv'
  BY DEF TypeOK, PivotObj, CacheInv, Sound, NotAhead
<1>3. MarkInv'
  BY DEF TypeOK, PivotObj, LocalObj, CacheInv, MarkInv, WorkerInv, GcInv,
         Sound, Seen, View, NotAhead
<1>4. ClockInv'
  BY DEF TypeOK, PivotObj, LocalObj, CacheInv, MarkInv, ClockInv, WorkerInv,
         GcInv, Sound, Seen, View, NotAhead
<1>5. WorkerInv'
  BY DEF TypeOK, PivotObj, LocalObj, Phase, Idle, CacheInv, MarkInv, WorkerInv,
         GcInv, Sound, Seen, View, NotAhead
<1>6. GcInv'
  BY DEF GcInv, GcAt
<1>7. StartInv'
  BY DEF StartInv, Idle
<1>8. QED BY <1>1, <1>2, <1>3, <1>4, <1>5, <1>6, <1>7

LEMMA GcDeleteStep ==
  ASSUME IInv, GcDelete
  PROVE  IInv'
<1> USE DEF IInv, GcDelete, Fail, NoFail, gcFrame, pivotVars
<1>0. local' \in [Keys -> LocalObj \cup {None}] /\ OnlyDeletes
  <2>1. local \in [Keys -> LocalObj \cup {None}] /\ gc.key \in Keys
    BY DEF TypeOK, GcInv
  <2>2. CASE UNCHANGED local
    BY <2>1, <2>2 DEF OnlyDeletes
  <2>3. CASE local[gc.key] # None
          /\ \E o \in DeleteOutcomes(local[gc.key]) :
               local' = [local EXCEPT ![gc.key] = o]
    BY <2>1, <2>3, DeleteIsOnlyDelete
  <2>4. QED BY <2>2, <2>3
<1>1. TypeOK'
  <2>2. gc' \in [pc : {"list", "check", "delete", "done"}, todo : SUBSET Keys,
               key : Keys \cup {None}]
    BY DEF TypeOK, GcAt
  <2>3. QED BY <1>0, <2>2 DEF TypeOK
<1>2. CacheInv'
  BY DEF TypeOK, PivotObj, CacheInv, Sound, NotAhead
<1>3. MarkInv'
  BY <1>0 DEF OnlyDeletes, TypeOK, PivotObj, LocalObj, CacheInv, MarkInv, WorkerInv, GcInv,
         Sound, Seen, View, NotAhead
<1>4. ClockInv'
  BY <1>0 DEF OnlyDeletes, TypeOK, PivotObj, LocalObj, CacheInv, MarkInv, ClockInv, WorkerInv,
         GcInv, Sound, Seen, View, NotAhead
<1>5. WorkerInv'
  BY <1>0 DEF OnlyDeletes, TypeOK, PivotObj, LocalObj, Phase, Idle, CacheInv, MarkInv, WorkerInv,
         GcInv, Sound, Seen, View, NotAhead
<1>6. GcInv'
  BY DEF GcInv, GcAt
<1>7. StartInv'
  BY DEF StartInv, Idle
<1>8. QED BY <1>1, <1>2, <1>3, <1>4, <1>5, <1>6, <1>7

LEMMA GcEndStep ==
  ASSUME IInv, GcEnd
  PROVE  IInv'
<1> USE DEF IInv, GcEnd, gcFrame, pivotVars
<1>1. TypeOK'
  BY DEF TypeOK, PivotObj, LocalObj, Phase, Idle, GcAt
<1>2. CacheInv'
  BY DEF TypeOK, PivotObj, CacheInv, Sound, NotAhead
<1>3. MarkInv'
  BY DEF TypeOK, PivotObj, LocalObj, CacheInv, MarkInv, WorkerInv, GcInv,
         Sound, Seen, View, NotAhead
<1>4. ClockInv'
  BY DEF TypeOK, PivotObj, LocalObj, CacheInv, MarkInv, ClockInv, WorkerInv,
         GcInv, Sound, Seen, View, NotAhead
<1>5. WorkerInv'
  BY DEF TypeOK, PivotObj, LocalObj, Phase, Idle, CacheInv, MarkInv, WorkerInv,
         GcInv, Sound, Seen, View, NotAhead
<1>6. GcInv'
  BY DEF GcInv, GcAt
<1>7. StartInv'
  BY DEF StartInv, Idle
<1>8. QED BY <1>1, <1>2, <1>3, <1>4, <1>5, <1>6, <1>7

-----------------------------------------------------------------------------
LEMMA InitIInv == Init => IInv
<1> SUFFICES ASSUME Init PROVE IInv
  OBVIOUS
<1>1. TypeOK
  BY DEF Init, TypeOK, Idle, GcAt
<1>2. CacheInv /\ MarkInv /\ ClockInv
  BY DEF Init, CacheInv, MarkInv, ClockInv, Seen, View
<1>3. WorkerInv /\ GcInv /\ StartInv
  BY DEF Init, WorkerInv, GcInv, StartInv, Idle, GcAt
<1>4. QED BY <1>1, <1>2, <1>3 DEF IInv

LEMMA NextIInv == IInv /\ [Next]_vars => IInv'
<1> SUFFICES ASSUME IInv, [Next]_vars PROVE IInv'
  OBVIOUS
<1>1. CASE UNCHANGED vars
  BY <1>1 DEF vars, IInv, TypeOK, CacheInv, MarkInv, ClockInv, WorkerInv, GcInv, Seen,
              View, Sound, StartInv
<1>2. CASE Users
  BY <1>2, PivotCreateStep, PivotUpdateStep, PivotDeleteStep DEF Users
<1>3. CASE Reconcile
  BY <1>3, PopStep, GetLocalStep, DelGetStep, ForceDeleteStep, DeleteLocalStep,
     CreateLocalStep, UpdateLocalStep DEF Reconcile
<1>4. CASE Collect
  BY <1>4, GcListStep, GcCheckStep, GcDeleteStep, GcEndStep DEF Collect
<1>5. CASE \E k \in Keys : Deliver(k) \/ Resync(k) \/ Panic(k) \/ LocalFinalize(k)
  BY <1>5, DeliverStep, ResyncStep, PanicStep, LocalFinalizeStep
<1>6. CASE Tick \/ Crash \/ InitialList \/ CallFails
  BY <1>6, TickStep, CrashStep, InitialListStep, CallFailsStep
<1>7. QED
  BY <1>1, <1>2, <1>3, <1>4, <1>5, <1>6 DEF Next

\* IInv holds in every reachable state.
THEOREM Invariance == Spec => []IInv
  BY InitIInv, NextIInv, PTL DEF Spec

\* Every variable keeps its type.
THEOREM TypeCorrect == Spec => []TypeOK
  BY Invariance, PTL DEF IInv
-----------------------------------------------------------------------------
(* The copies implement ReplicaSpec.                                       *)

LEMMA InitRefines == Init => Replica!Init
  BY DEF Init, Copies, Replica!Init

\* A step that leaves the copies and the pivot's version alone.
LEMMA QuietRefines ==
  ASSUME UNCHANGED <<rv, local, mark>>
  PROVE  UNCHANGED Replica!vars
  BY DEF Copies, Replica!vars

\* Deleting copies drops at most the one copy of k.
LEMMA DropRefines ==
  ASSUME NEW k \in Keys, UNCHANGED <<rv, mark>>, OnlyDeletes,
         \A j \in Keys : j # k => local'[j] = local[j]
  PROVE  [Replica!Next]_(Replica!vars)
<1>1. CASE local'[k] = None
  <2>1. Copies' = [Copies EXCEPT ![k] = None]
    BY <1>1 DEF Copies
  <2>2. Replica!Drop(k)
    BY <2>1 DEF Replica!Drop
  <2>3. QED BY <2>2 DEF Replica!Next
<1>2. CASE local'[k] # None
  <2>1. Copies' = Copies
    BY <1>2 DEF Copies, OnlyDeletes
  <2>2. QED BY <2>1 DEF Replica!vars
<1>3. QED BY <1>1, <1>2

\* Writing the version v to k, not behind what was written there before.
LEMMA WriteRefines ==
  ASSUME IInv, NEW k \in Keys, NEW v \in Nat, mark[k] <= v, v <= rv, UNCHANGED rv,
         NEW o \in LocalObj, o.src = v,
         local' = [local EXCEPT ![k] = o], mark' = [mark EXCEPT ![k] = v]
  PROVE  Replica!Next
<1>1. local \in [Keys -> LocalObj \cup {None}] /\ rv \in Nat
  BY DEF IInv, TypeOK
<1>2. o # None
  OBVIOUS
<1>3. Copies' = [Copies EXCEPT ![k] = v]
  BY <1>1, <1>2 DEF Copies
<1>4. Replica!Apply(k, v)
  BY <1>3 DEF Replica!Apply
<1>5. v \in 0..rv
  BY <1>1
<1>6. QED BY <1>4, <1>5 DEF Replica!Next

LEMMA NextRefines == IInv /\ [Next]_vars => [Replica!Next]_(Replica!vars)
<1> SUFFICES ASSUME IInv, [Next]_vars PROVE [Replica!Next]_(Replica!vars)
  OBVIOUS
<1>1. CASE UNCHANGED vars
  BY <1>1, QuietRefines DEF vars
<1>2. CASE Users
  <2>1. /\ rv' = rv + 1
        /\ UNCHANGED <<local, mark>>
    BY <1>2 DEF Users, PivotCreate, PivotUpdate, PivotDelete, PivotWrite
  <2>2. Replica!Publish
    BY <2>1 DEF IInv, TypeOK, Copies, Replica!Publish
  <2>3. QED BY <2>2 DEF Replica!Next
<1>3. CASE Tick \/ Crash \/ InitialList \/ CallFails \/ GcList \/ GcEnd
  BY <1>3, QuietRefines
  DEF Tick, Crash, Restart, InitialList, CallFails, Fail, NoFail, GcList, GcEnd, pivotVars, workerFrame, gcFrame
<1>4. CASE \E k \in Keys : Deliver(k) \/ Resync(k) \/ Panic(k) \/ Pop(k) \/ GcCheck(k)
  BY <1>4, QuietRefines
  DEF Deliver, Resync, Panic, Restart, Pop, GcCheck, pivotVars, workerFrame, gcFrame
<1>5. CASE GetLocal \/ DelGet
  BY <1>5, QuietRefines DEF GetLocal, DelGet, workerFrame, pivotVars
<1>6. CASE \E k \in Keys : LocalFinalize(k)
  BY <1>6, DropRefines DEF LocalFinalize, pivotVars, OnlyDeletes, IInv, TypeOK
<1>7. CASE ForceDelete
  <2>1. local' = local \/ (/\ local[worker.key] # None
                          /\ local' = [local EXCEPT ![worker.key].force = TRUE])
    BY <1>7 DEF ForceDelete
  <2>2. worker.key \in Keys /\ local \in [Keys -> LocalObj \cup {None}]
    BY <1>7 DEF ForceDelete, IInv, WorkerInv, TypeOK
  <2>3. OnlyDeletes /\ \A j \in Keys : j # worker.key => local'[j] = local[j]
    BY <2>1, <2>2 DEF OnlyDeletes, LocalObj
  <2>4. QED BY <1>7, <2>2, <2>3, DropRefines DEF ForceDelete, workerFrame, pivotVars
<1>8. CASE DeleteLocal
  <2>1. worker.key \in Keys /\ local \in [Keys -> LocalObj \cup {None}]
    BY <1>8 DEF DeleteLocal, IInv, WorkerInv, TypeOK
  <2>2. CASE UNCHANGED local
    BY <1>8, <2>2, QuietRefines DEF DeleteLocal, workerFrame, pivotVars
  <2>3. CASE local[worker.key] # None
          /\ \E o \in DeleteOutcomes(local[worker.key]) :
               local' = [local EXCEPT ![worker.key] = o]
    <3>1. OnlyDeletes /\ \A j \in Keys : j # worker.key => local'[j] = local[j]
      BY <2>1, <2>3, DeleteIsOnlyDelete
    <3>2. QED BY <1>8, <2>1, <3>1, DropRefines DEF DeleteLocal, workerFrame, pivotVars
  <2>4. QED BY <1>8, <2>2, <2>3 DEF DeleteLocal
<1>9. CASE GcDelete
  <2>1. gc.key \in Keys /\ local \in [Keys -> LocalObj \cup {None}]
    BY <1>9 DEF GcDelete, IInv, GcInv, TypeOK
  <2>2. CASE UNCHANGED local
    BY <1>9, <2>2, QuietRefines DEF GcDelete, gcFrame, pivotVars
  <2>3. CASE local[gc.key] # None
          /\ \E o \in DeleteOutcomes(local[gc.key]) :
               local' = [local EXCEPT ![gc.key] = o]
    <3>1. OnlyDeletes /\ \A j \in Keys : j # gc.key => local'[j] = local[j]
      BY <2>1, <2>3, DeleteIsOnlyDelete
    <3>2. QED BY <1>9, <2>1, <3>1, DropRefines DEF GcDelete, gcFrame, pivotVars
  <2>4. QED BY <1>9, <2>2, <2>3 DEF GcDelete
<1>10. CASE CreateLocal \/ UpdateLocal
  <2> DEFINE k == worker.key
             v == worker.obj.rv
  <2>1. /\ k \in Keys /\ worker.obj \in PivotObj /\ v \in Nat
        /\ mark[k] <= v /\ v <= rv
    BY <1>10 DEF CreateLocal, UpdateLocal, IInv, WorkerInv, TypeOK, PivotObj, Sound
  <2>2. UNCHANGED rv
    BY <1>10 DEF CreateLocal, UpdateLocal, workerFrame, pivotVars
  <2>3. CASE UNCHANGED <<local, mark>>
    BY <2>2, <2>3, QuietRefines
  <2>4. CASE ~ UNCHANGED <<local, mark>>
    <3>1. IInv'
      BY NextIInv
    <3>2. \E o : /\ local' = [local EXCEPT ![k] = o] /\ o # None /\ o.src = v
                /\ mark' = [mark EXCEPT ![k] = v]
      <4>1. CASE CreateLocal
        <5> DEFINE c == [src |-> v, ann |-> worker.ann, ct |-> now,
                         sync |-> worker.obj.sync, del |-> FALSE, force |-> FALSE]
        <5>1. /\ local' = [local EXCEPT ![k] = c]
              /\ mark' = [mark EXCEPT ![k] = v]
          BY <4>1, <2>4 DEF CreateLocal
        <5>2. c \in LocalObj /\ c.src = v
          BY <2>1 DEF IInv, TypeOK, PivotObj, LocalObj
        <5>3. QED BY <5>1, <5>2
      <4>2. CASE UpdateLocal
        <5> DEFINE c == [src |-> v, ann |-> worker.ann, ct |-> local[k].ct,
                         sync |-> worker.obj.sync, del |-> local[k].del, force |-> FALSE]
        <5>1. /\ local' = [local EXCEPT ![k] = c]
              /\ mark' = [mark EXCEPT ![k] = v]
              /\ local[k] # None
          BY <4>2, <2>4 DEF UpdateLocal
        <5>2. c \in LocalObj /\ c.src = v
          <6>1. local[k] \in LocalObj
            BY <2>1, <5>1 DEF IInv, TypeOK
          <6>2. QED BY <2>1, <6>1 DEF IInv, TypeOK, PivotObj, LocalObj
        <5>3. QED BY <5>1, <5>2
      <4>3. QED BY <1>10, <4>1, <4>2
    <3>3. PICK o : /\ local' = [local EXCEPT ![k] = o] /\ o # None /\ o.src = v
                   /\ mark' = [mark EXCEPT ![k] = v]
      BY <3>2
    <3>4. o \in LocalObj
      <4>1. local'[k] = o
        BY <2>1, <3>3 DEF IInv, TypeOK
      <4>2. QED BY <2>1, <3>1, <3>3, <4>1 DEF IInv, TypeOK
    <3>5. QED BY <2>1, <2>2, <3>3, <3>4, WriteRefines
  <2>5. QED BY <2>3, <2>4
<1>11. QED
  BY <1>1, <1>2, <1>3, <1>4, <1>5, <1>6, <1>7, <1>8, <1>9, <1>10
  DEF Next, Reconcile, Collect

\* The copies implement ReplicaSpec: they only ever move forward through the
\* versions the pivot cluster publishes.
THEOREM CopiesOnlyAdvance == Spec => ReplicaSafety
<1>1. Spec => []IInv
  BY Invariance
<1>2. QED
  BY <1>1, InitRefines, NextRefines, PTL DEF Spec, ReplicaSafety, Replica!Spec

-----------------------------------------------------------------------------
LEMMA DeleteStepSpares ==
  ASSUME IInv, [Next]_vars, NEW k \in Keys
  PROVE  SparesLiveCopy(k)
<1> SUFFICES ASSUME worker.pc = "delete", worker.key = k, local[k] # None,
                    pivot[k] # None, pivot[k].uid <= local[k].src
             PROVE  FALSE
  BY DEF SparesLiveCopy, IInv, TypeOK, PivotObj, LocalObj
<1>1. local[k].src = mark[k]
  BY DEF IInv, MarkInv
<1>2. CASE worker.obj = None
  BY <1>1, <1>2 DEF IInv, WorkerInv, TypeOK, PivotObj, LocalObj
<1>3. CASE worker.obj # None
  <2>1. mark[k] <= worker.obj.rv /\ NotAhead(worker.obj, pivot[k])
    BY <1>3 DEF IInv, WorkerInv
  <2>2. worker.obj.ct = pivot[k].ct
    BY <1>1, <1>3, <2>1 DEF NotAhead, IInv, TypeOK, PivotObj, LocalObj
  <2>3. pivot[k].ct <= local[k].ct /\ local[k].ct < worker.obj.ct
    BY <1>3 DEF IInv, ClockInv, WorkerInv
  <2>4. QED BY <1>3, <2>2, <2>3 DEF IInv, TypeOK, PivotObj, LocalObj
<1>4. QED BY <1>2, <1>3

\* The reconciler never deletes the copy of an object that is live in the pivot
\* cluster, given that both clusters read one clock.
THEOREM LiveCopiesSpared == Spec => ReconcilerSparesLiveCopies
<1>1. IInv /\ [Next]_vars => [\A k \in Keys : SparesLiveCopy(k)]_vars
  BY DeleteStepSpares
<1>2. QED
  BY <1>1, Invariance, PTL DEF Spec, ReconcilerSparesLiveCopies

-----------------------------------------------------------------------------
(* What the copies are when every event has been handled.                  *)

At(k) == worker.pc # "idle" /\ worker.key = k

\* A label that is not empty is the version of the content, and what the
\* reconciliation is about to write is labelled so.
LabelInv ==
  /\ \A k \in Keys : local[k] # None => local[k].ann \in {NoRV, local[k].src}
  /\ worker.pc \in {"force", "delete"} => worker.ann = NoRV
  /\ worker.pc \in {"create", "update"} => worker.ann \in {NoRV, worker.obj.rv}
  /\ worker.pc = "update" => worker.ann = worker.obj.rv

UpToDate(k) ==
  local[k] # None /\ local[k].ann # NoRV => local[k].src = pivot[k].rv

\* Of an object that is to be synced, once its last event has reached the informer:
\* its key is queued, or the reconciliation at work on it has read it as it is, or
\* its copy is up to date.
FreshInv ==
  \A k \in Keys : listed /\ pivot[k] # None /\ pivot[k].sync /\ ~pend[k] =>
    /\ cache[k] = pivot[k]
    /\ k \notin queue => IF At(k) THEN worker.obj = pivot[k] ELSE UpToDate(k)

Gone(k) == local[k] # None => local[k].del

\* Without users who clear the annotation, everything is a sync resource.
SyncedInv ==
  /\ \A k \in Keys : /\ pivot[k] # None => pivot[k].sync
                     /\ cache[k] # None => cache[k].sync
                     /\ local[k] # None => local[k].sync
  /\ worker.obj # None => worker.obj.sync

\* Of an object that is gone, once that has reached the informer: its key is queued,
\* or the reconciliation at work on it has found nothing, or its copy is being
\* deleted, or its deletion was missed and the collector has yet to come to it, or
\* will not.
ResidueInv ==
  \A k \in Keys : listed /\ pivot[k] = None /\ ~pend[k] =>
    /\ cache[k] = None
    /\ k \notin queue =>
         IF At(k) THEN worker.obj = None
         ELSE Gone(k) \/ (missed[k] = "due" /\ Due(k)) \/ ~Answered(k)

MirrorInv == LabelInv /\ FreshInv /\ (~Unsync => SyncedInv /\ ResidueInv)

\* A user creates or updates k: o is the object from now on.
LEMMA WriteMirrors ==
  ASSUME IInv, MirrorInv, NEW k \in Keys, NEW o \in PivotObj, o.sync \/ Unsync,
         PivotWrite(k, o, o.sync)
  PROVE  MirrorInv'
<1>0. /\ pivot' = [pivot EXCEPT ![k] = o]
      /\ pend' = [pend EXCEPT ![k] = @ \/ (o.sync /\ listed)]
      /\ UNCHANGED <<cache, listed, queue, worker, local, gc>>
      /\ missed' \in {missed, [missed EXCEPT ![k] = "no"]}
      /\ o # None
  BY DEF PivotWrite
<1> USE DEF IInv, MirrorInv
<1>1. LabelInv'
  BY <1>0 DEF LabelInv
<1>2. FreshInv'
  BY <1>0 DEF FreshInv, At, UpToDate, TypeOK
<1>3. ~Unsync => SyncedInv'
  BY <1>0 DEF SyncedInv, TypeOK
<1>4. ~Unsync => ResidueInv'
  BY <1>0 DEF ResidueInv, At, Due, Gone, Answered, TypeOK
<1> QED BY <1>1, <1>2, <1>3, <1>4

LEMMA PivotCreateMirrors ==
  ASSUME IInv, MirrorInv, NEW k \in Keys, PivotCreate(k)
  PROVE  MirrorInv'
<1>1. PICK s \in SyncChoices :
        PivotWrite(k, [uid |-> rv + 1, rv |-> rv + 1, ct |-> now, sync |-> s], s)
  BY DEF PivotCreate
<1>2. DEFINE o == [uid |-> rv + 1, rv |-> rv + 1, ct |-> now, sync |-> s]
<1>3. o \in PivotObj /\ o.sync = s /\ (s \/ Unsync)
  <2>1. s \in BOOLEAN /\ (s \/ Unsync)
    BY DEF SyncChoices
  <2>2. rv + 1 \in Nat /\ now \in Nat
    BY DEF IInv, TypeOK
  <2> QED BY <2>1, <2>2 DEF PivotObj
<1>4. PivotWrite(k, o, o.sync)
  BY <1>1, <1>3
<1> HIDE DEF o
<1> QED BY <1>3, <1>4, WriteMirrors

LEMMA PivotUpdateMirrors ==
  ASSUME IInv, MirrorInv, NEW k \in Keys, PivotUpdate(k)
  PROVE  MirrorInv'
<1>1. PICK s \in SyncChoices :
        PivotWrite(k, [pivot[k] EXCEPT !.rv = rv + 1, !.sync = s], s)
  BY DEF PivotUpdate
<1>2. DEFINE o == [pivot[k] EXCEPT !.rv = rv + 1, !.sync = s]
<1>3. o \in PivotObj /\ o.sync = s /\ (s \/ Unsync)
  <2>1. pivot[k] \in PivotObj /\ rv + 1 \in Nat
    BY DEF PivotUpdate, IInv, TypeOK
  <2> QED BY <2>1 DEF PivotObj, SyncChoices
<1>4. PivotWrite(k, o, o.sync)
  BY <1>1, <1>3
<1> HIDE DEF o
<1> QED BY <1>3, <1>4, WriteMirrors

LEMMA PivotDeleteMirrors ==
  ASSUME IInv, MirrorInv, NEW k \in Keys, PivotDelete(k)
  PROVE  MirrorInv'
<1> USE DEF IInv, MirrorInv, PivotDelete, PivotWrite
<1>1. LabelInv'
  BY DEF LabelInv
<1>2. FreshInv'
  BY DEF FreshInv, At, UpToDate, TypeOK
<1>3. ~Unsync => SyncedInv'
  BY DEF SyncedInv
<1>4. ~Unsync => ResidueInv'
  BY DEF SyncedInv, ResidueInv, At, Due, Gone, Answered, TypeOK, WorkerInv, GcInv, LocalObj
<1> QED BY <1>1, <1>2, <1>3, <1>4

LEMMA TickMirrors ==
  ASSUME IInv, MirrorInv, Tick
  PROVE  MirrorInv'
<1> USE DEF IInv, MirrorInv, Tick, pivotVars, procVars
<1>1. LabelInv'
  BY DEF LabelInv
<1>2. FreshInv'
  BY DEF FreshInv, At, UpToDate
<1>3. ~Unsync => SyncedInv'
  BY DEF SyncedInv
<1>4. ~Unsync => ResidueInv'
  BY DEF ResidueInv, At, Due, Gone, Answered
<1> QED BY <1>1, <1>2, <1>3, <1>4

LEMMA DeliverMirrors ==
  ASSUME IInv, MirrorInv, NEW k \in Keys, Deliver(k)
  PROVE  MirrorInv'
<1> USE DEF IInv, MirrorInv, Deliver, pivotVars
<1>1. LabelInv'
  BY DEF LabelInv
<1>2. FreshInv'
  BY DEF FreshInv, At, UpToDate, TypeOK
<1>3. ~Unsync => SyncedInv'
  BY DEF SyncedInv
<1>4. ~Unsync => ResidueInv'
  BY DEF ResidueInv, At, Due, Gone, Answered, TypeOK
<1> QED BY <1>1, <1>2, <1>3, <1>4

LEMMA ResyncMirrors ==
  ASSUME IInv, MirrorInv, NEW k \in Keys, Resync(k)
  PROVE  MirrorInv'
<1> USE DEF IInv, MirrorInv, Resync, pivotVars
<1>1. LabelInv'
  BY DEF LabelInv
<1>2. FreshInv'
  BY DEF FreshInv, At, UpToDate
<1>3. ~Unsync => SyncedInv'
  BY DEF SyncedInv
<1>4. ~Unsync => ResidueInv'
  BY DEF ResidueInv, At, Due, Gone, Answered
<1> QED BY <1>1, <1>2, <1>3, <1>4

LEMMA InitialListMirrors ==
  ASSUME IInv, MirrorInv, InitialList
  PROVE  MirrorInv'
<1> USE DEF IInv, MirrorInv, InitialList, Missed, StartInv, Idle, pivotVars
<1>1. LabelInv'
  BY DEF LabelInv
<1>2. FreshInv'
  BY DEF FreshInv, At, UpToDate
<1>3. ~Unsync => SyncedInv'
  BY DEF SyncedInv
<1>4. ~Unsync => ResidueInv'
  BY DEF ResidueInv, At, Due, Gone, Answered
<1> QED BY <1>1, <1>2, <1>3, <1>4

LEMMA CrashMirrors ==
  ASSUME IInv, MirrorInv, Crash
  PROVE  MirrorInv'
<1> USE DEF IInv, MirrorInv, Crash, Restart, pivotVars, Idle, GcAt
<1>1. LabelInv'
  BY DEF LabelInv
<1>2. FreshInv'
  BY DEF FreshInv, At, UpToDate
<1>3. ~Unsync => SyncedInv'
  BY DEF SyncedInv
<1>4. ~Unsync => ResidueInv'
  BY DEF ResidueInv, At, Due, Gone, Answered
<1> QED BY <1>1, <1>2, <1>3, <1>4

LEMMA PanicMirrors ==
  ASSUME IInv, MirrorInv, NEW k \in Keys, Panic(k)
  PROVE  MirrorInv'
<1> USE DEF IInv, MirrorInv, Panic, Restart, pivotVars, Idle, GcAt
<1>1. LabelInv'
  BY DEF LabelInv
<1>2. FreshInv'
  BY DEF FreshInv, At, UpToDate
<1>3. ~Unsync => SyncedInv'
  BY DEF SyncedInv
<1>4. ~Unsync => ResidueInv'
  BY DEF ResidueInv, At, Due, Gone, Answered
<1> QED BY <1>1, <1>2, <1>3, <1>4

LEMMA PopMirrors ==
  ASSUME IInv, MirrorInv, NEW k \in Keys, Pop(k)
  PROVE  MirrorInv'
<1> USE DEF IInv, MirrorInv, Pop, workerFrame, pivotVars
<1>1. LabelInv'
  BY DEF LabelInv
<1>2. FreshInv'
  BY DEF FreshInv, At, UpToDate
<1>3. ~Unsync => SyncedInv'
  BY DEF SyncedInv
<1>4. ~Unsync => ResidueInv'
  BY DEF ResidueInv, At, Due, Gone, Answered
<1> QED BY <1>1, <1>2, <1>3, <1>4

LEMMA GetLocalMirrors ==
  ASSUME IInv, MirrorInv, GetLocal
  PROVE  MirrorInv'
<1> USE DEF IInv, MirrorInv, GetLocal, NewObject, Goto, Retry, Done, Idle, workerFrame,
            pivotVars
<1>1. LabelInv'
  BY DEF LabelInv
<1>2. FreshInv'
  BY DEF LabelInv, FreshInv, At, UpToDate, MarkInv, Seen, View, TypeOK, PivotObj, LocalObj,
         Phase, WorkerInv, GcInv, StartInv
<1>3. ~Unsync => SyncedInv'
  BY DEF SyncedInv
<1>4. ~Unsync => ResidueInv'
  BY DEF ResidueInv, At, Due, Gone, Answered, TypeOK, WorkerInv, GcInv
<1> QED BY <1>1, <1>2, <1>3, <1>4

LEMMA DelGetMirrors ==
  ASSUME IInv, MirrorInv, DelGet
  PROVE  MirrorInv'
<1> USE DEF IInv, MirrorInv, DelGet, Goto, Done, Idle, workerFrame, pivotVars
<1>1. LabelInv'
  BY DEF LabelInv
<1>2. FreshInv'
  BY DEF FreshInv, At, UpToDate
<1>3. ~Unsync => SyncedInv'
  BY DEF SyncedInv
<1>4. ~Unsync => ResidueInv'
  BY DEF ResidueInv, At, Due, Gone, Answered
<1> QED BY <1>1, <1>2, <1>3, <1>4

LEMMA ForceDeleteMirrors ==
  ASSUME IInv, MirrorInv, ForceDelete
  PROVE  MirrorInv'
<1> USE DEF IInv, MirrorInv, ForceDelete, Goto, workerFrame, pivotVars
<1>1. LabelInv'
  BY DEF LabelInv
<1>2. FreshInv'
  BY DEF FreshInv, At, UpToDate
<1>3. ~Unsync => SyncedInv'
  BY DEF SyncedInv
<1>4. ~Unsync => ResidueInv'
  BY DEF ResidueInv, At, Due, Gone, Answered
<1> QED BY <1>1, <1>2, <1>3, <1>4

LEMMA DeleteLocalMirrors ==
  ASSUME IInv, MirrorInv, DeleteLocal
  PROVE  MirrorInv'
<1> USE DEF IInv, MirrorInv, DeleteLocal, DeleteOutcomes, DeleteDenied, AfterDelete, Goto,
            Retry, Idle, workerFrame, pivotVars
<1>1. LabelInv'
  BY DEF LabelInv, TypeOK, WorkerInv, PivotObj, LocalObj
<1>2. FreshInv'
  BY DEF FreshInv, At, UpToDate, TypeOK
<1>3. ~Unsync => SyncedInv'
  <2>1. \A j \in Keys : local'[j] # None => local[j] # None /\ local'[j].sync = local[j].sync
    BY DEF TypeOK, WorkerInv, LocalObj
  <2>2. worker'.obj # None => worker'.obj = worker.obj
    OBVIOUS
  <2> QED BY <2>1, <2>2 DEF SyncedInv
<1>4. ~Unsync => ResidueInv'
  BY DEF SyncedInv, ResidueInv, At, Due, Gone, Answered, TypeOK, WorkerInv, GcInv, LocalObj
<1> QED BY <1>1, <1>2, <1>3, <1>4

LEMMA CreateLocalMirrors ==
  ASSUME IInv, MirrorInv, CreateLocal
  PROVE  MirrorInv'
<1> USE DEF IInv, MirrorInv, CreateLocal, Retry, Done, Idle, workerFrame, pivotVars
<1>1. LabelInv'
  BY DEF LabelInv, TypeOK
<1>2. FreshInv'
  BY DEF FreshInv, At, UpToDate, TypeOK
<1>3. ~Unsync => SyncedInv'
  BY DEF SyncedInv, TypeOK, WorkerInv
<1>4. ~Unsync => ResidueInv'
  BY DEF ResidueInv, At, Due, Gone, Answered, TypeOK, WorkerInv, GcInv
<1> QED BY <1>1, <1>2, <1>3, <1>4

LEMMA UpdateLocalMirrors ==
  ASSUME IInv, MirrorInv, UpdateLocal
  PROVE  MirrorInv'
<1> USE DEF IInv, MirrorInv, UpdateLocal, Retry, Done, Idle, workerFrame, pivotVars
<1>1. LabelInv'
  BY DEF LabelInv, TypeOK
<1>2. FreshInv'
  BY DEF FreshInv, At, UpToDate, TypeOK
<1>3. ~Unsync => SyncedInv'
  BY DEF SyncedInv, TypeOK, WorkerInv
<1>4. ~Unsync => ResidueInv'
  BY DEF ResidueInv, At, Due, Gone, Answered, TypeOK, WorkerInv, GcInv
<1> QED BY <1>1, <1>2, <1>3, <1>4

LEMMA CallFailsMirrors ==
  ASSUME IInv, MirrorInv, CallFails
  PROVE  MirrorInv'
<1> USE DEF IInv, MirrorInv, CallFails, Fail, NoFail, Retry, Idle, workerFrame, pivotVars
<1>1. LabelInv'
  BY DEF LabelInv
<1>2. FreshInv'
  BY DEF FreshInv, At, UpToDate
<1>3. ~Unsync => SyncedInv'
  BY DEF SyncedInv
<1>4. ~Unsync => ResidueInv'
  BY DEF ResidueInv, At, Due, Gone, Answered
<1> QED BY <1>1, <1>2, <1>3, <1>4

LEMMA LocalFinalizeMirrors ==
  ASSUME IInv, MirrorInv, NEW k \in Keys, LocalFinalize(k)
  PROVE  MirrorInv'
<1> USE DEF IInv, MirrorInv, LocalFinalize, pivotVars, procVars
<1>1. LabelInv'
  BY DEF LabelInv
<1>2. FreshInv'
  BY DEF FreshInv, At, UpToDate
<1>3. ~Unsync => SyncedInv'
  BY DEF SyncedInv
<1>4. ~Unsync => ResidueInv'
  BY DEF ResidueInv, At, Due, Gone, Answered
<1> QED BY <1>1, <1>2, <1>3, <1>4

LEMMA GcListMirrors ==
  ASSUME IInv, MirrorInv, GcList
  PROVE  MirrorInv'
<1> USE DEF IInv, MirrorInv, GcList, Fail, NoFail, GcAt, gcFrame, pivotVars
<1>1. LabelInv'
  BY DEF LabelInv
<1>2. FreshInv'
  BY DEF FreshInv, At, UpToDate
<1>3. ~Unsync => SyncedInv'
  BY DEF SyncedInv
<1>4. ~Unsync => ResidueInv'
  BY DEF SyncedInv, ResidueInv, At, Due, Gone, Answered, TypeOK, WorkerInv, GcInv, LocalObj
<1> QED BY <1>1, <1>2, <1>3, <1>4

LEMMA GcCheckMirrors ==
  ASSUME IInv, MirrorInv, NEW k \in Keys, GcCheck(k)
  PROVE  MirrorInv'
<1> USE DEF IInv, MirrorInv, GcCheck, Fail, NoFail, GcAt, gcFrame, pivotVars
<1>1. LabelInv'
  BY DEF LabelInv
<1>2. FreshInv'
  BY DEF FreshInv, At, UpToDate
<1>3. ~Unsync => SyncedInv'
  BY DEF SyncedInv
<1>4. ~Unsync => ResidueInv'
  BY DEF ResidueInv, At, Due, Gone, Answered, TypeOK
<1> QED BY <1>1, <1>2, <1>3, <1>4

LEMMA GcDeleteMirrors ==
  ASSUME IInv, MirrorInv, GcDelete
  PROVE  MirrorInv'
<1> USE DEF IInv, MirrorInv, GcDelete, Fail, NoFail, DeleteOutcomes, DeleteDenied, GcAt, gcFrame,
            pivotVars
<1>1. LabelInv'
  BY DEF LabelInv, TypeOK, WorkerInv, PivotObj, LocalObj
<1>2. FreshInv'
  BY DEF FreshInv, At, UpToDate, LabelInv, TypeOK, WorkerInv, PivotObj, LocalObj
<1>3. ~Unsync => SyncedInv'
  BY DEF SyncedInv, TypeOK, WorkerInv, LocalObj
<1>4. ~Unsync => ResidueInv'
  BY DEF SyncedInv, ResidueInv, At, Due, Gone, Answered, TypeOK, WorkerInv, GcInv, LocalObj
<1> QED BY <1>1, <1>2, <1>3, <1>4

LEMMA GcEndMirrors ==
  ASSUME IInv, MirrorInv, GcEnd
  PROVE  MirrorInv'
<1> USE DEF IInv, MirrorInv, GcEnd, GcAt, gcFrame, pivotVars
<1>1. LabelInv'
  BY DEF LabelInv
<1>2. FreshInv'
  BY DEF FreshInv, At, UpToDate
<1>3. ~Unsync => SyncedInv'
  BY DEF SyncedInv
<1>4. ~Unsync => ResidueInv'
  BY DEF ResidueInv, At, Due, Gone, Answered
<1> QED BY <1>1, <1>2, <1>3, <1>4

LEMMA InitMirrors == Init => MirrorInv
<1> SUFFICES ASSUME Init PROVE MirrorInv
  OBVIOUS
<1>1. LabelInv
  BY DEF Init, LabelInv, Idle
<1>2. FreshInv
  BY DEF Init, FreshInv
<1>3. SyncedInv
  BY DEF Init, SyncedInv, Idle
<1>4. ResidueInv
  BY DEF Init, ResidueInv, Gone, At, Idle
<1> QED BY <1>1, <1>2, <1>3, <1>4 DEF MirrorInv

LEMMA NextMirrors == IInv /\ MirrorInv /\ [Next]_vars => MirrorInv'
<1> SUFFICES ASSUME IInv, MirrorInv, [Next]_vars PROVE MirrorInv'
  OBVIOUS
<1>1. CASE UNCHANGED vars
  BY <1>1 DEF vars, MirrorInv, LabelInv, FreshInv, At, UpToDate, SyncedInv, ResidueInv,
              Due, Gone, Answered
<1>2. CASE Users
  BY <1>2, PivotCreateMirrors, PivotUpdateMirrors, PivotDeleteMirrors DEF Users
<1>3. CASE Reconcile
  BY <1>3, PopMirrors, GetLocalMirrors, DelGetMirrors, ForceDeleteMirrors,
     DeleteLocalMirrors, CreateLocalMirrors, UpdateLocalMirrors DEF Reconcile
<1>4. CASE Collect
  BY <1>4, GcListMirrors, GcCheckMirrors, GcDeleteMirrors, GcEndMirrors DEF Collect
<1>5. CASE \E k \in Keys : Deliver(k) \/ Resync(k) \/ Panic(k) \/ LocalFinalize(k)
  BY <1>5, DeliverMirrors, ResyncMirrors, PanicMirrors, LocalFinalizeMirrors
<1>6. CASE Tick \/ Crash \/ InitialList \/ CallFails
  BY <1>6, TickMirrors, CrashMirrors, InitialListMirrors, CallFailsMirrors
<1>7. QED
  BY <1>1, <1>2, <1>3, <1>4, <1>5, <1>6 DEF Next

LEMMA SettledMirrors == MirrorInv => SettledIsMirrored
<1> SUFFICES ASSUME MirrorInv, NEW k \in Keys, Settled(k), local[k] # None
             PROVE  /\ (pivot[k] # None /\ pivot[k].sync /\ local[k].ann # NoRV)
                         => local[k].src = pivot[k].rv
                    /\ (pivot[k] = None /\ ~Unsync /\ Answered(k)) => local[k].del
  BY DEF SettledIsMirrored
<1>1. listed /\ ~pend[k] /\ k \notin queue /\ ~At(k) /\ ~Due(k)
  BY DEF Settled, At, Due
<1>2. (pivot[k] # None /\ pivot[k].sync) => UpToDate(k)
  BY <1>1 DEF MirrorInv, FreshInv
<1>3. (pivot[k] = None /\ ~Unsync /\ Answered(k)) => Gone(k)
  BY <1>1 DEF MirrorInv, ResidueInv
<1> QED BY <1>2, <1>3 DEF UpToDate, Gone

\* Once the controller has handled every event of an object and the collector has
\* ended, the copy that carries a version label has the object's latest content, and
\* where the collector may delete, a copy without an object is on its way out.
THEOREM CopiesAreSettled == Spec => []SettledIsMirrored
<1>1. Spec => []MirrorInv
  BY Invariance, InitMirrors, NextMirrors, PTL DEF Spec
<1> QED BY <1>1, SettledMirrors, PTL
=============================================================================
