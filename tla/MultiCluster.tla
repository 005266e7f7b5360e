---------------------------- MODULE MultiCluster ----------------------------
(***************************************************************************)
(* One replica of KubeCube that follows another one: the multi-cluster     *)
(* manager (pkg/multicluster/manager.go), the sync manager that fills it   *)
(* from the Cluster objects (sync.go, with the work queue of               *)
(* pkg/utils/worker), the scout that watches a cluster's heartbeats        *)
(* (scout/scout.go) and the API that receives them.                        *)
(*                                                                         *)
(* The model follows one cluster: clusters share no state.  Its Cluster    *)
(* object is in the pivot cluster, where users and the leading replica     *)
(* write it too.  Time is kept as the age of the heartbeats: one is fresh  *)
(* until WaitTimeoutSeconds have passed.                                   *)
(***************************************************************************)
EXTENDS Integers, FiniteSets

CONSTANTS
  None,
  MaxRetries,  \* maxRetries of the work queue (15 in the code)
  MaxPosts,    \* bound: heartbeats of one cluster waiting to be received
  MaxCreate,   \* bound: how often users create the Cluster object
  MaxFlips,    \* bound: changes of the member cluster's state
  MaxFaults,   \* bound: API calls that fail
  MaxLeaked,   \* bound: the count of leaked internal clusters saturates here
  MaxAlive     \* bound: internal clusters alive at one time

ASSUME BoundAssumption ==
  /\ MaxRetries \in Nat /\ MaxPosts \in Nat /\ MaxCreate \in Nat
  /\ MaxFlips \in Nat /\ MaxFaults \in Nat /\ MaxLeaked \in Nat /\ MaxAlive \in Nat

\* Start lists the clusters itself, beside the worker it has started.
Threads == {"start", "worker"}

\* Internal clusters: one registered, one being built by each thread, and any
\* that were deleted while their scout, or a status write of it, goes on.
Ids == 1 .. MaxAlive

\* processing stands for every state the cluster controller writes.
State == {"nil", "processing", "normal", "abnormal"}
Heartbeat == {"nil", "fresh", "stale"}
Status == [state : State, hb : Heartbeat]

ASSUME NoneAssumption == None \notin Status /\ None \notin Ids /\ None \notin Heartbeat

VARIABLES
  cr,          \* the status of the Cluster object, None when there is none
  peer,        \* the last heartbeat in the status the leading replica has read
  reach,       \* the member cluster's API server answers
  up,          \* the member cluster's warden reports
  seen,        \* the informer's cache holds the Cluster object
  pend,        \* an add or delete event is under way to the informer
  queue,       \* the cluster's key is in the work queue
  tries,       \* NumRequeues of the key
  thread,      \* thread[t]: how far t is in ReconcileCluster
  reg,         \* the internal cluster registered in Clusters
  leaked,      \* internal clusters whose goroutines nobody can stop any more
  scout,       \* scout[i]: the collector goroutine of internal cluster i
  closed,      \* internal clusters whose StopCh is closed and whose collector
               \* has not noticed yet
  health,      \* health[i]: clusterState of its scout
  job,         \* job[i]: the status write its scout is about to make
  posts,       \* posts[i]: goroutines sending a heartbeat to its Receiver
  created, flips, faults

memory == <<queue, tries, thread, reg, leaked, scout, closed, health, job, posts>>
bounds == <<created, flips, faults>>
vars == <<cr, peer, reach, up, seen, pend, memory, bounds>>

AtRest == [pc |-> "idle", id |-> None]
NoJob == [op |-> "none", hb |-> "nil"]

TypeOK ==
  /\ cr \in Status \cup {None}
  /\ peer \in Heartbeat \cup {None}
  /\ {reach, up, seen, pend, queue} \subseteq BOOLEAN
  /\ tries \in Nat
  /\ thread \in [Threads -> [pc : {"idle", "get", "del", "check", "build", "add", "scout"},
                             id : Ids \cup {None}]]
  /\ reg \in Ids \cup {None}
  /\ leaked \in 0 .. MaxLeaked
  /\ scout \in [Ids -> {"none", "delay", "on"}]
  /\ closed \in SUBSET Ids
  /\ health \in [Ids -> {"processing", "normal", "abnormal"}]
  /\ job \in [Ids -> [op : {"none", "healthy", "ill"}, hb : Heartbeat]]
  /\ posts \in [Ids -> 0 .. MaxPosts]
  /\ created \in Nat /\ flips \in Nat /\ faults \in Nat

\* A process that has just started: the informer has synced (an add event
\* per Cluster object), and Start reconciles what it lists.
Booted(obj) ==
  [queue |-> obj # None,
   tries |-> IF obj # None THEN 1 ELSE 0,
   thread |-> [t \in Threads |->
                 [AtRest EXCEPT !.pc = IF t = "start" /\ obj # None THEN "get" ELSE @]]]

Init ==
  /\ cr \in {None, [state |-> "nil", hb |-> "nil"], [state |-> "normal", hb |-> "stale"]}
  /\ peer = None
  /\ reach \in BOOLEAN /\ up \in BOOLEAN
  /\ seen = (cr # None) /\ pend = FALSE
  /\ queue = Booted(cr).queue /\ tries = Booted(cr).tries /\ thread = Booted(cr).thread
  /\ reg = None /\ leaked = 0 /\ closed = {}
  /\ scout = [i \in Ids |-> "none"]
  /\ health = [i \in Ids |-> "processing"]
  /\ job = [i \in Ids |-> NoJob]
  /\ posts = [i \in Ids |-> 0]
  /\ created = 0 /\ flips = 0 /\ faults = 0

\* A panic in any goroutine ends the process; it is started again.
Reboot ==
  /\ seen' = (cr # None) /\ pend' = FALSE
  /\ queue' = Booted(cr).queue /\ tries' = Booted(cr).tries /\ thread' = Booted(cr).thread
  /\ reg' = None /\ leaked' = 0 /\ closed' = {}
  /\ scout' = [i \in Ids |-> "none"]
  /\ health' = [i \in Ids |-> "processing"]
  /\ job' = [i \in Ids |-> NoJob]
  /\ posts' = [i \in Ids |-> 0]
  /\ UNCHANGED <<cr, peer, reach, up, bounds>>

-----------------------------------------------------------------------------
(* The environment: users, the member cluster, the leading replica, time.  *)

envFrame == <<seen, queue, tries, thread, reg, leaked, scout, closed, health, posts>>

ClusterCreate ==
  /\ cr = None
  /\ created < MaxCreate
  /\ created' = created + 1
  /\ cr' = [state |-> "nil", hb |-> "nil"]
  /\ pend' = TRUE
  /\ UNCHANGED <<peer, reach, up, envFrame, job, flips, faults>>

ClusterDelete ==
  /\ cr # None
  /\ cr' = None
  /\ pend' = TRUE
  /\ UNCHANGED <<peer, reach, up, envFrame, job, bounds>>

MemberFlips ==
  /\ flips < MaxFlips
  /\ flips' = flips + 1
  /\ \/ reach' = ~reach /\ UNCHANGED up
     \/ up' = ~up /\ UNCHANGED reach
  /\ UNCHANGED <<cr, peer, envFrame, pend, job, created, faults>>

\* The leading replica's cluster controller: the status it writes is the one
\* it read when its reconciliation began, with the state replaced.
PeerRead ==
  /\ cr # None
  /\ peer' = cr.hb
  /\ UNCHANGED <<cr, reach, up, envFrame, pend, job, bounds>>

PeerWrite ==
  /\ cr # None
  /\ peer # None
  /\ cr' = [state |-> "processing", hb |-> peer]
  /\ peer' = None
  /\ UNCHANGED <<reach, up, envFrame, pend, job, bounds>>

\* The leading replica's scout received a heartbeat.
PeerHeartbeat ==
  /\ cr # None
  /\ up
  /\ cr' = [state |-> "normal", hb |-> "fresh"]
  /\ UNCHANGED <<peer, reach, up, envFrame, pend, job, bounds>>

Aged(hb) == IF hb = "fresh" THEN "stale" ELSE hb

\* WaitTimeoutSeconds pass without a heartbeat.
Expire ==
  /\ cr' = IF cr = None THEN None ELSE [cr EXCEPT !.hb = Aged(@)]
  /\ peer' = Aged(peer)
  /\ job' = [i \in Ids |-> [job[i] EXCEPT !.hb = Aged(@)]]
  /\ UNCHANGED <<reach, up, envFrame, pend, bounds>>

-----------------------------------------------------------------------------
(* The sync manager.                                                       *)

syncFrame == <<cr, peer, reach, up, scout, closed, health, job, posts>>

\* OnClusterAdd and OnClusterDelete.  OnClusterUpdate compares pointers that
\* are never equal, and queues nothing.
Deliver ==
  /\ pend
  /\ pend' = FALSE
  /\ seen' = (cr # None)
  /\ queue' = TRUE
  /\ tries' = tries + 1
  /\ UNCHANGED <<syncFrame, thread, reg, leaked, bounds>>

Goto(t, pc, id) == thread' = [thread EXCEPT ![t] = [pc |-> pc, id |-> id]]

\* ReconcileCluster returns: handleError of the worker, while Start only logs.
Return(t, ok) ==
  /\ Goto(t, "idle", None)
  /\ LET again == t = "worker" /\ ~ok /\ tries < MaxRetries
     IN  /\ queue' = (queue \/ again)
         /\ tries' = IF t = "start" THEN tries ELSE IF again THEN tries + 1 ELSE 0

WorkerPop ==
  /\ queue
  /\ thread["worker"].pc = "idle"
  /\ queue' = FALSE
  /\ Goto("worker", "get", None)
  /\ UNCHANGED <<syncFrame, seen, pend, tries, reg, leaked, bounds>>

\* The cached Cluster object decides between adding and deleting.
ReadCluster(t) ==
  /\ thread[t].pc = "get"
  /\ Goto(t, IF seen THEN "check" ELSE "del", None)
  /\ UNCHANGED <<syncFrame, seen, pend, queue, tries, reg, leaked, bounds>>

\* What is left of an internal cluster without a collector: the heartbeats
\* still being sent to it are sent to nobody.
Forget(i) ==
  /\ health' = [health EXCEPT ![i] = "processing"]
  /\ posts' = [posts EXCEPT ![i] = 0]

\* Del closes StopCh, which tells the collector, if there is one, to stop.
Del(t) ==
  /\ thread[t].pc = "del"
  /\ reg' = None
  /\ \/ reg = None /\ UNCHANGED <<closed, health, posts>>
     \/ reg # None /\ scout[reg] # "none"
        /\ closed' = closed \cup {reg} /\ UNCHANGED <<health, posts>>
     \/ reg # None /\ scout[reg] = "none"
        /\ Forget(reg) /\ UNCHANGED closed
  /\ Return(t, TRUE)
  /\ UNCHANGED <<cr, peer, reach, up, scout, job, seen, pend, leaked, bounds>>

\* (mutant of Unavailable: a cluster whose first heartbeat is still to come is
\* unavailable too)
UnavailableUntilNormal == reg = None \/ health[reg] # "normal"

\* Get returns an error.
Unavailable == reg = None \/ health[reg] = "abnormal"

CheckExisting(t) ==
  /\ thread[t].pc = "check"
  /\ Goto(t, IF Unavailable THEN "build" ELSE "scout", None)
  /\ UNCHANGED <<syncFrame, seen, pend, queue, tries, reg, leaked, bounds>>

Free(i) == i # reg /\ scout[i] = "none" /\ job[i].op = "none" /\ \A t \in Threads : thread[t].id # i

Leak == leaked' = IF leaked < MaxLeaked THEN leaked + 1 ELSE leaked

\* NewInternalCluster starts the goroutines of the cluster's cache.  A failure
\* after that, or before it, is returned as an error.
Build(t) ==
  /\ thread[t].pc = "build"
  /\ \/ /\ reach /\ \E i \in Ids : Free(i)
        /\ Goto(t, "add", CHOOSE i \in Ids : Free(i))
        /\ UNCHANGED <<queue, tries, leaked, faults>>
     \/ /\ ~reach
        /\ Return(t, FALSE)
        /\ UNCHANGED <<leaked, faults>>
     \/ /\ reach /\ faults < MaxFaults
        /\ faults' = faults + 1
        /\ Leak
        /\ Return(t, FALSE)
  /\ UNCHANGED <<syncFrame, seen, pend, reg, created, flips>>

\* (mutant of Add: the name is not looked up first)
AddReplacing(t) ==
  /\ thread[t].pc = "add"
  /\ reg' = thread[t].id
  /\ Goto(t, "scout", None)
  /\ UNCHANGED <<syncFrame, seen, pend, queue, tries, leaked, bounds>>

\* Add fails when the name is taken, which is only logged.
Add(t) ==
  /\ thread[t].pc = "add"
  /\ IF reg = None THEN reg' = thread[t].id /\ UNCHANGED leaked
                   ELSE UNCHANGED reg /\ Leak
  /\ Goto(t, "scout", None)
  /\ UNCHANGED <<syncFrame, seen, pend, queue, tries, bounds>>

\* ScoutFor looks the cluster up again, and starts its scout once.
ScoutFor(t) ==
  /\ thread[t].pc = "scout"
  /\ IF Unavailable
     THEN Return(t, FALSE) /\ UNCHANGED scout
     ELSE /\ scout' = [scout EXCEPT ![reg] = IF @ = "none" THEN "delay" ELSE @]
          /\ Return(t, TRUE)
  /\ UNCHANGED <<cr, peer, reach, up, closed, health, job, posts, seen, pend, reg, leaked,
                 bounds>>

-----------------------------------------------------------------------------
(* The scout, and the API its heartbeats come from.                        *)

ownFrame == <<peer, reach, up, seen, pend, queue, tries, thread, reg, leaked, created, flips>>
scoutFrame == <<ownFrame, closed>>

\* (mutant of ScoutApi: an unhealthy cluster is an error like any other)
ScoutApiRejectingAbnormal ==
  /\ up
  /\ ~Unavailable
  /\ posts[reg] < MaxPosts
  /\ posts' = [posts EXCEPT ![reg] = @ + 1]
  /\ UNCHANGED <<cr, scoutFrame, scout, health, job, faults>>

\* The heartbeat API: a goroutine per heartbeat, also for an abnormal cluster.
ScoutApi ==
  /\ up
  /\ reg # None
  /\ posts[reg] < MaxPosts
  /\ posts' = [posts EXCEPT ![reg] = @ + 1]
  /\ UNCHANGED <<cr, scoutFrame, scout, health, job, faults>>

\* InitialDelaySeconds are over.
CollectStarts(i) ==
  /\ scout[i] = "delay"
  /\ scout' = [scout EXCEPT ![i] = "on"]
  /\ UNCHANGED <<cr, scoutFrame, health, job, posts, faults>>

\* SetupCtxWithStop's goroutine sees StopCh closed and cancels the context, and
\* the collector's select comes to serve it.  Until then the select may serve
\* heartbeats and ticks; a status write under way may still happen afterwards.
Cancel(i) ==
  /\ i \in closed
  /\ closed' = closed \ {i}
  /\ scout' = [scout EXCEPT ![i] = "none"]
  /\ Forget(i)
  /\ UNCHANGED <<cr, ownFrame, job, faults>>

\* (mutant of HealthWarden: a closed Receiver yields heartbeats for ever)
HealthWardenOfClosed(i) ==
  /\ scout[i] = "on"
  /\ job[i].op = "none"
  /\ cr # None
  /\ posts' = [posts EXCEPT ![i] = @ - 1]
  /\ job' = [job EXCEPT ![i] = [op |-> "healthy", hb |-> "fresh"]]
  /\ UNCHANGED <<cr, scoutFrame, scout, health, faults>>

\* healthWarden up to its status write: a heartbeat is dropped when the
\* Cluster object cannot be read, as with a context that was cancelled.
HealthWarden(i) ==
  /\ scout[i] = "on"
  /\ job[i].op = "none"
  /\ posts[i] > 0
  /\ posts' = [posts EXCEPT ![i] = @ - 1]
  /\ \/ /\ cr # None
        /\ job' = [job EXCEPT ![i] = [op |-> "healthy", hb |-> "fresh"]]
        /\ UNCHANGED faults
     \/ (cr = None \/ i \in closed) /\ UNCHANGED <<job, faults>>
     \/ /\ faults < MaxFaults
        /\ faults' = faults + 1
        /\ UNCHANGED job
  /\ UNCHANGED <<cr, scoutFrame, scout, health>>

\* (mutant of IllWarden: the health changes only where the status does)
IllWardenFromNormalOnly(i) ==
  /\ scout[i] = "on"
  /\ job[i].op = "none"
  /\ cr # None
  /\ cr.state # "nil"
  /\ \/ /\ cr.hb = "fresh"
        /\ health' = [health EXCEPT ![i] = "normal"]
        /\ UNCHANGED job
     \/ /\ cr.hb = "stale" /\ health[i] = "normal"
        /\ job' = [job EXCEPT ![i] = [op |-> "ill", hb |-> cr.hb]]
        /\ UNCHANGED health
  /\ UNCHANGED <<cr, scoutFrame, scout, posts, faults>>

\* illWarden up to its status write.
IllWarden(i) ==
  /\ scout[i] = "on"
  /\ job[i].op = "none"
  /\ cr # None
  /\ cr.state # "nil"
  /\ \/ /\ cr.hb = "fresh"
        /\ health' = [health EXCEPT ![i] = "normal"]
        /\ UNCHANGED job
     \/ /\ cr.hb = "stale" /\ health[i] = "normal"
        /\ job' = [job EXCEPT ![i] = [op |-> "ill", hb |-> cr.hb]]
        /\ UNCHANGED health
     \/ /\ cr.hb # "fresh" /\ health[i] # "normal"
        /\ health' = [health EXCEPT ![i] = "abnormal"]
        /\ UNCHANGED job
  /\ UNCHANGED <<cr, scoutFrame, scout, posts, faults>>

\* illWarden dereferences the state (isDisconnected) and, for a cluster that
\* was healthy, the last heartbeat: neither need be there.
ScoutPanics(i) ==
  /\ scout[i] = "on"
  /\ job[i].op = "none"
  /\ cr # None
  /\ \/ cr.state = "nil"
     \/ cr.hb = "nil" /\ health[i] = "normal"
  /\ Reboot

\* The status write of healthWarden and of illWarden replaces the status.
\* The first one leaves the health alone when it fails, the second does not.
\* The write of a scout that was told to stop may fail at any time.
WriteStatus(i) ==
  LET ill == job[i].op = "ill"
      healthAs(h) == health' = [health EXCEPT ![i] = IF scout[i] = "none" THEN @ ELSE h]
  IN  /\ job[i].op # "none"
      /\ job' = [job EXCEPT ![i] = NoJob]
      /\ \/ /\ cr # None
            /\ cr' = [state |-> IF ill THEN "abnormal" ELSE "normal", hb |-> job[i].hb]
            /\ healthAs(IF ill THEN "abnormal" ELSE "normal")
            /\ UNCHANGED faults
         \/ /\ cr = None
            /\ healthAs(IF ill THEN "abnormal" ELSE health[i])
            /\ UNCHANGED <<cr, faults>>
         \/ /\ cr # None
            /\ IF i = reg THEN faults < MaxFaults /\ faults' = faults + 1
                          ELSE UNCHANGED faults
            /\ healthAs(IF ill THEN "abnormal" ELSE health[i])
            /\ UNCHANGED cr
      /\ UNCHANGED <<scoutFrame, scout, posts>>

-----------------------------------------------------------------------------
Environment ==
  \/ ClusterCreate \/ ClusterDelete \/ MemberFlips
  \/ PeerRead \/ PeerWrite \/ PeerHeartbeat \/ Expire

Sync(t) ==
  ReadCluster(t) \/ Del(t) \/ CheckExisting(t) \/ Build(t) \/ Add(t) \/ ScoutFor(t)

Collect(i) ==
  CollectStarts(i) \/ Cancel(i) \/ HealthWarden(i) \/ IllWarden(i) \/ ScoutPanics(i) \/ WriteStatus(i)

Next ==
  \/ Environment
  \/ Deliver
  \/ WorkerPop
  \/ \E t \in Threads : Sync(t)
  \/ ScoutApi
  \/ \E i \in Ids : Collect(i)

\* The goroutines run on, the warden reports while it is up, time passes, and
\* select serves a scout's ticker and its heartbeats alike.
Fairness ==
  /\ WF_vars(Deliver) /\ WF_vars(WorkerPop) /\ WF_vars(ScoutApi) /\ WF_vars(Expire)
  /\ \A t \in Threads : WF_vars(Sync(t))
  /\ WF_vars(\E i \in Ids : CollectStarts(i)) /\ WF_vars(\E i \in Ids : Cancel(i))
  /\ WF_vars(\E i \in Ids : WriteStatus(i))
  /\ SF_vars(\E i \in Ids : HealthWarden(i))
  /\ SF_vars(\E i \in Ids : IllWarden(i) \/ ScoutPanics(i))

Spec == Init /\ [][Next]_vars
FairSpec == Spec /\ Fairness

-----------------------------------------------------------------------------
(* Properties.                                                             *)

\* A registered cluster is watched: once no thread is on its way to ScoutFor,
\* its scout has been started, whichever of two concurrent reconciliations
\* registered it (sync.go:117 and the worker) and whatever its health.
RegisteredIsWatched ==
  (reg # None /\ scout[reg] = "none") => \E t \in Threads : thread[t].pc = "scout"

\* Only the registered cluster's scout collects, or one that was told to stop:
\* an internal cluster that lost the race to be added never gets a scout
\* (ScoutFor looks the scout up by name), and none that is replaced or removed
\* is left collecting with its StopCh open, to write statuses for ever.
OnlyRegisteredCollects ==
  \A i \in Ids : scout[i] # "none" => (i = reg) # (i \in closed)

\* A cluster whose warden reports becomes healthy again, however often it was
\* declared abnormal: its heartbeats are accepted while Get refuses it.
HealthRecovers ==
  <>[](up /\ reg # None /\ cr # None)
    => []<>(reg # None /\ health[reg] = "normal")

\* A cluster whose warden has stopped is refused, also when a status write or
\* a read of the Cluster object fails on the way.
LossDetected ==
  <>[](~up /\ reg # None /\ cr # None) => <>[](reg # None /\ health[reg] = "abnormal")

\* cluster_types.go:41, "ClusterNormal represent cluster is healthy": when the
\* scout of a healthy cluster finds its heartbeats missing, the object stops
\* saying normal, unless the warden is back or the object is gone.
NormalMeansHealthy ==
  (\E i \in Ids : job[i].op = "ill") ~> (up \/ cr = None \/ cr.state # "normal")

\* sync.go:121, "ignore cluster init error and keep retry background".
RetriedUntilRegistered ==
  <>[](reach /\ cr # None) => []<>(reg # None)

\* manager.go:120, "StopCh for closing channel when delete cluster, goroutine
\* of cache and scout will exit gracefully".
GoroutinesExit ==
  (reg = None /\ cr = None /\ ~pend /\ ~queue /\ \A t \in Threads : thread[t].pc = "idle")
    => leaked = 0
=============================================================================
