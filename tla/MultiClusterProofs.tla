-------------------------- MODULE MultiClusterProofs --------------------------
(***************************************************************************)
(* A registered cluster is watched, and the scout of any other that still  *)
(* collects was told to stop, for any number of retries, heartbeats,       *)
(* creations and failures.  The two threads that reconcile share only the  *)
(* map of clusters: one may register an internal cluster that the other    *)
(* one has just found missing, or remove it before its scout is looked up. *)
(***************************************************************************)
EXTENDS MultiCluster, TLAPS

\* What an internal cluster that is not registered, or not watched yet, is like:
\* its scout does not run and has found nothing out; a status write under way is
\* one of a scout that was stopped.
ScoutInv ==
  /\ OnlyRegisteredCollects
  /\ \A i \in closed : scout[i] # "none"
  /\ \A i \in Ids : scout[i] = "none" => health[i] = "processing"
  /\ \A i \in Ids : job[i].op # "none" /\ scout[i] = "none" => i # reg

\* A thread has an internal cluster only on its way from NewInternalCluster to Add;
\* nobody else has the same, and it has not written anything yet.
ThreadInv ==
  \A t \in Threads :
    /\ thread[t].pc = "add" <=> thread[t].id # None
    /\ thread[t].id # None =>
         /\ thread[t].id # reg /\ job[thread[t].id].op = "none"
         /\ scout[thread[t].id] = "none"
         /\ \A u \in Threads : thread[u].id = thread[t].id => u = t

IInv == TypeOK /\ ScoutInv /\ ThreadInv /\ RegisteredIsWatched

PCs == {"idle", "get", "del", "check", "build", "add", "scout"}
Thread == [pc : PCs, id : Ids \cup {None}]
Job == [op : {"none", "healthy", "ill"}, hb : Heartbeat]

\* Bounds, the object and what the rest of the world knows: no part of ScoutInv and
\* ThreadInv.
OuterTypes ==
  /\ cr \in Status \cup {None} /\ peer \in Heartbeat \cup {None}
  /\ reach \in BOOLEAN /\ up \in BOOLEAN /\ seen \in BOOLEAN /\ pend \in BOOLEAN /\ queue \in BOOLEAN
  /\ tries \in Nat /\ leaked \in 0 .. MaxLeaked
  /\ created \in Nat /\ flips \in Nat /\ faults \in Nat

InnerTypes ==
  /\ thread \in [Threads -> Thread]
  /\ reg \in Ids \cup {None}
  /\ scout \in [Ids -> {"none", "delay", "on"}]
  /\ closed \in SUBSET Ids
  /\ health \in [Ids -> {"processing", "normal", "abnormal"}]
  /\ job \in [Ids -> Job]
  /\ posts \in [Ids -> 0 .. MaxPosts]

\* The types of what the threads and scouts change, and of the rest.
LEMMA TypesSplit == TypeOK <=> OuterTypes /\ InnerTypes
  BY DEF TypeOK, OuterTypes, InnerTypes, PCs, Thread, Job

Inner == <<thread, reg, scout, closed, health>>

\* Steps of the environment and of the informer: what the threads and the scouts have
\* is left alone, and the writes that are under way stay the same ones.
LEMMA Elsewhere ==
  ASSUME IInv, OuterTypes', UNCHANGED Inner, posts' \in [Ids -> 0 .. MaxPosts],
         job' \in [Ids -> Job], \A i \in Ids : job'[i].op = job[i].op
  PROVE  IInv'
<1>1. TypeOK'
  BY TypesSplit DEF IInv, InnerTypes, TypeOK, OuterTypes, Inner, PCs, Thread, Job
<1>2. ScoutInv'
  BY DEF IInv, ScoutInv, OnlyRegisteredCollects, Inner
<1>3. ThreadInv'
  BY TypesSplit DEF IInv, InnerTypes, Thread, ThreadInv, Inner
<1>4. RegisteredIsWatched'
  BY DEF IInv, RegisteredIsWatched, Inner
<1>. QED
  BY <1>1, <1>2, <1>3, <1>4 DEF IInv

\* What happens around the manager leaves its registry alone.
LEMMA EnvironmentKeeps ==
  ASSUME IInv, Environment
  PROVE  IInv'
<1>1. /\ UNCHANGED Inner /\ posts' = posts /\ posts \in [Ids -> 0 .. MaxPosts]
      /\ job \in [Ids -> Job]
  BY TypesSplit DEF IInv, InnerTypes, Inner, Environment, ClusterCreate, ClusterDelete, MemberFlips,
     PeerRead, PeerWrite, PeerHeartbeat, Expire, envFrame
<1>2. job' \in [Ids -> Job] /\ \A i \in Ids : job'[i].op = job[i].op
  <2>1. CASE job' = job
    BY <1>1, <2>1
  <2>2. CASE job' = [i \in Ids |-> [job[i] EXCEPT !.hb = Aged(@)]]
    BY <1>1, <2>2 DEF Job, Aged, Heartbeat
  <2>. QED
    BY <2>1, <2>2 DEF Environment, ClusterCreate, ClusterDelete, MemberFlips,
       PeerRead, PeerWrite, PeerHeartbeat, Expire, envFrame
<1>3. OuterTypes'
  <2>. USE TypesSplit DEF IInv
  <2>1. CASE ClusterCreate
    BY <2>1 DEF ClusterCreate, OuterTypes, envFrame, Status, State, Heartbeat
  <2>2. CASE ClusterDelete
    BY <2>2 DEF ClusterDelete, OuterTypes, envFrame, bounds
  <2>3. CASE MemberFlips
    <3>1. reach' \in BOOLEAN /\ up' \in BOOLEAN
      BY <2>3 DEF MemberFlips, OuterTypes
    <3>2. flips' \in Nat
      BY <2>3 DEF MemberFlips, OuterTypes
    <3>. QED
      BY <2>3, <3>1, <3>2 DEF MemberFlips, OuterTypes, envFrame
  <2>4. CASE PeerRead
    BY <2>4 DEF PeerRead, OuterTypes, envFrame, bounds, Status
  <2>5. CASE PeerWrite
    BY <2>5 DEF PeerWrite, OuterTypes, envFrame, bounds, Status, State
  <2>6. CASE PeerHeartbeat
    BY <2>6 DEF PeerHeartbeat, OuterTypes, envFrame, bounds, Status, State, Heartbeat
  <2>7. CASE Expire
    BY <2>7, NoneAssumption DEF Expire, OuterTypes, envFrame, bounds, Status, Heartbeat, Aged
  <2>. QED
    BY <2>1, <2>2, <2>3, <2>4, <2>5, <2>6, <2>7 DEF Environment
<1>. QED
  BY <1>1, <1>2, <1>3, Elsewhere

\* The informer tells of the object.
LEMMA DeliverKeeps ==
  ASSUME IInv, Deliver
  PROVE  IInv'
<1>. USE TypesSplit DEF IInv
<1>1. /\ UNCHANGED Inner /\ job' = job /\ posts' = posts
      /\ job \in [Ids -> Job] /\ posts \in [Ids -> 0 .. MaxPosts]
  BY DEF InnerTypes, Deliver, Inner, syncFrame
<1>2. seen' \in BOOLEAN /\ pend' \in BOOLEAN /\ queue' \in BOOLEAN
  BY DEF Deliver
<1>3. tries' \in Nat
  BY DEF Deliver, OuterTypes
<1>4. OuterTypes'
  BY <1>2, <1>3 DEF Deliver, OuterTypes, syncFrame, bounds
<1>. QED
  BY <1>1, <1>4, Elsewhere

-----------------------------------------------------------------------------
(* The threads.                                                              *)

\* A thread goes on, and does not hold an internal cluster afterwards.  It leaves
\* ScoutFor only when there is no cluster to watch, or when it is watched.
LEMMA ThreadGoes ==
  ASSUME IInv, OuterTypes', NEW t \in Threads, NEW pc \in PCs \ {"add"}, Goto(t, pc, None),
         UNCHANGED <<reg, scout, closed, health, job, posts>>,
         pc = "scout" \/ thread[t].pc # "scout" \/ reg = None \/ scout[reg] # "none"
  PROVE  IInv'
<1>. USE TypesSplit DEF IInv
<1>1. /\ thread' \in [Threads -> Thread]
      /\ thread'[t].pc = pc /\ thread'[t].id = None
      /\ \A u \in Threads : u # t => thread'[u] = thread[u]
  BY DEF Goto, InnerTypes, Thread
<1>2. TypeOK'
  <2>1. InnerTypes'
    BY <1>1 DEF InnerTypes
  <2>. QED
    BY <2>1 DEF TypeOK, OuterTypes, InnerTypes, PCs, Thread, Job
<1>3. ScoutInv'
  BY DEF ScoutInv, OnlyRegisteredCollects
<1>4. ThreadInv'
  BY <1>1 DEF ThreadInv
<1>5. RegisteredIsWatched'
  BY <1>1 DEF RegisteredIsWatched
<1>. QED
  BY <1>2, <1>3, <1>4, <1>5

\* What Return does to the queue.
LEMMA ReturnTypes ==
  ASSUME IInv, NEW t, NEW ok, Return(t, ok)
  PROVE  queue' \in BOOLEAN /\ tries' \in Nat
<1>1. queue' \in BOOLEAN
  BY TypesSplit DEF Return
<1>2. tries' \in Nat
  BY TypesSplit DEF Return, IInv, OuterTypes
<1>. QED
  BY <1>1, <1>2

\* A leak is counted as long as the count goes.
LEMMA LeakTypes ==
  ASSUME IInv, leaked' = leaked \/ Leak
  PROVE  leaked' \in 0 .. MaxLeaked
  BY TypesSplit, BoundAssumption DEF Leak, IInv, OuterTypes

\* A worker takes a key.
LEMMA PopKeeps ==
  ASSUME IInv, WorkerPop
  PROVE  IInv'
<1>1. OuterTypes'
  BY TypesSplit DEF IInv, WorkerPop, OuterTypes, syncFrame, bounds
<1>2. thread["worker"].pc # "scout" /\ "worker" \in Threads
  BY DEF WorkerPop, Threads
<1>. QED
  BY <1>1, <1>2, ThreadGoes DEF WorkerPop, syncFrame, PCs

\* A worker looks the cluster up.
LEMMA ReadKeeps ==
  ASSUME IInv, NEW t \in Threads, ReadCluster(t) \/ CheckExisting(t)
  PROVE  IInv'
<1>1. OuterTypes'
  BY TypesSplit DEF IInv, ReadCluster, CheckExisting, OuterTypes, syncFrame, bounds
<1>2. PICK pc \in {"check", "del", "build", "scout"} : Goto(t, pc, None)
  BY DEF ReadCluster, CheckExisting
<1>3. thread[t].pc # "scout"
  BY DEF ReadCluster, CheckExisting
<1>4. UNCHANGED <<reg, scout, closed, health, job, posts>>
  BY DEF ReadCluster, CheckExisting, syncFrame
<1>. QED
  BY <1>1, <1>2, <1>3, <1>4, ThreadGoes DEF PCs

\* Del takes the registered cluster out, and tells its scout to stop.
LEMMA DelKeeps ==
  ASSUME IInv, NEW t \in Threads, Del(t)
  PROVE  IInv'
<1>. USE TypesSplit DEF IInv
<1>1. /\ reg' = None /\ job' = job
      /\ scout' = scout /\ Goto(t, "idle", None)
      /\ closed' = IF reg # None /\ scout[reg] # "none" THEN closed \cup {reg} ELSE closed
      /\ \/ UNCHANGED <<health, posts>>
         \/ reg \in Ids /\ scout[reg] = "none" /\ Forget(reg)
  BY DEF Del, Return, InnerTypes
<1>2. OuterTypes'
  <2>1. queue' \in BOOLEAN /\ tries' \in Nat
    BY ReturnTypes DEF Del
  <2>. QED
    BY <2>1 DEF Del, OuterTypes, bounds
<1>3. /\ thread' \in [Threads -> Thread]
      /\ thread'[t].pc = "idle" /\ thread'[t].id = None
      /\ \A u \in Threads : u # t => thread'[u] = thread[u]
  BY <1>1 DEF Goto, InnerTypes, Thread, PCs
<1>4. TypeOK'
  <2>1. InnerTypes'
    <3>1. posts' \in [Ids -> 0 .. MaxPosts] /\ health' \in [Ids -> {"processing", "normal", "abnormal"}]
      BY <1>1, BoundAssumption DEF InnerTypes, Forget
    <3>2. closed' \in SUBSET Ids
      BY <1>1 DEF InnerTypes
    <3>. QED
      BY <1>1, <1>3, <3>1, <3>2 DEF InnerTypes
  <2>. QED
    BY <1>2, <2>1 DEF TypeOK, OuterTypes, InnerTypes, PCs, Thread, Job
<1>5. ScoutInv'
  <2>1. \A i \in Ids : health'[i] = health[i] \/ health'[i] = "processing"
    BY <1>1 DEF Forget, InnerTypes
  <2>2. \A i \in Ids : scout[i] # "none" => (i = reg) # (i \in closed)
    BY DEF ScoutInv, OnlyRegisteredCollects
  <2>3. OnlyRegisteredCollects'
    BY <1>1, <2>2, NoneAssumption DEF OnlyRegisteredCollects, InnerTypes
  <2>4. \A i \in closed' : scout'[i] # "none"
    BY <1>1 DEF ScoutInv
  <2>. QED
    BY <1>1, <2>1, <2>3, <2>4, NoneAssumption DEF ScoutInv
<1>6. ThreadInv'
  BY <1>1, <1>3, NoneAssumption DEF ThreadInv, InnerTypes, Thread
<1>7. RegisteredIsWatched'
  BY <1>1 DEF RegisteredIsWatched
<1>. QED
  BY <1>4, <1>5, <1>6, <1>7

\* NewInternalCluster, which may fail.
LEMMA BuildKeeps ==
  ASSUME IInv, NEW t \in Threads, Build(t)
  PROVE  IInv'
<1>. USE TypesSplit DEF IInv
<1>1. /\ thread[t].pc = "build" /\ UNCHANGED <<reg, scout, closed, health, job, posts>>
      /\ UNCHANGED <<cr, peer, reach, up, seen, pend, created, flips>>
  BY DEF Build, syncFrame
<1>2. /\ faults' \in Nat /\ leaked' \in 0 .. MaxLeaked
      /\ queue' \in BOOLEAN /\ tries' \in Nat
  <2>1. faults' = faults \/ faults' = faults + 1
    BY DEF Build
  <2>2. leaked' = leaked \/ Leak
    BY DEF Build
  <2>3. (\E ok : Return(t, ok)) \/ UNCHANGED <<queue, tries>>
    BY DEF Build
  <2>. QED
    BY <2>1, <2>2, <2>3, LeakTypes, ReturnTypes DEF OuterTypes
<1>3. OuterTypes'
  BY <1>1, <1>2 DEF OuterTypes
<1>4. CASE \E ok : Return(t, ok)
  <2>1. Goto(t, "idle", None)
    BY <1>4 DEF Return
  <2>. QED
    BY <1>1, <1>3, <2>1, ThreadGoes DEF PCs
<1>5. CASE (\E i \in Ids : Free(i)) /\ Goto(t, "add", CHOOSE i \in Ids : Free(i))
  <2>1. PICK n \in Ids : Free(n) /\ Goto(t, "add", n)
    BY <1>5
  <2>2. /\ thread' \in [Threads -> Thread]
        /\ thread'[t].pc = "add" /\ thread'[t].id = n
        /\ \A u \in Threads : u # t => thread'[u] = thread[u]
    BY <2>1 DEF Goto, InnerTypes, Thread, PCs
  <2>3. /\ n # reg /\ n # None /\ job[n].op = "none" /\ scout[n] = "none" /\ \A u \in Threads : thread[u].id # n
    BY <2>1, NoneAssumption DEF Free
  <2>4. TypeOK'
    <3>1. InnerTypes'
      BY <1>1, <2>2 DEF InnerTypes
    <3>. QED
      BY <1>3, <3>1 DEF TypeOK, OuterTypes, InnerTypes, PCs, Thread, Job
  <2>5. ThreadInv'
    BY <1>1, <2>2, <2>3 DEF ThreadInv
  <2>6. RegisteredIsWatched'
    BY <1>1, <2>2 DEF RegisteredIsWatched
  <2>7. ScoutInv'
    BY <1>1 DEF ScoutInv, OnlyRegisteredCollects
  <2>. QED
    BY <2>4, <2>5, <2>6, <2>7
<1>. QED
  BY <1>4, <1>5 DEF Build

\* Add, for a name that is free or taken.
LEMMA AddKeeps ==
  ASSUME IInv, NEW t \in Threads, Add(t)
  PROVE  IInv'
<1>. USE TypesSplit DEF IInv
<1>1. /\ thread[t].pc = "add" /\ Goto(t, "scout", None)
      /\ UNCHANGED <<scout, closed, health, job, posts>>
      /\ UNCHANGED <<cr, peer, reach, up, seen, pend, queue, tries, created, flips, faults>>
      /\ leaked' = leaked \/ Leak
  BY DEF Add, syncFrame, bounds
<1>2. OuterTypes'
  <2>1. leaked' \in 0 .. MaxLeaked
    BY <1>1, LeakTypes
  <2>. QED
    BY <1>1, <2>1 DEF OuterTypes
<1>3. CASE reg' = reg
  BY <1>1, <1>2, <1>3, ThreadGoes DEF PCs
<1>4. CASE reg = None /\ reg' = thread[t].id
  <2>. DEFINE n == thread[t].id
  <2>1. /\ n \in Ids /\ job[n].op = "none" /\ n # None /\ scout[n] = "none"
        /\ \A u \in Threads : u # t => thread[u].id # n
    BY <1>1 DEF ThreadInv, InnerTypes, Thread
  <2>2. /\ thread' \in [Threads -> Thread]
        /\ thread'[t].pc = "scout" /\ thread'[t].id = None
        /\ \A u \in Threads : u # t => thread'[u] = thread[u]
    BY <1>1 DEF Goto, InnerTypes, Thread, PCs
  <2>3. TypeOK'
    <3>1. InnerTypes'
      BY <1>1, <1>4, <2>1, <2>2 DEF InnerTypes
    <3>. QED
      BY <1>2, <3>1 DEF TypeOK, OuterTypes, InnerTypes, PCs, Thread, Job
  <2>. HIDE DEF n
  <2>4. reg' = n
    BY <1>4 DEF n
  <2>5. ScoutInv'
    BY <1>1, <1>4, <2>1, <2>4, NoneAssumption DEF ScoutInv, OnlyRegisteredCollects
  <2>6. ThreadInv'
    BY <1>1, <2>1, <2>2, <2>4 DEF ThreadInv
  <2>7. RegisteredIsWatched'
    BY <2>2 DEF RegisteredIsWatched
  <2>. QED
    BY <2>3, <2>5, <2>6, <2>7
<1>. QED
  BY <1>3, <1>4 DEF Add

\* ScoutFor gives up only on a cluster whose scout has already found it ill.
LEMMA ScoutForKeeps ==
  ASSUME IInv, NEW t \in Threads, ScoutFor(t)
  PROVE  IInv'
<1>. USE TypesSplit DEF IInv
<1>1. /\ thread[t].pc = "scout" /\ Goto(t, "idle", None)
      /\ UNCHANGED <<reg, closed, health, job, posts, leaked>>
      /\ UNCHANGED <<cr, peer, reach, up, seen, pend, created, flips, faults>>
  BY DEF ScoutFor, Return, bounds
<1>2. OuterTypes'
  <2>1. queue' \in BOOLEAN /\ tries' \in Nat
    BY ReturnTypes DEF ScoutFor
  <2>. QED
    BY <1>1, <2>1 DEF OuterTypes
<1>3. CASE Unavailable /\ scout' = scout
  <2>1. reg = None \/ scout[reg] # "none"
    BY <1>3 DEF Unavailable, ScoutInv, InnerTypes
  <2>. QED
    BY <1>1, <1>2, <1>3, <2>1, ThreadGoes DEF PCs
<1>4. CASE ~Unavailable /\ scout' = [scout EXCEPT ![reg] = IF @ = "none" THEN "delay" ELSE @]
  <2>1. reg \in Ids
    BY <1>4 DEF Unavailable, InnerTypes
  <2>2. /\ scout' \in [Ids -> {"none", "delay", "on"}]
        /\ scout'[reg] # "none" /\ \A i \in Ids : i # reg => scout'[i] = scout[i]
    BY <1>4, <2>1 DEF InnerTypes
  <2>3. /\ thread' \in [Threads -> Thread]
        /\ thread'[t].pc = "idle" /\ thread'[t].id = None
        /\ \A u \in Threads : u # t => thread'[u] = thread[u]
    BY <1>1 DEF Goto, InnerTypes, Thread, PCs
  <2>4. TypeOK'
    <3>1. InnerTypes'
      BY <1>1, <2>2, <2>3 DEF InnerTypes
    <3>. QED
      BY <1>2, <3>1 DEF TypeOK, OuterTypes, InnerTypes, PCs, Thread, Job
  <2>5. ScoutInv'
    <3>1. reg \notin closed
      BY <2>1 DEF ScoutInv, OnlyRegisteredCollects
    <3>2. OnlyRegisteredCollects'
      BY <1>1, <2>2, <3>1 DEF ScoutInv, OnlyRegisteredCollects
    <3>3. \A i \in closed' : scout'[i] # "none"
      BY <1>1, <2>2 DEF ScoutInv, InnerTypes
    <3>4. /\ \A i \in Ids : scout'[i] = "none" => health'[i] = "processing"
          /\ \A i \in Ids : job'[i].op # "none" /\ scout'[i] = "none" => i # reg'
      BY <1>1, <2>2 DEF ScoutInv
    <3>. QED
      BY <3>2, <3>3, <3>4 DEF ScoutInv
  <2>6. ThreadInv'
    <3>1. \A u \in Threads : thread[u].id # None =>
             thread[u].id \in Ids /\ thread[u].id # reg /\ scout'[thread[u].id] = "none"
      BY <2>2 DEF ThreadInv, InnerTypes, Thread
    <3>. QED
      BY <1>1, <2>3, <3>1 DEF ThreadInv
  <2>7. RegisteredIsWatched'
    BY <1>1, <2>2 DEF RegisteredIsWatched
  <2>. QED
    BY <2>4, <2>5, <2>6, <2>7
<1>. QED
  BY <1>3, <1>4 DEF ScoutFor

-----------------------------------------------------------------------------
(* The scouts.                                                               *)

\* A step of the scout of i, or of the API: the registered cluster stays, a scout
\* that runs goes on, and one that does not has found nothing and starts no write.
LEMMA ScoutGoes ==
  ASSUME IInv, OuterTypes', UNCHANGED <<thread, reg, closed>>,
         scout' \in [Ids -> {"none", "delay", "on"}],
         health' \in [Ids -> {"processing", "normal", "abnormal"}],
         job' \in [Ids -> Job], posts' \in [Ids -> 0 .. MaxPosts],
         \A i \in Ids : scout[i] = "none" <=> scout'[i] = "none",
         \A i \in Ids : scout[i] = "none" => health'[i] = health[i]
                                             /\ (job'[i].op = job[i].op \/ job'[i].op = "none")
  PROVE  IInv'
<1>. USE TypesSplit DEF IInv
<1>1. TypeOK'
  <2>1. InnerTypes'
    BY DEF InnerTypes
  <2>. QED
    BY <2>1 DEF TypeOK, OuterTypes, InnerTypes, PCs, Thread, Job
<1>3. ScoutInv'
  <2>1. OnlyRegisteredCollects'
    BY DEF ScoutInv, OnlyRegisteredCollects
  <2>2. \A i \in closed' : scout'[i] # "none"
    BY DEF ScoutInv, InnerTypes
  <2>. QED
    BY <2>1, <2>2 DEF ScoutInv
<1>4. ThreadInv'
  <2>. SUFFICES ASSUME NEW t \in Threads, thread[t].id # None
                PROVE  /\ job'[thread[t].id].op = "none"
                       /\ scout'[thread[t].id] = "none"
    BY DEF ThreadInv
  <2>1. /\ thread[t].id \in Ids /\ job[thread[t].id].op = "none"
        /\ scout[thread[t].id] = "none"
    BY DEF ThreadInv, InnerTypes, Thread
  <2>. QED
    BY <2>1
<1>5. RegisteredIsWatched'
  BY DEF RegisteredIsWatched, InnerTypes
<1>. QED
  BY <1>1, <1>3, <1>4, <1>5

\* A heartbeat arrives, or the collector starts.
LEMMA ScoutStarts ==
  ASSUME IInv, ScoutApi \/ \E i \in Ids : CollectStarts(i)
  PROVE  IInv'
<1>. USE TypesSplit DEF IInv
<1>1. UNCHANGED <<thread, reg, closed, health, job>> /\ OuterTypes'
  BY DEF ScoutApi, CollectStarts, scoutFrame, ownFrame, OuterTypes
<1>2. scout' \in [Ids -> {"none", "delay", "on"}] /\ posts' \in [Ids -> 0 .. MaxPosts]
  BY BoundAssumption DEF ScoutApi, CollectStarts, InnerTypes
<1>3. \A i \in Ids : scout[i] = "none" <=> scout'[i] = "none"
  BY DEF ScoutApi, CollectStarts, InnerTypes
<1>4. health \in [Ids -> {"processing", "normal", "abnormal"}] /\ job \in [Ids -> Job]
  BY DEF InnerTypes
<1>. QED
  BY <1>1, <1>2, <1>3, <1>4, ScoutGoes

\* A heartbeat is taken, or found missing: by a scout that runs.
LEMMA WardenKeeps ==
  ASSUME IInv, NEW i \in Ids, HealthWarden(i) \/ IllWarden(i)
  PROVE  IInv'
<1>. USE TypesSplit DEF IInv
<1>1. UNCHANGED <<thread, reg, closed, scout>> /\ scout[i] = "on"
  BY DEF HealthWarden, IllWarden, scoutFrame, ownFrame
<1>2. OuterTypes'
  <2>1. faults' \in Nat
    BY DEF HealthWarden, IllWarden, OuterTypes
  <2>. QED
    BY <2>1 DEF HealthWarden, IllWarden, scoutFrame, ownFrame, OuterTypes
<1>3. \/ job' = job
      \/ \E op \in {"healthy", "ill"}, hb \in Heartbeat :
           job' = [job EXCEPT ![i] = [op |-> op, hb |-> hb]]
  BY DEF HealthWarden, IllWarden, Heartbeat
<1>4. job' \in [Ids -> Job] /\ \A j \in Ids : j # i => job'[j] = job[j]
  <2>1. job \in [Ids -> Job]
    BY DEF InnerTypes
  <2>2. ASSUME NEW op \in {"healthy", "ill"}, NEW hb \in Heartbeat
        PROVE  [op |-> op, hb |-> hb] \in Job
    BY DEF Job
  <2>. QED
    BY <1>3, <2>1, <2>2
<1>5. /\ health' \in [Ids -> {"processing", "normal", "abnormal"}]
      /\ \A j \in Ids : j # i => health'[j] = health[j]
  BY DEF HealthWarden, IllWarden, InnerTypes
<1>6. posts' \in [Ids -> 0 .. MaxPosts] /\ scout \in [Ids -> {"none", "delay", "on"}]
  BY BoundAssumption DEF HealthWarden, IllWarden, InnerTypes
<1>. QED
  BY <1>1, <1>2, <1>4, <1>5, <1>6, ScoutGoes

\* A status is written: by the scout of the registered cluster, or by one that was
\* told to stop, whose health nobody reads any more.
LEMMA WriteKeeps ==
  ASSUME IInv, NEW i \in Ids, WriteStatus(i)
  PROVE  IInv'
<1>. USE TypesSplit DEF IInv
<1>1. /\ UNCHANGED <<thread, reg, closed, scout, posts>> /\ job' = [job EXCEPT ![i] = NoJob]
      /\ UNCHANGED <<peer, reach, up, seen, pend, queue, tries, leaked, created, flips>>
      /\ job[i].op # "none"
  BY DEF WriteStatus, scoutFrame, ownFrame
<1>2. job' \in [Ids -> Job] /\ \A j \in Ids : job'[j].op = job[j].op \/ job'[j].op = "none"
  BY <1>1 DEF InnerTypes, Job, NoJob, Heartbeat
<1>3. PICK h \in {"processing", "normal", "abnormal"} :
        health' = [health EXCEPT ![i] = IF scout[i] = "none" THEN @ ELSE h]
  BY DEF WriteStatus, InnerTypes
<1>4. /\ health' \in [Ids -> {"processing", "normal", "abnormal"}]
      /\ \A j \in Ids : scout[j] = "none" => health'[j] = health[j]
  BY <1>1, <1>3 DEF InnerTypes, ScoutInv
<1>5. cr' \in Status \cup {None}
  <2>1. job[i].hb \in Heartbeat
    BY DEF InnerTypes, Job
  <2>2. cr' = cr \/ cr' \in [state : {"abnormal", "normal"}, hb : {job[i].hb}]
    BY DEF WriteStatus
  <2>. QED
    BY <2>1, <2>2 DEF OuterTypes, Status, State
<1>6. faults' \in Nat
  BY DEF WriteStatus, OuterTypes
<1>7. OuterTypes'
  BY <1>1, <1>5, <1>6 DEF OuterTypes
<1>8. posts \in [Ids -> 0 .. MaxPosts] /\ scout \in [Ids -> {"none", "delay", "on"}]
  BY DEF InnerTypes
<1>. QED
  BY <1>1, <1>2, <1>4, <1>7, <1>8, ScoutGoes

\* A collector that was told to stop ends.
LEMMA CancelKeeps ==
  ASSUME IInv, NEW i \in Ids, Cancel(i)
  PROVE  IInv'
<1>. USE TypesSplit DEF IInv
<1>1. /\ i \in closed /\ closed' = closed \ {i} /\ scout' = [scout EXCEPT ![i] = "none"]
      /\ UNCHANGED <<thread, reg, job>> /\ Forget(i) /\ UNCHANGED <<ownFrame, cr, faults>>
  BY DEF Cancel, ownFrame
<1>2. OuterTypes'
  BY <1>1 DEF OuterTypes, ownFrame
<1>3. InnerTypes'
  BY <1>1, BoundAssumption DEF InnerTypes, Forget
<1>4. TypeOK'
  BY <1>2, <1>3 DEF TypeOK, OuterTypes, InnerTypes, PCs, Thread, Job
<1>5. i # reg
  BY <1>1 DEF ScoutInv, OnlyRegisteredCollects
<1>6. ScoutInv'
  <2>1. OnlyRegisteredCollects'
    BY <1>1 DEF ScoutInv, OnlyRegisteredCollects, InnerTypes
  <2>2. \A j \in closed' : scout'[j] # "none"
    BY <1>1 DEF ScoutInv, InnerTypes
  <2>3. \A j \in Ids : scout'[j] = "none" => health'[j] = "processing"
    BY <1>1 DEF ScoutInv, InnerTypes, Forget
  <2>. QED
    BY <1>1, <1>5, <2>1, <2>2, <2>3 DEF ScoutInv, InnerTypes
<1>7. ThreadInv'
  BY <1>1 DEF ThreadInv, InnerTypes, Thread
<1>8. RegisteredIsWatched'
  BY <1>1, <1>5 DEF RegisteredIsWatched, InnerTypes
<1>. QED
  BY <1>4, <1>6, <1>7, <1>8

\* A process that starts has registered nothing.
LEMMA FreshStart ==
  ASSUME NEW c \in Status \cup {None}
  PROVE  /\ Booted(c).queue \in BOOLEAN /\ Booted(c).tries \in Nat
         /\ Booted(c).thread \in [Threads -> Thread]
         /\ \A t \in Threads : Booted(c).thread[t].id = None /\ Booted(c).thread[t].pc # "add"
<1>1. Booted(c).queue \in BOOLEAN
  BY DEF Booted
<1>2. Booted(c).tries \in Nat
  BY DEF Booted
<1>. QED
  BY <1>1, <1>2 DEF Booted, AtRest, Thread, PCs

\* A panic restarts the process: nothing is registered and no scout is left.
LEMMA RebootKeeps ==
  ASSUME IInv, NEW i \in Ids, ScoutPanics(i)
  PROVE  IInv'
<1>. USE TypesSplit DEF IInv
<1>1. Reboot /\ cr \in Status \cup {None}
  BY DEF ScoutPanics, OuterTypes
<1>2. /\ queue' \in BOOLEAN /\ tries' \in Nat /\ thread' \in [Threads -> Thread]
      /\ \A t \in Threads : thread'[t].id = None /\ thread'[t].pc # "add"
  BY <1>1, FreshStart DEF Reboot
<1>3. OuterTypes'
  <2>1. seen' \in BOOLEAN /\ pend' \in BOOLEAN
    BY <1>1 DEF Reboot
  <2>2. leaked' \in 0 .. MaxLeaked
    BY <1>1, BoundAssumption DEF Reboot
  <2>. QED
    BY <1>1, <1>2, <2>1, <2>2 DEF Reboot, OuterTypes, bounds
<1>4. TypeOK'
  <2>1. InnerTypes'
    BY <1>1, <1>2, BoundAssumption DEF Reboot, InnerTypes, Job, NoJob, Heartbeat
  <2>. QED
    BY <1>3, <2>1 DEF TypeOK, OuterTypes, InnerTypes, PCs, Thread, Job
<1>5. ScoutInv'
  BY <1>1 DEF Reboot, ScoutInv, OnlyRegisteredCollects, NoJob
<1>6. ThreadInv'
  BY <1>2 DEF ThreadInv
<1>7. RegisteredIsWatched'
  BY <1>1 DEF Reboot, RegisteredIsWatched
<1>. QED
  BY <1>4, <1>5, <1>6, <1>7

-----------------------------------------------------------------------------
(* The theorems.                                                             *)

\* The first state is a process that has just started.
LEMMA InitHolds == Init => IInv
<1>. SUFFICES ASSUME Init
              PROVE  IInv
  OBVIOUS
<1>1. cr \in Status \cup {None}
  BY DEF Init, Status, State, Heartbeat
<1>2. /\ queue \in BOOLEAN /\ tries \in Nat /\ thread \in [Threads -> Thread]
      /\ \A t \in Threads : thread[t].id = None /\ thread[t].pc # "add"
  BY <1>1, FreshStart DEF Init
<1>3. OuterTypes
  <2>1. seen \in BOOLEAN /\ pend \in BOOLEAN /\ reach \in BOOLEAN /\ up \in BOOLEAN
    BY DEF Init
  <2>2. leaked \in 0 .. MaxLeaked
    BY BoundAssumption DEF Init
  <2>. QED
    BY <1>1, <1>2, <2>1, <2>2 DEF Init, OuterTypes
<1>4. InnerTypes
  BY <1>2, BoundAssumption DEF Init, InnerTypes, Job, NoJob, Heartbeat
<1>5. TypeOK
  BY <1>3, <1>4, TypesSplit
<1>6. ScoutInv
  BY DEF Init, ScoutInv, OnlyRegisteredCollects, NoJob
<1>7. ThreadInv
  BY <1>2 DEF ThreadInv
<1>8. RegisteredIsWatched
  BY DEF Init, RegisteredIsWatched
<1>. QED
  BY <1>5, <1>6, <1>7, <1>8 DEF IInv

\* Every step keeps the invariant.
LEMMA StepKeeps ==
  ASSUME IInv, [Next]_vars
  PROVE  IInv'
<1>1. CASE Environment
  BY <1>1, EnvironmentKeeps
<1>2. CASE Deliver
  BY <1>2, DeliverKeeps
<1>3. CASE WorkerPop
  BY <1>3, PopKeeps
<1>4. ASSUME NEW t \in Threads, Sync(t)
      PROVE  IInv'
  BY <1>4, ReadKeeps, DelKeeps, BuildKeeps, AddKeeps, ScoutForKeeps DEF Sync
<1>5. CASE ScoutApi
  BY <1>5, ScoutStarts
<1>6. ASSUME NEW i \in Ids, Collect(i)
      PROVE  IInv'
  BY <1>6, ScoutStarts, CancelKeeps, WardenKeeps, WriteKeeps, RebootKeeps DEF Collect
<1>7. CASE UNCHANGED vars
  <2>1. UNCHANGED Inner /\ job' = job /\ posts' = posts /\ OuterTypes'
    BY <1>7, TypesSplit DEF vars, memory, bounds, Inner, IInv, OuterTypes
  <2>2. job \in [Ids -> Job] /\ posts \in [Ids -> 0 .. MaxPosts]
    BY TypesSplit DEF IInv, InnerTypes
  <2>. QED
    BY <2>1, <2>2, Elsewhere
<1>. QED
  BY <1>1, <1>2, <1>3, <1>4, <1>5, <1>6, <1>7 DEF Next

\* The inductive invariant of the manager, its workers and the scouts holds throughout.
THEOREM Invariance == Spec => []IInv
<1>1. Init => IInv
  BY InitHolds
<1>2. IInv /\ [Next]_vars => IInv'
  BY StepKeeps
<1>. QED
  BY <1>1, <1>2, PTL DEF Spec

\* The types of the multi-cluster manager, its sync manager and the scouts.
THEOREM ManagerTypes == Spec => []TypeOK
<1>1. IInv => TypeOK
  BY DEF IInv
<1>. QED
  BY <1>1, Invariance, PTL

\* A registered cluster is watched once no thread is on its way to ScoutFor
\* (sync.go and scout.go), for any number of retries, creations and failures.
THEOREM NoClusterUnwatched == Spec => []RegisteredIsWatched
<1>1. IInv => RegisteredIsWatched
  BY DEF IInv
<1>. QED
  BY <1>1, Invariance, PTL

\* No scout collects but the one of the registered cluster and those that were told
\* to stop, whichever thread registered, replaced or removed their internal clusters
\* (manager.go, Add, Del and ScoutFor).
THEOREM OthersAreStopped == Spec => []OnlyRegisteredCollects
<1>1. IInv => OnlyRegisteredCollects
  BY DEF IInv, ScoutInv
<1>. QED
  BY <1>1, Invariance, PTL
=============================================================================
