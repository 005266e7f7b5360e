---------------------------- MODULE WardenProofs ----------------------------
(***************************************************************************)
(* The warden: that it registers only when it is ready, that the releases  *)
(* of a cluster follow its configurations, that a namespace has its quota, *)
(* and that tenants and projects have their namespaces and leave none      *)
(* behind.  The start, the releases and the tenants share no state.        *)
(***************************************************************************)
EXTENDS Tenancy, Hotplug, WardenStart, FiniteSetTheorems, TLAPS

-----------------------------------------------------------------------------
(* The start.  waitForReady only counts answers; that the count stands for   *)
(* the components is the invariant.                                          *)

\* While the reporter waits, every component was either found ready or has a check
\* that still runs, never both, and the answers that are expected are the checks that
\* run.  A process that is down has found nothing.
WaitInv ==
  /\ asking \subseteq Parts /\ answered \subseteq Parts
  /\ step \in {"down", "wait", "register", "report"}
  /\ step = "wait" => /\ answered = Parts \ asking
                      /\ counts = Cardinality(asking) /\ asking # {}
  /\ step = "down" => answered = {}

StartInv == WaitInv /\ AllWereReady

\* The process starts from nothing whenever it ends.
LEMMA FatalResets ==
  ASSUME Fatal
  PROVE  StartInv'
  BY DEF Fatal, StartInv, WaitInv, AllWereReady

\* Boot starts a check for each component.
LEMMA BootWaits ==
  ASSUME StartInv, Boot
  PROVE  StartInv'
<1>1. Parts # {}
  BY PartsAssumption
<1>. QED
  BY <1>1 DEF Boot, StartInv, WaitInv, AllWereReady

\* An answer ends its check: the count goes down with the checks that run, and is
\* used up by the last one.
LEMMA AnswerCounts ==
  ASSUME StartInv, NEW c \in Parts, ReadyzCheck(c)
  PROVE  StartInv'
<1>1. /\ step = "wait" /\ c \in asking /\ asking' = asking \ {c}
      /\ counts' = counts - 1 /\ answered' = answered \cup {c}
  BY DEF ReadyzCheck, Asked
<1>2. /\ asking \subseteq Parts /\ answered = Parts \ asking
      /\ counts = Cardinality(asking)
  BY <1>1 DEF StartInv, WaitInv
<1>3. IsFiniteSet(asking)
  BY <1>2, PartsAssumption, FS_Subset
<1>4. Cardinality(asking) \in Nat /\ Cardinality(asking') = Cardinality(asking) - 1
  BY <1>1, <1>3, FS_RemoveElement, FS_CardinalityType
<1>5. answered' = Parts \ asking' /\ asking' \subseteq Parts
  BY <1>1, <1>2
<1>6. CASE counts = 1
  <2>1. Cardinality(asking') = 0 /\ IsFiniteSet(asking')
    BY <1>1, <1>2, <1>3, <1>4, <1>6, FS_RemoveElement
  <2>2. asking' = {}
    BY <2>1, FS_EmptySet
  <2>3. step' = "register"
    BY <1>6 DEF ReadyzCheck
  <2>. QED
    BY <1>5, <2>2, <2>3 DEF StartInv, WaitInv, AllWereReady
<1>7. CASE counts # 1
  <2>1. step' = "wait"
    BY <1>1, <1>7 DEF ReadyzCheck
  <2>2. Cardinality(asking') # 0
    BY <1>2, <1>4, <1>7
  <2>3. asking' # {}
    BY <2>2, FS_EmptySet
  <2>. QED
    BY <1>1, <1>2, <1>4, <1>5, <2>1, <2>3 DEF StartInv, WaitInv, AllWereReady
<1>. QED
  BY <1>6, <1>7

\* An attempt to register ends the process, is followed by another one, or by reports.
LEMMA AttemptKeeps ==
  ASSUME StartInv, RegisterIfNeed
  PROVE  StartInv'
<1>1. step = "register" /\ answered = Parts
  BY DEF RegisterIfNeed, StartInv, AllWereReady
<1>2. Fatal \/ UNCHANGED <<step, asking, counts, answered>>
      \/ (step' = "report" /\ UNCHANGED <<asking, counts, answered>>)
  BY DEF RegisterIfNeed, BeginReports, Retry
<1>3. CASE Fatal
  BY <1>3, FatalResets
<1>4. CASE UNCHANGED <<step, asking, counts, answered>>
  BY <1>1, <1>4 DEF StartInv, WaitInv, AllWereReady
<1>5. CASE step' = "report" /\ UNCHANGED <<asking, counts, answered>>
  BY <1>1, <1>5 DEF StartInv, WaitInv, AllWereReady
<1>. QED
  BY <1>2, <1>3, <1>4, <1>5

\* Every step keeps the invariant.
LEMMA StartStep ==
  ASSUME StartInv, [StartNext]_startVars
  PROVE  StartInv'
<1>1. CASE Boot
  BY <1>1, BootWaits
<1>2. CASE \E c \in Parts : ReadyzCheck(c)
  BY <1>2, AnswerCounts
<1>3. CASE WaitTimesOut \/ Crash
  BY <1>3, FatalResets DEF WaitTimesOut, Crash
<1>4. CASE RegisterIfNeed
  BY <1>4, AttemptKeeps
<1>5. CASE \/ RunLocal \/ RunSync \/ RunServer \/ Listens \/ Report
           \/ PivotFlips \/ ClusterDeleted \/ PivotSyncs \/ UNCHANGED startVars
  <2>1. UNCHANGED <<step, asking, counts, answered>>
    BY <1>5 DEF RunLocal, RunSync, RunServer, BecomesReady, Listens, Report,
                PivotFlips, ClusterDeleted, PivotSyncs, startVars
  <2>. QED
    BY <2>1 DEF StartInv, WaitInv, AllWereReady
<1>. QED
  BY <1>1, <1>2, <1>3, <1>4, <1>5 DEF StartNext

\* The cluster is registered, and heartbeats are sent, only after every component of
\* this process was found ready: for any finite set of components, any number of
\* attempts, crashes and outages (waitForReady, reporter.go:117).
THEOREM RegistersWhenReady == StartSpec => []AllWereReady
<1>1. StartInit => StartInv
  BY DEF StartInit, StartInv, WaitInv, AllWereReady
<1>2. StartInv /\ [StartNext]_startVars => StartInv'
  BY StartStep
<1>3. StartInv => AllWereReady
  BY DEF StartInv
<1>. QED
  BY <1>1, <1>2, <1>3, PTL DEF StartSpec

-----------------------------------------------------------------------------
(* Hotplugs.  At rest the releases are the ones the configurations ask for:  *)
(* at any other time somebody is about to see to it.                         *)

\* A reconciliation that runs has all of its fields.
RunShape ==
  \/ run = NotRunning
  \/ /\ run = [at |-> run.at, key |-> run.key, want |-> run.want, todo |-> run.todo,
               changed |-> run.changed, results |-> run.results]
     /\ run.at \in {"helm", "common", "cluster"} /\ run.key \in Configs
     /\ run.at # "helm" => run.todo = {}

\* As long as no call of Helm has failed a release is deployed.
Deployed ==
  failures = 0 => \A c \in Components :
    releases[c] = Absent \/ releases[c] = [state |-> "deployed", env |-> releases[c].env]

\* The release of c is the one that is asked for.
Released(want, c) ==
  IF want[c].status = "enabled"
  THEN want[c].env # Bad => releases[c] = [state |-> "deployed", env |-> want[c].env]
  ELSE releases[c] = Absent

Featured(want) == IsMember \/ \A c \in DOMAIN want : feature[c] = want[c].status

\* The reconciliation that runs is about the configurations as they are now, and has
\* seen to all components but the ones in todo.
OnTheWay ==
  /\ run # NotRunning /\ run.want = Wanting
  /\ \A c \in DOMAIN Wanting \ run.todo : Released(Wanting, c)
  /\ run.at # "helm" => Featured(Wanting)

Settled == run = NotRunning /\ (\A c \in DOMAIN Wanting : Released(Wanting, c)) /\ Featured(Wanting)

\* Somebody is about to see to it: the key of a configuration that exists waits in the
\* queue, or the reconciliation that runs has read the last version.
Attended ==
  failures = 0 /\ ~left =>
    \/ spec["common"] = Absent
    \/ \E k \in hotQueue : spec[k] # Absent
    \/ OnTheWay
    \/ Settled

HotInv ==
  /\ failures \in Nat /\ DOMAIN spec = Configs /\ DOMAIN releases = Components
  /\ hotQueue \subseteq Configs
  /\ spec["common"] # Absent => DOMAIN spec["common"] \subseteq Components
  /\ RunShape /\ Deployed /\ Attended

\* Only components that the common configuration knows are asked for.
LEMMA WantedAreComponents ==
  ASSUME HotInv
  PROVE  DOMAIN Wanting \subseteq Components
<1>1. CASE spec["common"] = Absent
  BY <1>1 DEF Wanting
<1>2. CASE spec["common"] # Absent
  <2>1. DOMAIN Wanting \subseteq DOMAIN spec["common"]
    BY <1>2 DEF Wanting, MergeHotplug
  <2>. QED
    BY <1>2, <2>1 DEF HotInv
<1>. QED
  BY <1>1, <1>2

\* What is asked for changes with the configurations only.
LEMMA WantingStays ==
  ASSUME spec' = spec
  PROVE  Wanting' = Wanting
  BY DEF Wanting

\* An edit is in the queue, or takes away what was asked for.
LEMMA EditAttended ==
  ASSUME HotInv, NEW k \in Configs, NEW to, Edit(k, to),
         k = "common" => to \in CommonSpecs \cup {Absent}
  PROVE  HotInv'
<1>1. /\ spec' = [spec EXCEPT ![k] = to] /\ hotQueue' = hotQueue \cup {k}
      /\ UNCHANGED <<releases, failures>>
      /\ run' = IF run = NotRunning THEN run ELSE [run EXCEPT !.changed = @ \cup {k}]
      /\ ~left' => ~left /\ ~(k = "cluster" /\ to = Absent)
  BY DEF Edit
<1>2. /\ DOMAIN spec' = Configs /\ spec'[k] = to /\ "common" \in Configs
      /\ \A j \in Configs : j # k => spec'[j] = spec[j]
  BY <1>1 DEF HotInv, Configs
<1>3. spec'["common"] # Absent => DOMAIN spec'["common"] \subseteq Components
  BY <1>2, SpecsAssumption DEF HotInv
<1>4. RunShape'
  <2>1. CASE run = NotRunning
    BY <1>1, <2>1 DEF RunShape
  <2>2. CASE run # NotRunning
    BY <1>1, <2>2 DEF RunShape, HotInv
  <2>. QED
    BY <2>1, <2>2
<1>5. Attended'
  <2>1. CASE to # Absent
    BY <1>1, <1>2, <2>1 DEF Attended
  <2>2. CASE to = Absent
    BY <1>1, <1>2, <2>2 DEF Attended, Configs
  <2>. QED
    BY <2>1, <2>2
<1>6. Deployed'
  BY <1>1 DEF HotInv, Deployed
<1>. QED
  BY <1>1, <1>2, <1>3, <1>4, <1>5, <1>6 DEF HotInv

\* A reconciliation starts with what is asked for now; a key without a configuration
\* is dropped.
LEMMA StartAttended ==
  ASSUME HotInv, NEW k \in Configs, Start(k)
  PROVE  HotInv'
<1>1. run = NotRunning /\ UNCHANGED <<spec, releases, feature, failures>> /\ hotQueue' = hotQueue \ {k}
  BY DEF Start
<1>2. Wanting' = Wanting
  BY <1>1, WantingStays
<1>3. CASE spec[k] = Absent
  <2>1. run' = run /\ left' = left
    BY <1>3 DEF Start
  <2>2. Attended'
    <3>1. ~OnTheWay /\ (Settled => Settled')
      BY <1>1, <1>2, <2>1 DEF OnTheWay, Settled, Released, Featured
    <3>. QED
      BY <1>1, <1>3, <2>1, <3>1 DEF HotInv, Attended
  <2>. QED
    BY <1>1, <2>1, <2>2 DEF HotInv, RunShape, Deployed
<1>4. CASE spec[k] # Absent
  <2>1. /\ spec["common"] # Absent
        /\ run' = [at |-> "helm", key |-> k, want |-> Wanting, todo |-> DOMAIN Wanting, changed |-> {},
                   results |-> [c \in Components |-> NoResult]]
    BY <1>4 DEF Start, Wanting
  <2>2. /\ run'.at = "helm" /\ run'.key = k /\ run'.want = Wanting /\ run'.todo = DOMAIN Wanting
        /\ run'.changed = {} /\ run'.results = [c \in Components |-> NoResult]
    BY <2>1
  <2>3. run' # NotRunning
    BY <2>2 DEF NotRunning
  <2>4. OnTheWay'
    BY <1>2, <2>2, <2>3 DEF OnTheWay
  <2>5. RunShape'
    BY <2>1, <2>2 DEF RunShape
  <2>. QED
    BY <1>1, <2>4, <2>5 DEF HotInv, Attended, Deployed
<1>. QED
  BY <1>3, <1>4

\* What one component comes to, when no call fails: its release is the one asked for.
LEMMA ComponentReleased ==
  ASSUME HotInv, NEW c \in Components, Component(c), failures' = 0
  PROVE  failures = 0 /\ Released(run.want, c)' /\ Deployed'
<1>1. failures = 0 /\ failures' = failures
  BY DEF Component, Failed, HotInv
<1>2. ~Failed
  BY <1>1 DEF Failed, HotInv
<1>3. PICK to, r, m : Tried(c, to, r, m)
  BY <1>2 DEF Component
<1>. DEFINE want == run.want[c]
<1>4. /\ releases' = [releases EXCEPT ![c] = releases'[c]] /\ run'.want = run.want
      /\ DOMAIN releases = Components
  <2>1. run # NotRunning
    BY DEF Component, NotRunning
  <2>2. run'.want = run.want
    BY <1>3, <2>1 DEF Tried, RunShape, HotInv
  <2>. QED
    BY <1>3, <2>2 DEF Tried, HotInv
<1>5. releases[c] = Absent \/ releases[c] = [state |-> "deployed", env |-> releases[c].env]
  BY <1>1 DEF HotInv, Deployed
<1>6. /\ IF want.status = "enabled"
         THEN want.env # Bad => releases'[c] = [state |-> "deployed", env |-> want.env]
         ELSE releases'[c] = Absent
      /\ \/ releases'[c] = Absent \/ releases'[c] = releases[c]
         \/ releases'[c] = [state |-> "deployed", env |-> want.env]
  <2>1. CASE releases[c] = Absent /\ want.status # "enabled"
    BY <1>2, <1>4, <2>1 DEF Component, Tried
  <2>2. CASE releases[c] = Absent /\ want.status = "enabled" /\ want.env # Bad
    BY <1>2, <1>4, <2>2 DEF Component, Tried
  <2>3. CASE releases[c] # Absent /\ want.status # "enabled"
    BY <1>2, <1>4, <2>3 DEF Component, Tried
  <2>4. CASE want.status = "enabled" /\ want.env = Bad
    BY <1>2, <1>4, <2>4 DEF Component, Tried
  <2>5. CASE releases[c] # Absent /\ want.status = "enabled" /\ want.env # Bad /\ want.env = releases[c].env
    BY <1>2, <1>4, <1>5, <2>5 DEF Component, Tried, JudgeJsonEqual
  <2>6. CASE releases[c] # Absent /\ want.status = "enabled" /\ want.env # Bad /\ want.env # releases[c].env
    BY <1>2, <1>4, <2>6 DEF Component, Tried, JudgeJsonEqual
  <2>. QED
    BY <2>1, <2>2, <2>3, <2>4, <2>5, <2>6
<1>7. Released(run.want, c)'
  BY <1>4, <1>6 DEF Released
<1>8. Deployed'
  <2>. SUFFICES ASSUME NEW d \in Components
                PROVE  releases'[d] = Absent \/ releases'[d] = [state |-> "deployed", env |-> releases'[d].env]
    BY DEF Deployed
  <2>1. CASE d = c
    BY <1>5, <1>6, <2>1
  <2>2. CASE d # c
    BY <1>1, <1>4, <2>2 DEF HotInv, Deployed
  <2>. QED
    BY <2>1, <2>2
<1>. QED
  BY <1>1, <1>7, <1>8

\* The reconciliation goes from component to component.
LEMMA ComponentAttended ==
  ASSUME HotInv, NEW c \in Components, Component(c)
  PROVE  HotInv'
<1>1. run # NotRunning /\ run.at = "helm" /\ c \in run.todo
  BY DEF Component, NotRunning
<1>2. PICK to, r, m : Tried(c, to, r, m)
  BY DEF Component
<1>3. /\ UNCHANGED <<spec, hotQueue, feature, left>>
      /\ releases' = [releases EXCEPT ![c] = to]
      /\ run' = [run EXCEPT !.todo = @ \ {c}, !.results[c] = Result(c, r, m)]
  BY <1>2 DEF Tried
<1>4. /\ run'.at = "helm" /\ run'.want = run.want /\ run'.todo = run.todo \ {c}
      /\ RunShape'
  BY <1>1, <1>3 DEF RunShape, HotInv
<1>5. failures' \in Nat
  BY DEF Component, Failed, HotInv
<1>6. DOMAIN releases' = Components /\ \A d \in Components : d # c => releases'[d] = releases[d]
  BY <1>3 DEF HotInv
<1>7. Deployed'
  <2>1. CASE failures' = 0
    BY <2>1, ComponentReleased
  <2>2. CASE failures' # 0
    BY <2>2 DEF Deployed
  <2>. QED
    BY <2>1, <2>2
<1>8. Attended'
  <2>. SUFFICES ASSUME failures' = 0, ~left'
                PROVE  \/ spec'["common"] = Absent
                       \/ \E k \in hotQueue' : spec'[k] # Absent
                       \/ OnTheWay'
    BY DEF Attended
  <2>1. failures = 0 /\ ~left /\ Released(run.want, c)'
    BY <1>3, ComponentReleased
  <2>2. Wanting' = Wanting /\ DOMAIN Wanting \subseteq Components
    BY <1>3, WantingStays, WantedAreComponents
  <2>3. CASE OnTheWay
    <3>1. ASSUME NEW d \in DOMAIN Wanting, d \notin run'.todo
          PROVE  Released(Wanting, d)'
      <4>1. CASE d = c
        BY <1>4, <2>1, <2>2, <2>3, <4>1 DEF OnTheWay, Released
      <4>2. CASE d # c
        BY <1>4, <1>6, <2>2, <2>3, <3>1, <4>2 DEF OnTheWay, Released
      <4>. QED
        BY <4>1, <4>2
    <3>2. run' # NotRunning
      BY <1>4 DEF NotRunning
    <3>. QED
      BY <1>4, <2>2, <2>3, <3>1, <3>2 DEF OnTheWay
  <2>4. CASE ~OnTheWay
    BY <1>1, <1>3, <2>1, <2>4 DEF HotInv, Attended, Settled
  <2>. QED
    BY <2>3, <2>4
<1>. QED
  BY <1>3, <1>4, <1>5, <1>6, <1>7, <1>8 DEF HotInv

\* A call that fails is not spoken of any more.
LEMMA GiveUpAttended ==
  ASSUME HotInv, GiveUp
  PROVE  HotInv'
<1>1. failures' \in Nat /\ failures' # 0
  BY DEF GiveUp, Failed, HotInv
<1>. QED
  BY <1>1 DEF GiveUp, HotInv, RunShape, Deployed, Attended

\* The feature ConfigMap follows when all components were seen to.
LEMMA FeatureAttended ==
  ASSUME HotInv, Feature
  PROVE  HotInv'
<1>1. /\ run.at = "helm" /\ run.todo = {} /\ run # NotRunning
      /\ run' = [run EXCEPT !.at = "common"]
      /\ UNCHANGED <<spec, releases, hotQueue, failures, left>>
  BY DEF Feature, NotRunning
<1>2. /\ run'.at = "common" /\ run'.want = run.want /\ run'.todo = run.todo
      /\ RunShape'
  BY <1>1 DEF RunShape, HotInv
<1>3. Attended'
  <2>1. Wanting' = Wanting /\ DOMAIN Wanting \subseteq Components
    BY <1>1, WantingStays, WantedAreComponents
  <2>2. CASE OnTheWay
    <3>1. run' # NotRunning
      BY <1>2 DEF NotRunning
    <3>2. Featured(Wanting)'
      BY <2>1, <2>2 DEF Feature, Featured, OnTheWay
    <3>3. OnTheWay'
      BY <1>1, <1>2, <2>1, <2>2, <3>1, <3>2 DEF OnTheWay, Released
    <3>. QED
      BY <3>3 DEF Attended
  <2>3. CASE ~OnTheWay
    BY <1>1, <2>3 DEF HotInv, Attended, Settled
  <2>. QED
    BY <2>2, <2>3
<1>. QED
  BY <1>1, <1>2, <1>3 DEF HotInv, Deployed

\* The status is written, or refused for its version: either way nothing that was
\* asked for is left to do, or its key waits in the queue.
LEMMA StatusAttended ==
  ASSUME HotInv, NEW k \in Configs, UpdateStatus(k)
  PROVE  HotInv'
<1>1. /\ run.at = k /\ k # "helm" /\ run # NotRunning /\ run.todo = {} /\ run.key \in Configs
      /\ UNCHANGED <<spec, releases, feature, failures, left>>
  <2>1. run.at = k /\ k # "helm" /\ k # "rest" /\ UNCHANGED <<spec, releases, feature, failures, left>>
    BY DEF UpdateStatus, Configs
  <2>2. run # NotRunning
    BY <2>1 DEF NotRunning
  <2>. QED
    BY <2>1, <2>2 DEF HotInv, RunShape
<1>2. hotQueue \subseteq hotQueue' /\ hotQueue' \subseteq Configs
  BY <1>1 DEF UpdateStatus, Noticed, HotInv
<1>3. \/ run' = NotRunning
      \/ run' = [run EXCEPT !.at = "cluster"]
  BY DEF UpdateStatus
<1>4. Wanting' = Wanting
  BY <1>1, WantingStays
<1>5. RunShape'
  BY <1>1, <1>3 DEF HotInv, RunShape
<1>6. OnTheWay => OnTheWay' \/ Settled'
  <2>. SUFFICES ASSUME OnTheWay
                PROVE  OnTheWay' \/ Settled'
    OBVIOUS
  <2>1. (\A c \in DOMAIN Wanting : Released(Wanting, c))' /\ Featured(Wanting)'
    BY <1>1, <1>4 DEF OnTheWay, Released, Featured
  <2>2. CASE run' = NotRunning
    BY <2>1, <2>2 DEF Settled
  <2>3. CASE run' = [run EXCEPT !.at = "cluster"]
    <3>1. run'.at = "cluster" /\ run'.want = run.want
      BY <1>1, <2>3 DEF HotInv, RunShape
    <3>2. run' # NotRunning
      BY <3>1 DEF NotRunning
    <3>. QED
      BY <1>4, <2>1, <3>1, <3>2 DEF OnTheWay
  <2>. QED
    BY <1>3, <2>2, <2>3
<1>7. Attended'
  BY <1>1, <1>2, <1>6 DEF HotInv, Attended, Settled
<1>. QED
  BY <1>1, <1>2, <1>5, <1>7 DEF HotInv, Deployed

\* Every step keeps the invariant.
LEMMA HotStepKeeps ==
  ASSUME HotInv, [HotNext]_hotVars
  PROVE  HotInv'
<1>1. ASSUME NEW k \in Configs, Start(k) \/ UpdateStatus(k)
      PROVE  HotInv'
  BY <1>1, StartAttended, StatusAttended
<1>2. ASSUME NEW c \in Components, Component(c)
      PROVE  HotInv'
  BY <1>2, ComponentAttended
<1>3. CASE Feature \/ GiveUp
  BY <1>3, FeatureAttended, GiveUpAttended
<1>4. ASSUME NEW to \in CommonSpecs \cup {Absent}, Edit("common", to)
      PROVE  HotInv'
  BY <1>4, EditAttended DEF Configs
<1>5. ASSUME NEW to \in ClusterSpecs \cup {Absent}, Edit("cluster", to)
      PROVE  HotInv'
  BY <1>5, EditAttended DEF Configs
<1>6. CASE UNCHANGED hotVars
  <2>1. UNCHANGED <<spec, releases, feature, hotQueue, run, failures, left>>
    BY <1>6 DEF hotVars
  <2>2. Wanting' = Wanting
    BY <2>1, WantingStays
  <2>. QED
    BY <2>1, <2>2 DEF HotInv, RunShape, Deployed, Attended, OnTheWay, Settled, Released, Featured
<1>. QED
  BY <1>1, <1>2, <1>3, <1>4, <1>5, <1>6 DEF HotNext, HotStep

\* At rest the releases and the feature ConfigMap are what the configurations ask for,
\* whatever was edited while the controller was at work: for any components,
\* configurations and number of edits (Reconcile and MergeHotplug of the hotplug
\* controller).
THEOREM ReleasesFollow == HotSpec => []HotplugSettles
<1>1. HotInit => HotInv
  <2>. SUFFICES ASSUME HotInit
                PROVE  HotInv
    OBVIOUS
  <2>1. spec["common"] = Absent /\ DOMAIN spec = Configs
    BY DEF HotInit, Configs
  <2>2. DOMAIN releases = Components /\ Deployed
    BY DEF HotInit, Deployed
  <2>3. RunShape /\ failures = 0 /\ hotQueue = {}
    BY DEF HotInit, RunShape
  <2>. QED
    BY <2>1, <2>2, <2>3 DEF HotInv, Attended
<1>2. HotInv /\ [HotNext]_hotVars => HotInv'
  BY HotStepKeeps
<1>3. HotInv => HotplugSettles
  <2>. SUFFICES ASSUME HotInv, Resting, failures = 0, ~left, NEW c \in DOMAIN Wanting
                PROVE  Released(Wanting, c) /\ (IsMember \/ feature[c] = Wanting[c].status)
    BY DEF HotplugSettles, Released
  <2>1. spec["common"] # Absent
    BY DEF Wanting
  <2>2. Settled
    BY <2>1 DEF HotInv, Attended, Resting, OnTheWay
  <2>. QED
    BY <2>2 DEF Settled, Featured
<1>. QED
  BY <1>1, <1>2, <1>3, PTL DEF HotSpec

-----------------------------------------------------------------------------
(* Namespaces.                                                               *)

\* A namespace without its quota has a request that will see to it, unless a clean-up
\* was passed over.
QuotaInv ==
  /\ DOMAIN ns = Spaces
  /\ ~stray /\ ns["sub"] = "live" => subQuota \/ req # "idle"

\* Every step keeps the invariant.
LEMMA TenancyStep ==
  ASSUME QuotaInv, [Next]_vars
  PROVE  QuotaInv'
<1>. USE DEF QuotaInv, Spaces, Kinds
<1>1. CASE \E k \in Kinds : Create(k) \/ Delete(k)
  BY <1>1 DEF Create, Delete, spaces, request, history
<1>2. CASE QuotaCreated \/ \E k \in Kinds : Deliver(k) \/ Reconcile(k)
  BY <1>2 DEF QuotaCreated, Deliver, Reconcile, spaces, request, history
<1>3. ASSUME NEW n \in Spaces, DeliverNs(n)
      PROVE  QuotaInv'
  BY <1>3 DEF DeliverNs, request, history
<1>4. ASSUME NEW n \in Spaces, Ended(n)
      PROVE  QuotaInv'
  BY <1>4 DEF Ended, history
<1>5. ASSUME NEW k \in Kinds, CreateNamespace(k)
      PROVE  QuotaInv'
  <2>1. k # "sub" /\ (ns' = ns \/ \E s : ns' = [ns EXCEPT ![k] = s])
    BY <1>5 DEF CreateNamespace
  <2>. QED
    BY <1>5, <2>1 DEF CreateNamespace, request
<1>6. CASE DropTenantSpace \/ WaitTenantSpace \/ DropQuotas
  <2>1. ns' = ns \/ ns' = [ns EXCEPT !["tenant"] = "ending"]
    BY <1>6 DEF DropTenantSpace, WaitTenantSpace, DropQuotas, spaces
  <2>. QED
    BY <1>6, <2>1 DEF DropTenantSpace, WaitTenantSpace, DropQuotas, spaces, request, history
<1>7. CASE DropSubSpaces
  <2>1. ns' = ns \/ ns' = [ns EXCEPT !["sub"] = "ending"]
    BY <1>7 DEF DropSubSpaces, SubDropped
  <2>2. UNCHANGED request
    BY <1>7 DEF DropSubSpaces
  <2>3. stray' = stray \/ stray' = (stray \/ (ns["sub"] # "none" /\ ~seenNs["sub"]))
    BY <1>7 DEF DropSubSpaces
  <2>4. stray => stray'
    BY <2>3
  <2>. QED
    BY <2>1, <2>2, <2>4 DEF request
<1>8. CASE DropProjectSpace
  <2>1. ns' = ns \/ ns' = [ns EXCEPT !["project"] = "ending"]
    BY <1>8 DEF DropProjectSpace
  <2>2. UNCHANGED request /\ (stray => stray')
    BY <1>8 DEF DropProjectSpace
  <2>. QED
    BY <2>1, <2>2 DEF request
<1>9. CASE AwaitSpread
  BY <1>9 DEF AwaitSpread, spaces, history
<1>10. CASE CreateQuota
  BY <1>10 DEF CreateQuota, spaces, history
<1>11. CASE Rollback
  <2>1. stray' \/ ns'["sub"] # "live"
    BY <1>11 DEF Rollback, RolledBack
  <2>2. DOMAIN ns' = Spaces
    BY <1>11 DEF Rollback, RolledBack
  <2>. QED
    BY <2>1, <2>2
<1>12. CASE CreateNs
  BY <1>12 DEF CreateNs
<1>13. CASE UNCHANGED vars
  BY <1>13 DEF vars, spaces, request, history
<1>. QED
  BY <1>1, <1>2, <1>3, <1>4, <1>5, <1>6, <1>7, <1>8, <1>9, <1>10, <1>11, <1>12, <1>13
     DEF Next, TenantStep, ProjectStep, RequestStep, InformerStep

\* A namespace that createNsAndQuota made has its quota when the request is over, or
\* goes, unless the rollback failed or the project was not there: for any number of
\* requests, deletions and failures, the namespace's controller at work or not.
THEOREM QuotaOrRollback == Spec => []NsHasQuota
<1>1. Init => QuotaInv
  BY DEF Init, QuotaInv, Spaces
<1>2. QuotaInv /\ [Next]_vars => QuotaInv'
  BY TenancyStep
<1>3. QuotaInv => NsHasQuota
  BY DEF QuotaInv, NsHasQuota
<1>. QED
  BY <1>1, <1>2, <1>3, PTL DEF Spec

-----------------------------------------------------------------------------
(* Tenants and projects.                                                     *)

TenancyTypes ==
  /\ DOMAIN obj = Kinds /\ DOMAIN seen = Kinds /\ DOMAIN worker = Kinds
  /\ DOMAIN ns = Spaces /\ DOMAIN seenNs = Spaces
  /\ worker["project"] # "wait"
  /\ \A n \in Spaces : ns[n] \in {"none", "live", "ending"}

Calm(k) == k \notin late /\ k \notin queue

\* Nothing that changed is unknown to the controller and not queued: then the
\* reconciliation under way has read the object as it is.
WorksAsAsked(k) ==
  /\ k \notin late => seen[k] = obj[k]
  /\ Calm(k) /\ worker[k] = "space" => obj[k] # None /\ obj[k].filled
  /\ Calm(k) /\ worker[k] \in {"drop", "wait", "rest"} => obj[k] = None

\* The clean-up goes on only when what it has deleted is gone, as the cache tells.
DropsInOrder ==
  /\ worker["tenant"] = "wait" =>
       ns["tenant"] # "live" /\ (~seenNs["tenant"] => ns["tenant"] = "none")
  /\ worker["tenant"] = "rest" => reborn \/ ns["tenant"] = "none"
  /\ Calm("project") /\ worker["project"] = "rest" => stray \/ ns["sub"] # "live"

TidyInv ==
  TenancyTypes /\ (\A k \in Kinds : WorksAsAsked(k)) /\ DropsInOrder /\ LeftAsAsked

\* An attempt that failed is made again.
LEMMA AgainTidies ==
  ASSUME TidyInv, NEW k \in Kinds, Again(k),
         UNCHANGED <<objects, ns, seenNs, quota, reborn, stray>>
  PROVE  TidyInv'
BY DEF Again, objects, TidyInv, TenancyTypes, Kinds, Spaces, WorksAsAsked, Calm, DropsInOrder,
       LeftAsAsked, Handled

\* The namespace is there afterwards, or an old one was ending.
LEMMA CreateNamespaceTidies ==
  ASSUME TidyInv, NEW k \in Kinds, CreateNamespace(k)
  PROVE  TidyInv'
<1>1. CASE Again(k) /\ UNCHANGED <<ns, reborn>>
  BY <1>1, AgainTidies DEF CreateNamespace
<1>2. CASE /\ ns' = [ns EXCEPT ![k] = IF @ = "none" THEN "live" ELSE @]
           /\ reborn' = (reborn \/ ns[k] = "ending") /\ Go(k, "idle")
  <2>1. /\ UNCHANGED <<obj, seen, late, queue, seenNs, quota, stray>>
        /\ worker[k] = "space" /\ worker' = [worker EXCEPT ![k] = "idle"]
    BY <1>2 DEF CreateNamespace, Go, objects
  <2>2. /\ ns'[k] = "live" \/ (reborn' /\ ns'[k] = "ending")
        /\ reborn => reborn'
        /\ DOMAIN ns' = Spaces
        /\ \A n \in Spaces : n # k => ns'[n] = ns[n]
    BY <1>2 DEF TidyInv, TenancyTypes, Kinds, Spaces
  <2>. QED
    BY <2>1, <2>2 DEF TidyInv, TenancyTypes, Kinds, Spaces, WorksAsAsked, Calm, DropsInOrder,
                      LeftAsAsked, Handled
<1>. QED
  BY <1>1, <1>2 DEF CreateNamespace

\* The namespace of a tenant is gone before its quotas go, unless the cache missed it.
LEMMA DropTenantSpaceTidies ==
  ASSUME TidyInv, DropTenantSpace
  PROVE  TidyInv'
<1>1. /\ worker["tenant"] = "drop" /\ "tenant" \in Kinds
      /\ UNCHANGED <<objects, seenNs, quota, stray>>
  BY DEF DropTenantSpace, Kinds
<1>2. CASE Again("tenant") /\ UNCHANGED <<ns, reborn>>
  BY <1>1, <1>2, AgainTidies
<1>3. CASE /\ Go("tenant", "rest") /\ UNCHANGED ns
           /\ reborn' = (reborn \/ ns["tenant"] # "none")
  BY <1>1, <1>3 DEF Go, objects, TidyInv, TenancyTypes, Kinds, Spaces, WorksAsAsked, Calm,
                    DropsInOrder, LeftAsAsked, Handled
<1>4. CASE /\ seenNs["tenant"] /\ ns' = [ns EXCEPT !["tenant"] = "ending"]
           /\ Go("tenant", "wait") /\ UNCHANGED reborn
  BY <1>1, <1>4 DEF Go, objects, TidyInv, TenancyTypes, Kinds, Spaces, WorksAsAsked, Calm,
                    DropsInOrder, LeftAsAsked, Handled
<1>. QED
  BY <1>2, <1>3, <1>4 DEF DropTenantSpace

\* The namespaces below a project are ending, unless the cache missed one.
LEMMA DropSubSpacesTidies ==
  ASSUME TidyInv, DropSubSpaces
  PROVE  TidyInv'
<1>1. /\ worker["project"] = "drop" /\ "project" \in Kinds
      /\ UNCHANGED <<objects, seenNs, quota, reborn>>
  BY DEF DropSubSpaces, Kinds
<1>2. CASE Again("project") /\ UNCHANGED <<ns, stray>>
  BY <1>1, <1>2, AgainTidies
<1>3. CASE /\ ns' = SubDropped /\ Go("project", "rest")
           /\ stray' = (stray \/ (ns["sub"] # "none" /\ ~seenNs["sub"]))
  <2>1. ns' = ns \/ ns' = [ns EXCEPT !["sub"] = "ending"]
    BY <1>3 DEF SubDropped
  <2>2. (stray' \/ ns'["sub"] # "live") /\ (stray => stray')
    BY <1>3 DEF SubDropped, TidyInv, TenancyTypes, Spaces
  <2>. QED
    BY <1>1, <1>3, <2>1, <2>2 DEF Go, objects, TidyInv, TenancyTypes, Kinds, Spaces,
         WorksAsAsked, Calm, DropsInOrder, LeftAsAsked, Handled
<1>. QED
  BY <1>2, <1>3 DEF DropSubSpaces

\* Every step keeps the invariant.
LEMMA TidyStep ==
  ASSUME TidyInv, [Next]_vars
  PROVE  TidyInv'
<1>. USE DEF TidyInv, TenancyTypes, Kinds, Spaces, WorksAsAsked, Calm, DropsInOrder,
             LeftAsAsked, Handled
<1>1. ASSUME NEW k \in Kinds, Create(k)
      PROVE  TidyInv'
  BY <1>1 DEF Create, Put, spaces, request, history
<1>2. ASSUME NEW k \in Kinds, Delete(k)
      PROVE  TidyInv'
  BY <1>2 DEF Delete, Put, spaces, request, history
<1>3. CASE QuotaCreated
  BY <1>3 DEF QuotaCreated, objects, spaces, request, history
<1>4. ASSUME NEW k \in Kinds, Deliver(k)
      PROVE  TidyInv'
  BY <1>4 DEF Deliver, spaces, request, history
<1>5. ASSUME NEW n \in Spaces, DeliverNs(n)
      PROVE  TidyInv'
  BY <1>5 DEF DeliverNs, objects, request, history
<1>6. ASSUME NEW n \in Spaces, Ended(n)
      PROVE  TidyInv'
  BY <1>6 DEF Ended, objects, history
<1>7. ASSUME NEW k \in Kinds, Reconcile(k)
      PROVE  TidyInv'
  BY <1>7 DEF Reconcile, Put, To, spaces, request, history
<1>8. ASSUME NEW k \in Kinds, CreateNamespace(k)
      PROVE  TidyInv'
  BY ONLY TidyInv, <1>8, CreateNamespaceTidies
<1>9. CASE DropTenantSpace
  BY ONLY TidyInv, <1>9, DropTenantSpaceTidies
<1>10. CASE WaitTenantSpace
  BY <1>10 DEF WaitTenantSpace, Go, Again, objects, spaces, request, history
<1>11. CASE DropQuotas
  BY <1>11 DEF DropQuotas, Go, Again, objects, spaces, request, history
<1>12. CASE DropSubSpaces
  BY ONLY TidyInv, <1>12, DropSubSpacesTidies
<1>13. CASE DropProjectSpace
  BY <1>13 DEF DropProjectSpace, Go, Again, objects, request
<1>14. CASE CreateNs
  BY <1>14 DEF CreateNs, objects
<1>15. CASE AwaitSpread \/ CreateQuota
  BY <1>15 DEF AwaitSpread, CreateQuota, objects, spaces, history
<1>16. CASE Rollback
  BY <1>16 DEF Rollback, RolledBack, objects
<1>17. CASE UNCHANGED vars
  BY <1>17 DEF vars, objects, spaces, history
<1>. QED
  BY <1>1, <1>2, <1>3, <1>4, <1>5, <1>6, <1>7, <1>8, <1>9, <1>10, <1>11, <1>12, <1>13,
     <1>14, <1>15, <1>16, <1>17 DEF Next, TenantStep, ProjectStep, RequestStep, InformerStep

\* What the tenant and project controllers leave when they have handled everything, for
\* any number of creations, deletions, requests and failures.
THEOREM TenantsAreTidy == Spec => []LeftAsAsked
<1>1. Init => TidyInv
  BY DEF Init, TidyInv, TenancyTypes, WorksAsAsked, Calm, DropsInOrder, LeftAsAsked, Handled,
         Kinds, Spaces
<1>2. TidyInv => LeftAsAsked
  BY DEF TidyInv
<1>. QED
  BY <1>1, <1>2, TidyStep, PTL DEF Spec
=============================================================================
