------------------------------ MODULE Hotplug ------------------------------
(***************************************************************************)
(* The hotplug controller of the warden                                    *)
(* (pkg/warden/localmgr/controllers/hotplug): the components of a cluster  *)
(* are Helm releases, after a common configuration that the one of the     *)
(* cluster overrides.                                                      *)
(*                                                                         *)
(* An environment is a function from settings to values; 0 stands for a    *)
(* setting that is missing or null, Bad for a text that is no YAML, and     *)
(* Unset for none.  The charts and Helm are external.                      *)
(***************************************************************************)
EXTENDS Naturals, FiniteSets

CONSTANTS
  Components,
  CommonSpecs,   \* what the common configuration may say: component to [status, env]
  ClusterSpecs,  \* what the one of the cluster may say: the same, status "" for unset
  Bad, Unset, Absent,
  IsMember,      \* isMemberCluster
  MaxEdits,      \* (bound) edits of the configurations
  MaxFailures    \* (bound) calls that fail

ASSUME SpecsAssumption == \A config \in CommonSpecs : DOMAIN config \subseteq Components

Configs == {"common", "cluster"}
NotRunning == [at |-> "rest"]
NoResult == [status |-> "", result |-> "", message |-> ""]

VARIABLES
  spec,     \* spec[k]: the component configurations of a Hotplug, or Absent
  stat,     \* stat[k]: its Status.Results
  releases, \* releases[c]: Absent or [state, env]
  feature,  \* the feature ConfigMap: component to status; "" when unset
  hotQueue, \* the Hotplugs in the queue of the controller
  run,      \* the reconciliation
  edits, failures,
  left      \* history: a cluster configuration is gone and common was not reconciled

hotVars == <<spec, stat, releases, feature, hotQueue, run, edits, failures, left>>

HotInit ==
  /\ spec = [k \in Configs |-> Absent]
  /\ stat = [k \in Configs |-> [c \in Components |-> NoResult]]
  /\ releases = [c \in Components |-> Absent]
  /\ feature = [c \in Components |-> ""]
  /\ hotQueue = {} /\ run = NotRunning /\ edits = 0 /\ failures = 0 /\ left = FALSE

-----------------------------------------------------------------------------
(* The configuration.                                                      *)

\* MergeJson.
MergeEnv(a, b) == [x \in DOMAIN a |-> IF b[x] # 0 THEN b[x] ELSE a[x]]

\* MergeHotplug: a component of which the environments cannot be merged is left
\* out, and so is one that the common configuration does not have.
MergeHotplug(commonConfig, clusterConfig) ==
  LET own == IF clusterConfig = Absent THEN {} ELSE DOMAIN clusterConfig
      merged == {x \in own : clusterConfig[x].env # Unset}
      broken == {x \in merged \cap DOMAIN commonConfig : Bad \in {commonConfig[x].env, clusterConfig[x].env}}
  IN [c \in DOMAIN commonConfig \ broken |->
        IF c \notin own THEN commonConfig[c]
        ELSE [status |-> IF clusterConfig[c].status = "" THEN commonConfig[c].status
                         ELSE clusterConfig[c].status,
              env |-> IF c \in merged THEN MergeEnv(commonConfig[c].env, clusterConfig[c].env)
                      ELSE commonConfig[c].env]]

\* An edit, as HotplugValidator lets it pass, comes with the synchronisation from
\* the pivot cluster.  A reconciliation under way has an old version of it.
Edit(k, to) ==
  /\ edits < MaxEdits /\ to # spec[k]
  /\ edits' = edits + 1
  /\ spec' = [spec EXCEPT ![k] = to]
  /\ stat' = IF spec[k] = Absent THEN [stat EXCEPT ![k] = [c \in Components |-> NoResult]] ELSE stat
  /\ hotQueue' = hotQueue \cup {k}
  /\ run' = IF run = NotRunning THEN run ELSE [run EXCEPT !.changed = @ \cup {k}]
  /\ left' = (left \/ (k = "cluster" /\ to = Absent))
  /\ UNCHANGED <<releases, feature, failures>>

-----------------------------------------------------------------------------
(* Reconcile.                                                              *)

\* (mutant of JudgeJsonEqual: settings of the release that are asked for no more
\* are not looked at)
JudgeJsonEqualOneWay(a, b) == \A x \in DOMAIN a : a[x] # 0 => b[x] = a[x]

JudgeJsonEqual(a, b) == a = b

Failed == failures < MaxFailures /\ failures' = failures + 1
Result(c, r, m) == [status |-> run.want[c].status, result |-> r, message |-> m]

\* Both configurations are read.  Common alone is enough; the one of the cluster
\* waits for common, in the queue.
Start(k) ==
  /\ run = NotRunning /\ k \in hotQueue
  /\ IF spec[k] = Absent
     THEN hotQueue' = hotQueue \ {k} /\ UNCHANGED <<run, left>>
     ELSE /\ spec["common"] # Absent
          /\ hotQueue' = hotQueue \ {k}
          /\ LET want == MergeHotplug(spec["common"], spec["cluster"])
             IN run' = [at |-> "helm", key |-> k, want |-> want, todo |-> DOMAIN want, changed |-> {},
                        results |-> [c \in Components |-> NoResult]]
          /\ left' = (left /\ k # "common")
  /\ UNCHANGED <<spec, stat, releases, feature, edits, failures>>

Tried(c, to, r, m) ==
  /\ releases' = [releases EXCEPT ![c] = to]
  /\ run' = [run EXCEPT !.todo = @ \ {c}, !.results[c] = Result(c, r, m)]
  /\ UNCHANGED <<spec, stat, feature, hotQueue, edits, left>>

\* One component; c.Status other than enabled means disabled.  A chart that could
\* not be installed or upgraded may be there all the same, as failed and with the
\* values it was given.
Component(c) ==
  LET now == releases[c]
      want == run.want[c]
      on == want.status = "enabled"
  IN /\ run.at = "helm" /\ c \in run.todo
     /\ \/ now = Absent /\ ~on /\ Tried(c, Absent, "success", "clear") /\ UNCHANGED failures
        \/ now = Absent /\ on /\ want.env # Bad
           /\ \/ Tried(c, [state |-> "deployed", env |-> want.env], "success", "installed") /\ UNCHANGED failures
              \/ \E to \in {Absent, [state |-> "failed", env |-> want.env]} :
                   Failed /\ Tried(c, to, "fail", "install")
        \/ now # Absent /\ ~on
           /\ \/ Tried(c, Absent, "success", "uninstalled") /\ UNCHANGED failures
              \/ Failed /\ Tried(c, now, "fail", "uninstall")
        \/ on /\ want.env = Bad /\ Tried(c, now, "fail", "parse") /\ UNCHANGED failures
        \/ now # Absent /\ on /\ want.env # Bad /\ JudgeJsonEqual(want.env, now.env)
           /\ Tried(c, now, "success", IF now.state = "deployed" THEN "running" ELSE "check") /\ UNCHANGED failures
        \/ now # Absent /\ on /\ want.env # Bad /\ ~JudgeJsonEqual(want.env, now.env)
           /\ \/ Tried(c, [state |-> "deployed", env |-> want.env], "success", "upgraded") /\ UNCHANGED failures
              \/ \E to \in {now, [state |-> "failed", env |-> want.env]} :
                   Failed /\ Tried(c, to, "fail", "upgrade")

\* An error of the calls whose errors end the reconciliation: it is tried again.
GiveUp ==
  /\ run # NotRunning /\ Failed
  /\ run' = NotRunning /\ hotQueue' = hotQueue \cup {run.key}
  /\ UNCHANGED <<spec, stat, releases, feature, edits, left>>

\* updateConfigMap, in the pivot cluster.
Feature ==
  /\ run.at = "helm" /\ run.todo = {}
  /\ run' = [run EXCEPT !.at = "common"]
  /\ feature' = IF IsMember THEN feature
                ELSE [c \in Components |-> IF c \in DOMAIN run.want THEN run.want[c].status ELSE feature[c]]
  /\ UNCHANGED <<spec, stat, releases, hotQueue, edits, failures, left>>

\* (mutant of Noticed: updates of the status that change nothing are events)
NoticedAlways(k) == {k}

\* A status that differs is a change of the object, and an event.
Noticed(k) == IF stat[k] = run.results THEN {} ELSE {k}

\* The status of common is updated first; an old version ends the reconciliation.
UpdateStatus(k) ==
  /\ run.at = k
  /\ IF k \in run.changed
     THEN run' = NotRunning /\ hotQueue' = hotQueue \cup {run.key} /\ UNCHANGED stat
     ELSE /\ stat' = [stat EXCEPT ![k] = run.results]
          /\ hotQueue' = hotQueue \cup Noticed(k)
          /\ run' = IF k = "common" /\ run.key = "cluster" THEN [run EXCEPT !.at = "cluster"] ELSE NotRunning
  /\ UNCHANGED <<spec, releases, feature, edits, failures, left>>

HotStep ==
  \/ \E k \in Configs : Start(k) \/ UpdateStatus(k)
  \/ \E c \in Components : Component(c)
  \/ Feature \/ GiveUp

HotNext ==
  \/ HotStep
  \/ \E to \in CommonSpecs \cup {Absent} : Edit("common", to)
  \/ \E to \in ClusterSpecs \cup {Absent} : Edit("cluster", to)

HotSpec == HotInit /\ [][HotNext]_hotVars

-----------------------------------------------------------------------------
(* Properties.                                                             *)

Resting == run = NotRunning /\ hotQueue = {}
Wanting == IF spec["common"] = Absent THEN [c \in {} |-> 0] ELSE MergeHotplug(spec["common"], spec["cluster"])

\* At rest the releases are the ones the configurations ask for, with their
\* environments, and the feature ConfigMap says so, whatever was edited while a
\* reconciliation was under way.  The exceptions are a Helm call that failed, and
\* a configuration of the cluster that was deleted: what it asked for stays.
HotplugSettles ==
  Resting /\ failures = 0 /\ ~left =>
    \A c \in DOMAIN Wanting :
      /\ IF Wanting[c].status = "enabled"
         THEN Wanting[c].env # Bad => releases[c] = [state |-> "deployed", env |-> Wanting[c].env] ELSE releases[c] = Absent
      /\ IsMember \/ feature[c] = Wanting[c].status

\* The controller comes to rest, though each of its updates of a status is an event
\* that starts it again: unless the cluster is configured and common is not.
HotplugRests == <>[](Resting \/ spec["common"] = Absent)

\* Refuted.  A component that is recorded as a success (addSuccessResult) and is
\* enabled is deployed: a failed release with the right values is a success.
SuccessIsDeployed ==
  Resting => \A c \in Components :
    stat["common"][c].result = "success" /\ stat["common"][c].status = "enabled" /\ c \in DOMAIN Wanting =>
      releases[c] # Absent /\ releases[c].state = "deployed"

\* Refuted.  "use clusterConfig to cover commonConfig" (util.go:92): without the
\* one of the cluster common holds.  Its deletion is not reconciled.
DeletionIsFollowed ==
  Resting /\ failures = 0 => \A c \in DOMAIN Wanting :
    (Wanting[c].status = "enabled") <=> (releases[c] # Absent)
=============================================================================
