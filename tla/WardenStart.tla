----------------------------- MODULE WardenStart -----------------------------
(***************************************************************************)
(* How a warden starts and connects to the pivot cluster: the components   *)
(* are initialised and run, the reporter waits until each has answered its *)
(* readiness check, creates the Cluster of its own cluster and sends       *)
(* heartbeats from then on. Any error before that ends the process, and    *)
(* its pod starts a new one (external).                                    *)
(***************************************************************************)
EXTENDS Naturals, FiniteSets

CONSTANTS
  Parts,      \* components with a readiness check: "server", "local", and "sync" in a member
  MaxTries,   \* attempts of registerIfNeed: one in 3 seconds, for 15
  MaxMishaps  \* failures, crashes, outages and deletions

ASSUME PartsAssumption == IsFiniteSet(Parts) /\ {"server", "local"} \subseteq Parts
ASSUME TriesAssumption == MaxTries \in Nat \ {0}

VARIABLES
  step,       \* of the process: "down", "wait", "register" or "report"
  up,         \* components that answer their check
  asking,     \* components whose check goroutine runs
  counts,     \* answers waitForReady still expects
  tries,      \* attempts registerIfNeed has left
  pivotUp,    \* the pivot cluster can be reached
  registered, \* the Cluster exists in the pivot cluster
  known,      \* the multi-cluster manager of the pivot cluster has it
  listening,  \* the server accepts connections
  connected,  \* Reporter.pivotHealthy
  answered,   \* history: components that were found ready by this process
  mishaps
startVars == <<step, up, asking, counts, tries, pivotUp, registered, known, listening, connected, answered, mishaps>>

pivot == <<pivotUp, registered, known>>

StartInit ==
  /\ step = "down" /\ up = {} /\ asking = {} /\ counts = 0 /\ tries = 0
  /\ pivotUp \in BOOLEAN /\ registered = FALSE /\ known = FALSE
  /\ listening = FALSE /\ connected = FALSE /\ answered = {}
  /\ mishaps = 0

Mishap == mishaps < MaxMishaps /\ mishaps' = mishaps + 1

\* Fatal: everything in the process is gone.
Fatal ==
  /\ step' = "down" /\ up' = {} /\ asking' = {} /\ counts' = 0 /\ tries' = 0
  /\ listening' = FALSE /\ connected' = FALSE /\ answered' = {}

\* makePivotClient: the client finds out what the pivot cluster serves.
MakePivotClient == pivotUp

\* NewWardenWithOpts: without the client there is no warden.
NewWarden == MakePivotClient

\* Initialize registers the checks, and Run starts all components and, last, the
\* reporter.
Boot ==
  /\ step = "down" /\ NewWarden
  /\ step' = "wait" /\ asking' = Parts /\ counts' = Cardinality(Parts)
  /\ UNCHANGED <<up, tries, pivot, listening, connected, answered, mishaps>>

\* A component becomes ready.
BecomesReady(c) ==
  /\ step # "down" /\ c \in Parts \ up
  /\ up' = up \cup {c}
  /\ UNCHANGED <<step, asking, counts, tries, pivot, listening, connected, answered, mishaps>>

\* The managers serve the probe that their checks call.
RunLocal == BecomesReady("local")
RunSync == BecomesReady("sync")

\* Server.Run sets a mark, whether or not the listener it started comes up.
RunServer == BecomesReady("server")

Listens ==
  /\ "server" \in up /\ ~listening /\ listening' = TRUE
  /\ UNCHANGED <<step, up, asking, counts, tries, pivot, connected, answered, mishaps>>

\* (mutant of Asked: the goroutine keeps asking)
AskedAgain(c) == asking

\* readyzCheck: the goroutine reports that the component is ready, and ends.
Asked(c) == asking \ {c}

\* waitForReady: the reporter goes on after as many answers as there are checks.
ReadyzCheck(c) ==
  /\ step = "wait" /\ c \in asking \cap up
  /\ asking' = Asked(c) /\ counts' = counts - 1 /\ answered' = answered \cup {c}
  /\ IF counts = 1 THEN step' = "register" /\ tries' = MaxTries ELSE UNCHANGED <<step, tries>>
  /\ UNCHANGED <<up, pivot, listening, connected, mishaps>>

\* The components took longer than WaitSecond.
WaitTimesOut == step = "wait" /\ Mishap /\ Fatal /\ UNCHANGED pivot

\* The last attempt failed, or there is another one.
Retry ==
  IF tries = 1 THEN Fatal
  ELSE tries' = tries - 1 /\ UNCHANGED <<step, up, asking, counts, listening, connected, answered>>

BeginReports == step' = "report" /\ tries' = 0 /\ UNCHANGED <<up, asking, counts, listening, connected, answered>>

\* (mutant of Registered: only a Cluster made by this process counts)
RegisteredNew(err) == err = "none"

\* The results of Create that end the polling.
Registered(err) == err \in {"none", "exists"}

\* registerIfNeed: one attempt to create the Cluster; the reply may be lost.
RegisterIfNeed ==
  /\ step = "register"
  /\ \E err \in {"none", "exists", "lost", "refused"} :
       /\ err \in {"none", "lost"} => pivotUp /\ ~registered
       /\ err = "exists" => pivotUp /\ registered
       /\ registered' = (registered \/ err \in {"none", "lost"})
       /\ IF err = "lost" \/ (err = "refused" /\ pivotUp) THEN Mishap ELSE UNCHANGED mishaps
       /\ IF Registered(err) THEN BeginReports ELSE Retry
  /\ UNCHANGED <<pivotUp, known>>

\* report: the heartbeat is accepted when the pivot cluster knows the cluster.
Accepted == pivotUp /\ known

Report ==
  /\ step = "report"
  /\ connected' = Accepted
  /\ UNCHANGED <<step, up, asking, counts, tries, pivot, listening, answered, mishaps>>

\* A component fails to start or serve, or the process is killed.
Crash == step # "down" /\ Mishap /\ Fatal /\ UNCHANGED pivot

PivotFlips ==
  /\ Mishap /\ pivotUp' = ~pivotUp
  /\ UNCHANGED <<step, up, asking, counts, tries, registered, known, listening, connected, answered>>

ClusterDeleted ==
  /\ pivotUp /\ registered /\ Mishap /\ registered' = FALSE
  /\ UNCHANGED <<step, up, asking, counts, tries, pivotUp, known, listening, connected, answered>>

\* The pivot cluster takes the Cluster over, or drops it.
PivotSyncs ==
  /\ pivotUp /\ known # registered /\ known' = registered
  /\ UNCHANGED <<step, up, asking, counts, tries, pivotUp, registered, listening, connected, answered, mishaps>>

Running == RunLocal \/ RunSync \/ RunServer
Starting == Boot \/ Running \/ (\E c \in Parts : ReadyzCheck(c)) \/ RegisterIfNeed

StartNext ==
  \/ Boot \/ RunLocal \/ RunSync \/ RunServer \/ Listens \/ (\E c \in Parts : ReadyzCheck(c))
  \/ WaitTimesOut \/ RegisterIfNeed \/ Report
  \/ Crash \/ PivotFlips \/ ClusterDeleted \/ PivotSyncs

StartSpec == StartInit /\ [][StartNext]_startVars

-----------------------------------------------------------------------------
(* Properties.                                                               *)

\* The cluster is registered, and heartbeats are sent, only after every component
\* of this process was found ready ("wait all components ready", reporter.go:118):
\* no component answers twice and stands for another one.
AllWereReady == step \in {"register", "report"} => answered = Parts

\* When the pivot cluster stays reachable and comes to know every Cluster that is
\* registered, the warden ends up connected, whatever crashes, timeouts and lost
\* replies it met before; unless its Cluster was deleted while it ran (Reporter.Run,
\* registerIfNeed).  That the pivot cluster does so is not granted: it is the subject
\* of MultiCluster and ClusterController.
Reconnects ==
  <>[]pivotUp /\ <>[](registered => known)
    => <>[](connected \/ (step = "report" /\ ~registered))

\* Refuted: then all of them serve ("all components ready, try to connect with pivot
\* cluster", reporter.go:100): the server's mark is set before it listens.
AllServe == step \in {"register", "report"} => listening

\* Refuted: a warden that reports is in the control plane ("ensure cluster %v in
\* control plane success", reporter.go:106): it does not register again.
StaysRegistered == <>[]pivotUp => <>[](step = "report" /\ registered)
=============================================================================
