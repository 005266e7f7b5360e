CONSTANTS
  NoService = NoService
  Requests = {r1, r2}
  Services = {"web", "dns"}
  Shapes <- MCShapes
  Asks <- MCAsks
  Valid = {30, 31}
  MaxChanges = 2
  MaxAsks = 2
  Nil = Nil
  AnyLabel = "any"
  MaxPage = 2
  Layouts <- MCLayouts
  Registered <- MCRegistered
  Objects <- MCObjects
  Lists <- MCLists
  Singles <- MCSingles
  Calls <- MCCalls
  Contexts = {x1, x2}
  MaxArrivals = 2
  MaxFlips = 1
  Editors = {w1, w2}
  MaxUids = 2
  MaxEdits = 4
  Retries = 2
  Deployments <- MCDeployments
  ReplicaSets <- MCReplicaSets
  PodSpecs <- MCPodSpecs
  PodLooks <- MCPodLooks
  JobSpecs <- MCJobSpecs
  JobLooks <- MCJobLooks
SYMMETRY Symmetry
SPECIFICATION MCSpec
CHECK_DEADLOCK FALSE
INVARIANT HandledIsReported
INVARIANT EntriesLeadSomewhere
PROPERTY OthersAreKept
INVARIANT AnswersAsAsked
INVARIANT NotFoundIsStale
 
INVARIANT ExtendIsExact
