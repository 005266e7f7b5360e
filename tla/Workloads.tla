------------------------------ MODULE Workloads ------------------------------
(***************************************************************************)
(* The extend API of a cluster: ConfigMaps are created, updated and        *)
(* deleted on behalf of a user and each write is reported with the uid it  *)
(* was made to; pods, deployments and cron jobs are listed together with   *)
(* what is known of the pods and jobs they own, from caches of which each  *)
(* kind lags behind the cluster on its own.  The users are allowed to.     *)
(***************************************************************************)
EXTENDS Naturals, Sequences, FiniteSets, FiniteSetsExt

CONSTANTS
  Editors,     \* requests for the ConfigMap
  MaxUids,     \* incarnations of the ConfigMap
  MaxEdits,    \* requests of a behaviour
  Retries,     \* attempts of retry.RetryOnConflict
  Deployments, \* [uid, ns, label]
  ReplicaSets, \* [uid, owner, ns]
  PodSpecs,    \* [uid, owner, ns, label]
  PodLooks,    \* status of a pod: [phase, told, gated, inits, containers, ready, deleting]
  JobSpecs,    \* [uid, owner], owner NoText for none
  JobLooks     \* status of a job: [active, succeeded, failed, told, ended], told: it has conditions

NoText == ""

ASSUME RetriesAssumption == Retries \in Nat \ {0}

\* "Terminating" is no phase, reason or state of the cluster's, and a job ends in one
\* of two ways.
ASSUME LooksAssumption ==
  /\ IsFiniteSet(PodSpecs) /\ IsFiniteSet(JobSpecs)
  /\ \A s \in JobSpecs : s = [uid |-> s.uid, owner |-> s.owner]
  /\ \A x \in PodLooks : /\ "Terminating" \notin {x.phase, x.told}
                         /\ \A c \in DOMAIN x.containers : x.containers[c].state # "Terminating"
                         /\ DOMAIN x.containers \subseteq Nat /\ x.deleting \in BOOLEAN
  /\ \A x \in JobLooks : x.ended \in {NoText, "Complete", "Failed"}

VARIABLES
  cm,       \* the ConfigMap: [uid, rv], Missing for none
  uids, rvs, \* the last uid and the last resource version given out
  edit,     \* edit[w]: [op, pc, got, uid, tries]
  edits,    \* requests so far
  named,    \* events: [op, named, wrote]
  seenSets, seenPods, seenJobs, \* the caches: replica sets, pods and jobs with their looks
  ask       \* a request for the pods of an owner: [pc, uid, ns, owners, pods]
mapVars == <<cm, uids, rvs, edit, edits, named>>
listVars == <<seenSets, seenPods, seenJobs, ask>>
workVars == <<mapVars, listVars>>

Missing == [uid |-> 0, rv |-> 0]
Unused == [op |-> "none", pc |-> "none", got |-> Missing, uid |-> 0, tries |-> 0]
NotAsked == [pc |-> "none", uid |-> NoText, ns |-> NoText, owners |-> {}, pods |-> {}]

WorkInit ==
  /\ cm = Missing /\ uids = 0 /\ rvs = 0
  /\ edit = [w \in Editors |-> Unused] /\ edits = 0 /\ named = {}
  /\ seenSets = {} /\ seenPods = <<>> /\ seenJobs = <<>> /\ ask = NotAsked

-----------------------------------------------------------------------------
(* ConfigMaps.                                                               *)

Finish(w) == edit' = [edit EXCEPT ![w] = Unused]
SetAuditInfo(op, uid, wrote) == named' = named \cup {[op |-> op, named |-> uid, wrote |-> wrote]}

\* processReq: an update or a deletion begins.
ProcessReq(w, op) ==
  /\ edit[w] = Unused /\ edits < MaxEdits /\ edits' = edits + 1
  /\ edit' = [edit EXCEPT ![w] = [Unused EXCEPT !.op = op, !.pc = "get", !.tries = Retries]]
  /\ UNCHANGED <<cm, uids, rvs, named>>

\* processCreate: refused if the ConfigMap exists.
ProcessCreate ==
  /\ edits < MaxEdits /\ edits' = edits + 1
  /\ cm = Missing /\ uids < MaxUids
  /\ uids' = uids + 1 /\ rvs' = rvs + 1
  /\ cm' = [uid |-> uids', rv |-> rvs']
  /\ SetAuditInfo("create", uids', uids')
  /\ UNCHANGED edit

\* (mutant of UidOf: the uid is kept from the first attempt)
UidOfFirst(e) == IF e.uid = 0 THEN cm.uid ELSE e.uid

\* The uid that the event will name: every attempt takes it anew.
UidOf(e) == cm.uid

\* Both read the ConfigMap first, and fail if there is none.
GetMap(w) ==
  /\ edit[w].pc = "get"
  /\ IF cm = Missing THEN Finish(w)
     ELSE edit' = [edit EXCEPT ![w].pc = "write", ![w].got = cm, ![w].uid = UidOf(edit[w])]
  /\ UNCHANGED <<cm, uids, rvs, edits, named>>

\* processUpdate: what was read is written back with the new content; a conflict is
\* tried again from the start, any other failure ends the request.
ProcessUpdate(w) ==
  LET e == edit[w]
  IN /\ e.pc = "write" /\ e.op = "update"
     /\ \/ /\ cm = e.got
           /\ rvs' = rvs + 1 /\ cm' = [cm EXCEPT !.rv = rvs']
           /\ SetAuditInfo("update", e.uid, cm.uid) /\ Finish(w)
        \/ /\ cm # e.got
           /\ IF cm = Missing \/ e.tries = 1 THEN Finish(w)
              ELSE edit' = [edit EXCEPT ![w].pc = "get", ![w].tries = e.tries - 1]
           /\ UNCHANGED <<cm, rvs, named>>
     /\ UNCHANGED <<uids, edits>>

\* processDelete: the ConfigMap of that name is deleted, whichever it is now.
ProcessDelete(w) ==
  /\ edit[w].pc = "write" /\ edit[w].op = "delete"
  /\ \/ cm = Missing /\ UNCHANGED <<cm, named>>
     \/ cm # Missing /\ cm' = Missing /\ SetAuditInfo("delete", edit[w].uid, cm.uid)
  /\ Finish(w)
  /\ UNCHANGED <<uids, rvs, edits>>

-----------------------------------------------------------------------------
(* Pods and what owns them.                                                  *)

PodSpec(p) == CHOOSE s \in PodSpecs : s.uid = p
Within(ns, x) == ns \in {NoText, x.ns}

\* (mutant of OwnedBy: the replica sets are not filtered)
OwnedByAnyone(s, uid) == TRUE

\* The filter of getRs by owner.
OwnedBy(s, uid) == s.owner = uid

\* getRs: the replica sets of the owner join it in the condition on pods.
GetRs(uid, ns) ==
  /\ ask = NotAsked
  /\ ask' = [pc |-> "pods", uid |-> uid, ns |-> ns, pods |-> {},
             owners |-> {uid} \cup {s.uid : s \in {x \in seenSets : Within(ns, x) /\ OwnedBy(x, uid)}}]
  /\ UNCHANGED <<seenSets, seenPods, seenJobs>>

\* getPods: the cache of pods is read later than the one of replica sets.
GetPods ==
  /\ ask.pc = "pods"
  /\ ask' = [ask EXCEPT !.pc = "answered",
               !.pods = {p \in DOMAIN seenPods : Within(ask.ns, PodSpec(p)) /\ PodSpec(p).owner \in ask.owners}]
  /\ UNCHANGED <<seenSets, seenPods, seenJobs>>

HasRunning(p) == \E c \in DOMAIN p.containers : p.containers[c].state = "running" /\ p.containers[c].ready

\* GetPodReason: the phase or the reason given with it, unless a container tells more:
\* the init containers up to one that has not succeeded, or else the first container
\* that waits or has ended; a deletion overrides them all.
GetPodReason(p) ==
  LET unfinished == {c \in DOMAIN p.inits : p.inits[c] # "Completed"}
      telling == {c \in DOMAIN p.containers : p.containers[c].state # "running"}
      pod == IF p.gated THEN "SchedulingGated" ELSE IF p.told # NoText THEN p.told ELSE p.phase
      last == IF telling = {} THEN pod ELSE p.containers[Min(telling)].state
  IN IF p.deleting THEN IF p.told = "NodeLost" THEN "Unknown" ELSE "Terminating"
     ELSE IF unfinished # {} THEN "Init"
     ELSE IF last = "Completed" /\ HasRunning(p) THEN IF p.ready THEN "Running" ELSE "NotReady"
     ELSE last

\* getPodByDeployment: by label, in the namespace of the request.
GetPodByDeployment(d, ns) ==
  {p \in DOMAIN seenPods : Within(ns, PodSpec(p)) /\ PodSpec(p).label = d.label}

Counted == {"Succeeded", "Running", "Pending", "Failed"}

\* getDeployExtendInfo: the pods by phase; any other phase counts as unknown.
GetDeployExtendInfo(d, ns) ==
  [phase \in Counted \cup {"Unknown"} |->
     Cardinality({p \in GetPodByDeployment(d, ns) :
       seenPods[p].phase = phase \/ (phase = "Unknown" /\ seenPods[p].phase \notin Counted)})]

-----------------------------------------------------------------------------
(* Jobs and cron jobs.                                                       *)

ParseJobStatus(j) ==
  IF j.ended # NoText THEN j.ended
  ELSE IF ~j.told /\ 0 \in {j.active, j.succeeded, j.failed} THEN "Pending" ELSE "Running"

\* getOwnerJobs: the jobs that have an owner, by the first one.
GetOwnerJobs(uid) == {j \in DOMAIN seenJobs : uid # NoText /\ [uid |-> j, owner |-> uid] \in JobSpecs}

\* addExtendInfo of a cron job: how many of its jobs run.
RunningJobCount(uid) == Cardinality({j \in GetOwnerJobs(uid) : ParseJobStatus(seenJobs[j]) = "Running"})

-----------------------------------------------------------------------------
(* The informers (external): each cache is brought up to date on its own.    *)

SeeSet(s) ==
  /\ seenSets' = IF s \in seenSets THEN seenSets \ {s} ELSE seenSets \cup {s}
  /\ UNCHANGED <<seenPods, seenJobs, ask>>

Seen(cache, x, looks) ==
  {[y \in DOMAIN cache \cup {x} |-> IF y = x THEN look ELSE cache[y]] : look \in looks}
    \cup {[y \in DOMAIN cache \ {x} |-> cache[y]]}

SeePod(p) == seenPods' \in Seen(seenPods, p, PodLooks) /\ UNCHANGED <<seenSets, seenJobs, ask>>
SeeJob(j) == seenJobs' \in Seen(seenJobs, j, JobLooks) /\ UNCHANGED <<seenSets, seenPods, ask>>

Owners == {d.uid : d \in Deployments} \cup {s.uid : s \in ReplicaSets}

MapNext ==
  \/ ProcessCreate
  \/ \E w \in Editors, op \in {"update", "delete"} : ProcessReq(w, op)
  \/ \E w \in Editors : GetMap(w)
  \/ \E w \in Editors : ProcessUpdate(w)
  \/ \E w \in Editors : ProcessDelete(w)

ListNext ==
  \/ \E uid \in Owners, ns \in {NoText, "n1"} : GetRs(uid, ns)
  \/ GetPods
  \/ \E s \in ReplicaSets : SeeSet(s)
  \/ \E s \in PodSpecs : SeePod(s.uid)

JobNext == \E s \in JobSpecs : SeeJob(s.uid)

WorkNext == \/ MapNext /\ UNCHANGED listVars
            \/ (ListNext \/ JobNext) /\ UNCHANGED mapVars

WorkSpec == WorkInit /\ [][WorkNext]_workVars

-----------------------------------------------------------------------------
(* Properties.                                                               *)

\* An event of a creation or an update names the ConfigMap that was written, also
\* when the one of the first attempt was deleted and created again meanwhile.
WrittenIsNamed == \A e \in named : e.op # "delete" => e.named = e.wrote

\* Whatever the caches have missed and however they move between the two listings, the
\* pods listed for an owner are its own or those of its replica sets.
PodsAreOwned ==
  \A p \in ask.pods : \/ PodSpec(p).owner = ask.uid
                      \/ \E s \in ReplicaSets : s.uid = PodSpec(p).owner /\ s.owner = ask.uid

\* No pod is counted twice or not at all; a pod that runs is not shown as completed,
\* and one that is not under deletion not as terminating.
PodsAreTold ==
  /\ \A d \in Deployments : \A ns \in {NoText, "n1"} :
       LET n == GetDeployExtendInfo(d, ns)
       IN n["Succeeded"] + n["Running"] + n["Pending"] + n["Failed"] + n["Unknown"]
            = Cardinality(GetPodByDeployment(d, ns))
  /\ \A p \in DOMAIN seenPods :
       /\ HasRunning(seenPods[p]) => GetPodReason(seenPods[p]) # "Completed"
       /\ GetPodReason(seenPods[p]) = "Terminating" => seenPods[p].deleting

\* No job that has ended is counted for its cron job, and none of another's.
JobsAreCounted ==
  \A uid \in {j.owner : j \in JobSpecs} :
    RunningJobCount(uid) <= Cardinality({j \in JobSpecs : /\ j.owner = uid /\ j.uid \in DOMAIN seenJobs
                                                         /\ seenJobs[j.uid].ended = NoText})

\* What the extend API reports and lists is what was written and what is owned, through
\* retries, re-creations and caches that move between two reads (processUpdate, getRs,
\* getPods, getDeployExtendInfo, GetPodReason, addExtendInfo).
ExtendIsExact == WrittenIsNamed /\ PodsAreOwned /\ PodsAreTold /\ JobsAreCounted

\* Refuted: the event of a deletion names what was deleted (configmap.go:173).
DeletedIsNamed == \A e \in named : e.op = "delete" => e.named = e.wrote

\* Refuted.  "get podList by deployment, return real pod list" (deployment.go:166):
\* in a request without a namespace, pods with the labels of another's are counted.
CountsAreOwn ==
  \A d \in Deployments : \A p \in GetPodByDeployment(d, NoText) :
    \E s \in ReplicaSets : s.uid = PodSpec(p).owner /\ s.owner = d.uid

\* Refuted: a job with a pod that runs is shown as running (job.go:126).
ActiveIsRunning ==
  \A j \in DOMAIN seenJobs :
    seenJobs[j].active > 0 /\ seenJobs[j].ended = NoText => ParseJobStatus(seenJobs[j]) = "Running"
=============================================================================
