--------------------------- MODULE ExternalAccess ---------------------------
(***************************************************************************)
(* External access to services: the two ConfigMaps of the ingress          *)
(* controller that lead external ports to services                         *)
(* (pkg/apiserver/cubeapi/resourcemanage/resources/service) and the        *)
(* controller of the warden that follows the services                      *)
(* (pkg/warden/localmgr/controllers/service).                              *)
(*                                                                         *)
(* Both change the maps by the same code.  The API server reads the API    *)
(* server of the cluster, the warden its cache; an update is refused when  *)
(* the map has changed since the version that was read.                    *)
(***************************************************************************)
EXTENDS Naturals, Sequences, FiniteSets, SequencesExt

CONSTANTS
  Requests,     \* the requests that may be served at the same time
  Services,     \* ns/name of services
  Shapes,       \* Shapes[s]: the ports s may have: sets of [name, proto, port]
  Asks,         \* what is asked for: sequences of [ext, port, proto]
  Valid,        \* the external ports SetExternalAccess takes: 1..65535 but 80 and 443
  NoService,
  MaxChanges,   \* (bound) changes of services
  MaxAsks       \* (bound) requests

ASSUME ServicesAssumption ==
  /\ Services # {} /\ \A s \in Services : Shapes[s] # {}
  /\ "warden" \notin Requests

\* What the API server of Kubernetes admits as a service: the ports have names of
\* their own, and no number twice for a protocol.
ASSUME ShapesAssumption ==
  \A s \in Services :
    /\ NoService \notin Shapes[s]
    /\ \A x \in Shapes[s] :
         /\ IsFiniteSet(x)
         /\ \A p, q \in x : (p.name = q.name \/ (p.proto = q.proto /\ p.port = q.port)) => p = q

Protos == {"TCP", "UDP"}
Writers == Requests \cup {"warden"}
Nothing == [e \in {} |-> 0]
NoJob == [phase |-> "idle"]

VARIABLES
  services,    \* the ports of the services, or NoService
  seenSvc,     \* the same in the cache of the warden
  maps,        \* maps[proto]: external ports to <<service, port>>
  seenMaps,    \* the same in the cache of the warden
  events,      \* the updates and deletions the informer has yet to hand over
  jobs,        \* jobs[w]: the change a writer is at
  turns,       \* <<changes, requests>>
  raced        \* history: a service changed under a request, a port came into both maps,
               \* the warden was late or refused, or a request was refused half done

accessVars == <<services, seenSvc, maps, seenMaps, events, jobs, turns, raced>>

AccessInit ==
  /\ services = [s \in Services |-> CHOOSE x \in Shapes[s] : TRUE]
  /\ seenSvc = services
  /\ maps = [k \in Protos |-> Nothing] /\ seenMaps = maps
  /\ events = <<>> /\ jobs = [w \in Writers |-> NoJob]
  /\ turns = <<0, 0>> /\ raced = FALSE

-----------------------------------------------------------------------------
(* SetExternalAccess.                                                      *)

\* The entries of a map without the ones of a service.
Cleared(data, s) == [e \in {x \in DOMAIN data : data[x][1] # s} |-> data[e]]

\* (mutant of Accepted: the service is not asked for its ports)
AcceptedAnyPort(want, ports, s, read) ==
  \A i \in DOMAIN want :
    /\ want[i].proto \in Protos /\ want[i].ext \in Valid
    /\ \A k \in Protos : want[i].ext \notin DOMAIN Cleared(read[k], s)
    /\ \A j \in 1..(i - 1) : want[j].ext # want[i].ext

\* Every entry asked for leads to a port of the service, for a protocol there is a map
\* for, and no external port is in use, be it by an entry before or in either map.
Accepted(want, ports, s, read) ==
  \A i \in DOMAIN want :
    /\ \E p \in ports : p.proto = want[i].proto /\ p.port = want[i].port
    /\ want[i].proto \in Protos /\ want[i].ext \in Valid
    /\ \A k \in Protos : want[i].ext \notin DOMAIN Cleared(read[k], s)
    /\ \A j \in 1..(i - 1) : want[j].ext # want[i].ext

\* What a map is to hold: the entries of others and the ones asked for.
Wanted(k, want, s, read) ==
  LET mine == {i \in DOMAIN want : want[i].proto = k}
      others == Cleared(read[k], s)
  IN [e \in DOMAIN others \cup {want[i].ext : i \in mine} |->
        IF e \in DOMAIN others THEN others[e]
        ELSE <<s, want[CHOOSE i \in mine : want[i].ext = e].port>>]

\* The maps, and the service, as a writer reads them: directly or in the cache.
MapAt(w, k) == IF w \in Requests THEN maps[k] ELSE seenMaps[k]
ServiceAt(w, s) == IF w \in Requests THEN services[s] ELSE seenSvc[s]

\* A read of the cache is out of date when the map is another one by now.
Changed(w, k) == IF MapAt(w, k) = maps[k] THEN {} ELSE {k}

Started(s, ports, want) ==
  [phase |-> "tcp", svc |-> s, ports |-> ports, want |-> want,
   read |-> [k \in Protos |-> Nothing], changed |-> {}]

Done(w) == jobs' = [jobs EXCEPT ![w] = NoJob]

\* The maps are read one after the other; then everything is checked.
ReadTcp(w) ==
  /\ jobs[w].phase = "tcp"
  /\ jobs' = [jobs EXCEPT ![w] = [@ EXCEPT !.phase = "udp", !.read["TCP"] = MapAt(w, "TCP"),
                                           !.changed = Changed(w, "TCP")]]
  /\ UNCHANGED <<services, seenSvc, maps, seenMaps, events, turns, raced>>

ReadUdp(w) ==
  LET j == [jobs[w] EXCEPT !.phase = "write", !.read["UDP"] = MapAt(w, "UDP"),
                           !.changed = (@ \ {"UDP"}) \cup Changed(w, "UDP")]
  IN /\ jobs[w].phase = "udp"
     /\ IF Accepted(j.want, j.ports, j.svc, j.read)
        THEN jobs' = [jobs EXCEPT ![w] = j] ELSE Done(w)
     /\ UNCHANGED <<services, seenSvc, maps, seenMaps, events, turns, raced>>

\* (mutant of Fresh: the version is not sent with the update)
FreshAny(w, k) == TRUE

\* The resource version of the update is the one of the map.
Fresh(w, k) == k \notin jobs[w].changed

\* An update of a map; one without a difference makes no new version.  The one of
\* the TCP map comes first: when it is refused the other is not tried.
WriteMap(w, k, phase, next) ==
  LET j == jobs[w]
      data == Wanted(k, j.want, j.svc, j.read)
  IN /\ j.phase = phase
     /\ IF Fresh(w, k)
        THEN /\ maps' = [maps EXCEPT ![k] = data]
             /\ jobs' = [v \in Writers |->
                  IF v = w THEN IF next = "idle" THEN NoJob ELSE [j EXCEPT !.phase = next]
                  ELSE IF jobs[v] = NoJob \/ data = maps[k] THEN jobs[v]
                  ELSE [jobs[v] EXCEPT !.changed = @ \cup {k}]]
             /\ raced' = (raced \/ (w \in Requests /\ j.ports # services[j.svc])
                                 \/ DOMAIN maps'["TCP"] \cap DOMAIN maps'["UDP"] # {})
        ELSE Done(w) /\ raced' = (raced \/ w = "warden" \/ k = "UDP") /\ UNCHANGED maps
     /\ UNCHANGED <<services, seenSvc, seenMaps, events, turns>>

WriteTcp(w) == WriteMap(w, "TCP", "write", "last")
WriteUdp(w) == WriteMap(w, "UDP", "last", "idle")

\* ExternalHandle: the service is read, and the ports are tried as node ports of a
\* service that is not really created; the cluster may refuse them.
SetExternalAccess(w, s, want) ==
  /\ jobs[w].phase = "idle" /\ turns[2] < MaxAsks
  /\ turns' = <<turns[1], turns[2] + 1>>
  /\ jobs' = [jobs EXCEPT ![w] = IF services[s] = NoService THEN NoJob
                                     ELSE Started(s, services[s], want)]
  /\ UNCHANGED <<services, seenSvc, maps, seenMaps, events, raced>>

\* getExternalAccess: one external port for every port of the service that has
\* one; of several, any.
GetExternalAccess(s, data) ==
  LET used == {data[e][2] : e \in {x \in DOMAIN data : data[x][1] = s}}
  IN {f \in [used -> DOMAIN data] : \A p \in used : data[f[p]] = <<s, p>>}

-----------------------------------------------------------------------------
(* The services, and the controller that follows them.                     *)

ChangeService(s, to) ==
  /\ turns[1] < MaxChanges
  /\ turns' = <<turns[1] + 1, turns[2]>>
  /\ services' = [services EXCEPT ![s] = to]
  /\ events' = IF services[s] = NoService THEN events
               ELSE Append(events, [svc |-> s, old |-> services[s], new |-> to])
  /\ UNCHANGED <<seenSvc, maps, seenMaps, jobs, raced>>

DeliverServices ==
  /\ seenSvc # services /\ seenSvc' = services
  /\ UNCHANGED <<services, maps, seenMaps, events, jobs, turns, raced>>

DeliverMaps ==
  /\ seenMaps # maps /\ seenMaps' = maps
  /\ UNCHANGED <<services, seenSvc, maps, events, jobs, turns, raced>>

\* handleTcpInfo and handleUdpInfo: the entry of a port goes to the port that has
\* its name now; it keeps the protocol of the entry.
Moved(proto, old, new, info) ==
  {[ext |-> info[x[1].port], port |-> x[2].port, proto |-> "TCP"] :
     x \in {y \in old \X new :
       /\ y[1].port \in DOMAIN info
       /\ y[1].proto = proto /\ y[2].proto = proto /\ y[1].name = y[2].name}}

\* OnServiceUpdate looks for the entries first.  What was found for TCP is moved
\* for both protocols.
OnServiceUpdate(ev) ==
  \E tcp \in GetExternalAccess(ev.svc, seenMaps["TCP"]),
     udp \in GetExternalAccess(ev.svc, seenMaps["UDP"]) :
    LET want == SetToSeq(Moved("TCP", ev.old, ev.new, tcp)) \o SetToSeq(Moved("UDP", ev.old, ev.new, tcp))
    IN jobs' = [jobs EXCEPT !["warden"] =
                  IF (DOMAIN tcp = {} /\ DOMAIN udp = {}) \/ seenSvc[ev.svc] = NoService THEN NoJob
                  ELSE Started(ev.svc, seenSvc[ev.svc], want)]

\* The informer hands over one event at a time.
HandleEvent ==
  /\ events # <<>> /\ jobs["warden"].phase = "idle"
  /\ LET ev == Head(events)
     IN /\ events' = Tail(events)
        /\ IF ev.new = NoService
           THEN jobs' = [jobs EXCEPT !["warden"] = Started(ev.svc, {}, <<>>)]
           ELSE OnServiceUpdate(ev)
        /\ raced' = (raced \/ seenMaps # maps \/ seenSvc[ev.svc] \notin {ev.new, services[ev.svc]})
  /\ UNCHANGED <<services, seenSvc, maps, seenMaps, turns>>

\* The cluster has another use for a node port.
DryRunFails(w) ==
  /\ jobs[w].phase = "tcp" /\ jobs[w].want # <<>>
  /\ Done(w) /\ raced' = (raced \/ w = "warden")
  /\ UNCHANGED <<services, seenSvc, maps, seenMaps, events, turns>>

AccessNext ==
  \/ \E s \in Services : (\E w \in Requests, want \in Asks : SetExternalAccess(w, s, want))
                         \/ (\E to \in Shapes[s] \cup {NoService} : ChangeService(s, to))
  \/ \E w \in Writers : ReadTcp(w) \/ ReadUdp(w) \/ WriteTcp(w) \/ WriteUdp(w) \/ DryRunFails(w)
  \/ DeliverServices \/ DeliverMaps \/ HandleEvent

AccessSpec == AccessInit /\ [][AccessNext]_accessVars

-----------------------------------------------------------------------------
(* Properties.                                                             *)

\* Whoever changes the maps, at whatever time they were read, changes entries of
\* one service only: no entry of another is lost or brought back.
OthersAreKept ==
  [][\E s \in Services : \A k \in Protos : Cleared(maps'[k], s) = Cleared(maps[k], s)]_accessVars

OneProtocolEach(s) ==
  \A x, y \in Shapes[s] : \A p \in x, q \in y : p.port = q.port => p.proto = q.proto

\* When all events have been handled every entry leads to a port a service has:
\* services that change faster than their events are handled included.  The
\* exceptions are a change that met a race (it is not tried again), a request that
\* was refused with one of its maps written (the caller is told), an external port
\* in both maps (the warden's change of its service is refused as a conflict), and a
\* service with one number for both protocols, at a time or one after the other (an
\* entry for TCP is moved as the one for UDP it never was).
EntriesLeadSomewhere ==
  (events = <<>> /\ (\A w \in Writers : jobs[w] = NoJob) /\ ~raced) =>
    \A k \in Protos : \A e \in DOMAIN maps[k] :
      LET s == maps[k][e][1]
      IN /\ services[s] # NoService
         /\ OneProtocolEach(s) => \E p \in services[s] : p.proto = k /\ p.port = maps[k][e][2]

\* Refuted.  "the external port conflict" (externalaccess.go:213-218): an external
\* port is in one of the maps only.  Two requests that read the maps before either
\* has written can both have it, one in each map.
PortsAreDistinct == DOMAIN maps["TCP"] \cap DOMAIN maps["UDP"] = {}

\* Refuted.  "update service port" (service_controller.go:76): what is open stays
\* open when the service changes.  The entries for UDP are dropped, as the ones for
\* TCP are handed to handleUdpInfo in their place.
UdpIsKept ==
  [][\A e \in DOMAIN maps["UDP"] : jobs["warden"].phase = "last" => e \in DOMAIN maps'["UDP"]]_accessVars
=============================================================================
