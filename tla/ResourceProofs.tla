--------------------------- MODULE ResourceProofs ---------------------------
(***************************************************************************)
(* The resource API: that a change of the external ports leaves the        *)
(* entries of other services alone, and that the entries lead to ports     *)
(* services have once their changes are handled; that the proxy answers in the version  *)
(* it is asked in, refuses no version that is there, and returns, page by  *)
(* page, the selection; that the extend API reports and lists what was     *)
(* written and what is owned.  The three parts share no state.             *)
(***************************************************************************)
EXTENDS ExternalAccess, Proxy, Workloads, FiniteSetTheorems, WellFoundedInduction, TLAPS

-----------------------------------------------------------------------------
(* External access.  A writer changes a map on the content it has read; the  *)
(* update is refused unless nobody has changed the map since.                *)

Ports == (UNION {Shapes[s] : s \in Services}) \cup {NoService}
Events == [svc : Services, old : Ports, new : Ports]

\* A change of the maps that has begun.
Job(j) ==
  /\ DOMAIN j = {"phase", "svc", "ports", "want", "read", "changed"}
  /\ j.phase \in {"tcp", "udp", "write", "last"}
  /\ j.svc \in Services /\ DOMAIN j.read = Protos /\ j.changed \in SUBSET Protos

\* A map that was read and not yet written is the map there is, unless the job
\* knows it has changed.
UpToDate(j, m) ==
  /\ j.phase \in {"udp", "write"} /\ "TCP" \notin j.changed => j.read["TCP"] = m["TCP"]
  /\ j.phase \in {"write", "last"} /\ "UDP" \notin j.changed => j.read["UDP"] = m["UDP"]

AccessInv ==
  /\ services \in [Services -> Ports]
  /\ DOMAIN maps = Protos
  /\ events \in Seq(Events)
  /\ DOMAIN jobs = Writers
  /\ \A w \in Writers : jobs[w] = NoJob \/ (Job(jobs[w]) /\ UpToDate(jobs[w], maps))

\* What a map is to hold has the entries of the other services that were read.
LEMMA WantedKeepsOthers ==
  ASSUME NEW k \in Protos, NEW want, NEW s, NEW read
  PROVE  Cleared(Wanted(k, want, s, read), s) = Cleared(read[k], s)
<1>. DEFINE others == Cleared(read[k], s)
            data == Wanted(k, want, s, read)
<1>1. \A e \in DOMAIN others : e \in DOMAIN data /\ data[e] = others[e] /\ data[e][1] # s
  BY DEF Wanted, Cleared
<1>2. \A e \in DOMAIN data : e \notin DOMAIN others => data[e][1] = s
  BY DEF Wanted
<1>3. {e \in DOMAIN data : data[e][1] # s} = DOMAIN others
  BY <1>1, <1>2
<1>4. others = [e \in DOMAIN others |-> others[e]]
  BY DEF Cleared
<1>5. Cleared(data, s) = [e \in DOMAIN others |-> data[e]]
  BY <1>3 DEF Cleared
<1>. QED
  BY <1>1, <1>4, <1>5

\* A job that begins has read nothing.
LEMMA StartedIsJob ==
  ASSUME NEW s \in Services, NEW ports, NEW want
  PROVE  Job(Started(s, ports, want)) /\ UpToDate(Started(s, ports, want), maps)
  BY DEF Started, Job, UpToDate

\* Steps that leave the maps alone, and change one job at most.
LEMMA JobMoves ==
  ASSUME AccessInv, maps' = maps, services' \in [Services -> Ports], events' \in Seq(Events),
         NEW w \in Writers, NEW j, jobs' = [jobs EXCEPT ![w] = j],
         j = NoJob \/ (Job(j) /\ UpToDate(j, maps))
  PROVE  AccessInv'
<1>1. /\ DOMAIN jobs' = Writers
      /\ \A v \in Writers : jobs'[v] = IF v = w THEN j ELSE jobs[v]
  BY DEF AccessInv
<1>. QED
  BY <1>1 DEF AccessInv, UpToDate

\* A map is read: what was read is what there is, or the job knows better.
LEMMA ReadTcpKeeps ==
  ASSUME AccessInv, NEW w \in Writers, ReadTcp(w)
  PROVE  AccessInv'
<1>. DEFINE j == [jobs[w] EXCEPT !.phase = "udp", !.read["TCP"] = MapAt(w, "TCP"),
                                 !.changed = Changed(w, "TCP")]
<1>1. jobs[w].phase = "tcp" /\ jobs' = [jobs EXCEPT ![w] = j]
  BY DEF ReadTcp, AccessInv
<1>2. Job(jobs[w])
  BY <1>1 DEF AccessInv, NoJob
<1>3. /\ DOMAIN j = DOMAIN jobs[w] /\ j.phase = "udp" /\ j.svc = jobs[w].svc
      /\ DOMAIN j.read = Protos /\ j.read["TCP"] = MapAt(w, "TCP")
      /\ j.changed = Changed(w, "TCP")
  BY <1>2 DEF Job, Protos
<1>4. Job(j) /\ UpToDate(j, maps)
  BY <1>2, <1>3 DEF Job, UpToDate, Changed, Protos
<1>. QED
  BY <1>1, <1>4, JobMoves DEF ReadTcp, AccessInv

\* The second map is read, or what is asked for is refused: nothing is written.
LEMMA ReadUdpKeeps ==
  ASSUME AccessInv, NEW w \in Writers, ReadUdp(w)
  PROVE  AccessInv'
<1>. DEFINE j == [jobs[w] EXCEPT !.phase = "write", !.read["UDP"] = MapAt(w, "UDP"),
                                 !.changed = (@ \ {"UDP"}) \cup Changed(w, "UDP")]
<1>1. jobs[w].phase = "udp" /\ (jobs' = [jobs EXCEPT ![w] = j] \/ jobs' = [jobs EXCEPT ![w] = NoJob])
  BY DEF ReadUdp, Done
<1>2. Job(jobs[w]) /\ UpToDate(jobs[w], maps)
  BY <1>1 DEF AccessInv, NoJob
<1>3. /\ DOMAIN j = DOMAIN jobs[w] /\ j.phase = "write" /\ j.svc = jobs[w].svc
      /\ DOMAIN j.read = Protos /\ j.read["UDP"] = MapAt(w, "UDP")
      /\ j.read["TCP"] = jobs[w].read["TCP"]
      /\ j.changed = (jobs[w].changed \ {"UDP"}) \cup Changed(w, "UDP")
  BY <1>2 DEF Job, Protos
<1>4. Job(j) /\ UpToDate(j, maps)
  BY <1>1, <1>2, <1>3 DEF Job, UpToDate, Changed, Protos
<1>. QED
  BY <1>1, <1>4, JobMoves DEF ReadUdp, AccessInv

\* A map is written by the one who has it up to date; everybody else who has read it
\* knows that it has changed, if it has.
LEMMA WriteKeeps ==
  ASSUME AccessInv, NEW w \in Writers, WriteTcp(w) \/ WriteUdp(w)
  PROVE  /\ AccessInv'
         /\ maps' # maps =>
              \E k \in Protos : /\ k \notin jobs[w].changed /\ jobs[w].read[k] = maps[k]
                                /\ jobs[w].svc \in Services
                                /\ maps' = [maps EXCEPT ![k] = Wanted(k, jobs[w].want, jobs[w].svc, jobs[w].read)]
<1>1. PICK k \in Protos, at \in {"write", "last"}, next \in {"last", "idle"} :
        /\ WriteMap(w, k, at, next)
        /\ at = "write" => k = "TCP" /\ next = "last"
        /\ at = "last" => k = "UDP" /\ next = "idle"
  BY DEF WriteTcp, WriteUdp, Protos
<1>. DEFINE j == jobs[w]
            data == Wanted(k, j.want, j.svc, j.read)
<1>2. /\ j.phase = at /\ UNCHANGED <<services, events>>
      /\ \/ /\ Fresh(w, k) /\ maps' = [maps EXCEPT ![k] = data]
            /\ jobs' = [v \in Writers |->
                 IF v = w THEN IF next = "idle" THEN NoJob ELSE [j EXCEPT !.phase = next]
                 ELSE IF jobs[v] = NoJob \/ data = maps[k] THEN jobs[v]
                 ELSE [jobs[v] EXCEPT !.changed = @ \cup {k}]]
         \/ jobs' = [jobs EXCEPT ![w] = NoJob] /\ maps' = maps
  BY <1>1 DEF WriteMap, Done
<1>3. Job(j) /\ UpToDate(j, maps)
  BY <1>1, <1>2 DEF AccessInv, NoJob
<1>4. CASE jobs' = [jobs EXCEPT ![w] = NoJob] /\ maps' = maps
  BY <1>2, <1>4, JobMoves DEF AccessInv
<1>5. CASE /\ Fresh(w, k) /\ maps' = [maps EXCEPT ![k] = data]
           /\ jobs' = [v \in Writers |->
                IF v = w THEN IF next = "idle" THEN NoJob ELSE [j EXCEPT !.phase = next]
                ELSE IF jobs[v] = NoJob \/ data = maps[k] THEN jobs[v]
                ELSE [jobs[v] EXCEPT !.changed = @ \cup {k}]]
  <2>1. k \notin j.changed /\ j.read[k] = maps[k] /\ j.svc \in Services
    BY <1>1, <1>2, <1>3, <1>5 DEF Fresh, UpToDate, Job
  <2>2. /\ DOMAIN maps' = Protos /\ DOMAIN jobs' = Writers
        /\ \A q \in Protos : maps'[q] = IF q = k THEN data ELSE maps[q]
    BY <1>5 DEF AccessInv
  <2>3. ASSUME NEW v \in Writers
        PROVE  jobs'[v] = NoJob \/ (Job(jobs'[v]) /\ UpToDate(jobs'[v], maps'))
    <3>1. CASE v = w /\ next = "idle"
      BY <1>5, <3>1
    <3>2. CASE v = w /\ next = "last"
      <4>1. /\ k = "TCP" /\ jobs'[v].phase = "last" /\ DOMAIN jobs'[v] = DOMAIN j
            /\ jobs'[v].read = j.read /\ jobs'[v].changed = j.changed /\ jobs'[v].svc = j.svc
        BY <1>1, <1>3, <1>5, <3>2 DEF Job
      <4>2. j.phase = "write" /\ maps'["UDP"] = maps["UDP"]
        BY <1>1, <1>2, <2>2, <4>1, <3>2 DEF Protos
      <4>. QED
        BY <1>3, <4>1, <4>2 DEF Job, UpToDate
    <3>3. CASE v # w /\ (jobs[v] = NoJob \/ data = maps[k])
      <4>1. jobs'[v] = jobs[v]
        BY <1>5, <3>3
      <4>2. CASE jobs[v] = NoJob
        BY <4>1, <4>2
      <4>3. CASE jobs[v] # NoJob /\ data = maps[k]
        <5>1. maps'["TCP"] = maps["TCP"] /\ maps'["UDP"] = maps["UDP"]
          BY <2>2, <4>3 DEF Protos
        <5>. QED
          BY <4>1, <4>3, <5>1 DEF AccessInv, UpToDate
      <4>. QED
        BY <3>3, <4>2, <4>3
    <3>4. CASE v # w /\ jobs[v] # NoJob /\ data # maps[k]
      <4>1. Job(jobs[v]) /\ UpToDate(jobs[v], maps)
        BY <3>4 DEF AccessInv
      <4>2. jobs'[v] = [jobs[v] EXCEPT !.changed = @ \cup {k}]
        BY <1>5, <3>4
      <4>3. /\ DOMAIN jobs'[v] = DOMAIN jobs[v] /\ jobs'[v].phase = jobs[v].phase
            /\ jobs'[v].read = jobs[v].read /\ jobs'[v].changed = jobs[v].changed \cup {k}
            /\ jobs'[v].svc = jobs[v].svc
        BY <4>1, <4>2 DEF Job
      <4>4. Job(jobs'[v])
        BY <4>1, <4>3 DEF Job
      <4>5. UpToDate(jobs'[v], maps')
        BY <2>2, <4>1, <4>3 DEF UpToDate, Protos
      <4>. QED
        BY <4>4, <4>5
    <3>. QED
      BY <1>1, <3>1, <3>2, <3>3, <3>4
  <2>4. AccessInv'
    BY <1>2, <2>2, <2>3 DEF AccessInv
  <2>. QED
    BY <1>5, <2>1, <2>4
<1>. QED
  BY <1>2, <1>4, <1>5

\* A request begins.
LEMMA AskKeeps ==
  ASSUME AccessInv, NEW w \in Requests, NEW s \in Services, NEW want, SetExternalAccess(w, s, want)
  PROVE  AccessInv'
<1>1. PICK j : jobs' = [jobs EXCEPT ![w] = j] /\ (j = NoJob \/ j = Started(s, services[s], want))
  BY DEF SetExternalAccess
<1>2. w \in Writers
  BY DEF Writers
<1>. QED
  BY <1>1, <1>2, StartedIsJob, JobMoves DEF SetExternalAccess, AccessInv

\* A service changes, and its event joins the others.
LEMMA ChangeKeeps ==
  ASSUME AccessInv, NEW s \in Services, NEW to \in Shapes[s] \cup {NoService}, ChangeService(s, to)
  PROVE  AccessInv'
<1>1. to \in Ports /\ services[s] \in Ports
  BY DEF Ports, AccessInv
<1>2. services' \in [Services -> Ports]
  BY <1>1 DEF ChangeService, AccessInv
<1>3. [svc |-> s, old |-> services[s], new |-> to] \in Events
  BY <1>1 DEF Events
<1>4. events' \in Seq(Events)
  BY <1>3 DEF ChangeService, AccessInv
<1>. QED
  BY <1>2, <1>4 DEF ChangeService, AccessInv, UpToDate

\* The warden takes up an event.
LEMMA EventKeeps ==
  ASSUME AccessInv, HandleEvent
  PROVE  AccessInv'
<1>1. /\ events # <<>> /\ events \in Seq(Events) /\ events' = Tail(events)
      /\ UNCHANGED <<services, maps>>
  BY DEF HandleEvent, AccessInv
<1>2. Head(events) \in Events /\ events' \in Seq(Events)
  BY <1>1
<1>3. Head(events).svc \in Services
  BY <1>2 DEF Events
<1>4. PICK j : /\ jobs' = [jobs EXCEPT !["warden"] = j]
               /\ j = NoJob \/ \E ports, want : j = Started(Head(events).svc, ports, want)
  <2>1. CASE Head(events).new = NoService
    BY <2>1 DEF HandleEvent
  <2>2. CASE Head(events).new # NoService
    <3>1. OnServiceUpdate(Head(events))
      BY <2>2 DEF HandleEvent
    <3>. QED
      BY <3>1 DEF OnServiceUpdate
  <2>. QED
    BY <2>1, <2>2
<1>5. "warden" \in Writers
  BY DEF Writers
<1>6. j = NoJob \/ (Job(j) /\ UpToDate(j, maps))
  BY <1>3, <1>4, StartedIsJob
<1>. QED
  BY <1>1, <1>2, <1>4, <1>5, <1>6, JobMoves DEF AccessInv

\* A writer whose dry run is refused is done.
LEMMA DryRunKeeps ==
  ASSUME AccessInv, NEW w \in Writers, DryRunFails(w)
  PROVE  AccessInv'
  BY JobMoves DEF DryRunFails, Done, AccessInv

\* The caches get newer; no map changes.
LEMMA CachesKeep ==
  ASSUME AccessInv, DeliverServices \/ DeliverMaps \/ UNCHANGED accessVars
  PROVE  AccessInv' /\ maps' = maps
  BY DEF DeliverServices, DeliverMaps, accessVars, AccessInv, UpToDate

\* Every step keeps the invariant, and writes a map that was up to date if it writes one.
LEMMA AccessStep ==
  ASSUME AccessInv, [AccessNext]_accessVars
  PROVE  /\ AccessInv'
         /\ \/ maps' = maps
            \/ \E w \in Writers, k \in Protos :
                 /\ jobs[w].svc \in Services /\ jobs[w].read[k] = maps[k]
                 /\ maps' = [maps EXCEPT ![k] = Wanted(k, jobs[w].want, jobs[w].svc, jobs[w].read)]
<1>1. ASSUME NEW s \in Services, NEW w \in Requests, NEW want \in Asks, SetExternalAccess(w, s, want)
      PROVE  AccessInv' /\ maps' = maps
  BY <1>1, AskKeeps DEF SetExternalAccess
<1>2. ASSUME NEW s \in Services, NEW to \in Shapes[s] \cup {NoService}, ChangeService(s, to)
      PROVE  AccessInv' /\ maps' = maps
  BY <1>2, ChangeKeeps DEF ChangeService
<1>3. ASSUME NEW w \in Writers, ReadTcp(w) \/ ReadUdp(w) \/ DryRunFails(w)
      PROVE  AccessInv' /\ maps' = maps
  BY <1>3, ReadTcpKeeps, ReadUdpKeeps, DryRunKeeps DEF ReadTcp, ReadUdp, DryRunFails
<1>4. ASSUME HandleEvent
      PROVE  AccessInv' /\ maps' = maps
  BY <1>4, EventKeeps DEF HandleEvent
<1>5. CASE DeliverServices \/ DeliverMaps \/ UNCHANGED accessVars
  BY <1>5, CachesKeep
<1>6. CASE \E w \in Writers : WriteTcp(w) \/ WriteUdp(w)
  BY <1>6, WriteKeeps
<1>. QED
  BY <1>1, <1>2, <1>3, <1>4, <1>5, <1>6 DEF AccessNext

\* The services have their first shape and nobody writes.
LEMMA AccessStart ==
  ASSUME AccessInit
  PROVE  AccessInv
<1>1. \A s \in Services : (CHOOSE x \in Shapes[s] : TRUE) \in Ports
  BY ServicesAssumption DEF Ports
<1>. QED
  BY <1>1 DEF AccessInit, AccessInv

\* Whoever changes the maps, on however old a reading, changes entries of one service
\* only (SetExternalAccess of the API server and of the warden).
THEOREM OnlyOwnEntries == AccessSpec => OthersAreKept
<1>1. ASSUME AccessInv, [AccessNext]_accessVars
      PROVE  [\E s \in Services : \A k \in Protos : Cleared(maps'[k], s) = Cleared(maps[k], s)]_accessVars
  <2>1. CASE maps' = maps
    BY <2>1, ServicesAssumption
  <2>2. ASSUME NEW w \in Writers, NEW k \in Protos, jobs[w].svc \in Services,
               jobs[w].read[k] = maps[k],
               maps' = [maps EXCEPT ![k] = Wanted(k, jobs[w].want, jobs[w].svc, jobs[w].read)]
        PROVE  \E s \in Services : \A q \in Protos : Cleared(maps'[q], s) = Cleared(maps[q], s)
    <3>1. \A q \in Protos : maps'[q] = IF q = k THEN Wanted(k, jobs[w].want, jobs[w].svc, jobs[w].read) ELSE maps[q]
      BY <1>1, <2>2 DEF AccessInv
    <3>2. Cleared(maps'[k], jobs[w].svc) = Cleared(maps[k], jobs[w].svc)
      BY <2>2, <3>1, WantedKeepsOthers
    <3>. QED
      BY <2>2, <3>1, <3>2
  <2>. QED
    BY <1>1, <2>1, <2>2, AccessStep
<1>2. AccessInv /\ [AccessNext]_accessVars => AccessInv'
  BY AccessStep
<1>. QED
  BY <1>1, <1>2, AccessStart, PTL DEF AccessSpec, OthersAreKept

-----------------------------------------------------------------------------
(* External access, when it has come to rest.  While nothing has raced, a    *)
(* service is followed: an event of it is still to be handled, or its        *)
(* entries are right already, or the warden is about to set them right and   *)
(* will not be refused.                                                      *)

LeadsTo(ports, proto, port) == \E p \in ports : p.proto = proto /\ p.port = port
Owns(s, e, data) == e \in DOMAIN data /\ data[e][1] = s
Pending(s) == \E i \in DOMAIN events : events[i].svc = s

\* The services have shapes they may have, in both caches and in the events.
ShapesKnown ==
  /\ DOMAIN services = Services /\ DOMAIN seenSvc = Services /\ DOMAIN seenMaps = Protos
  /\ \A s \in Services : /\ services[s] \in Shapes[s] \cup {NoService}
                         /\ seenSvc[s] \in Shapes[s] \cup {NoService}
  /\ \A i \in DOMAIN events : /\ events[i].old \in Shapes[events[i].svc]
                              /\ events[i].new \in Shapes[events[i].svc] \cup {NoService}

\* Every entry leads to a port its service has, or has had or may yet have.
EntriesKnown ==
  \A k \in Protos : \A e \in DOMAIN maps[k] :
    /\ e \in Valid /\ maps[k][e][1] \in Services
    /\ \E x \in Shapes[maps[k][e][1]] : LeadsTo(x, k, maps[k][e][2])

\* A change is for the ports its writer has read; what is written was checked.
JobKnown(w, j) ==
  /\ j.ports \in Shapes[j.svc] \/ (w = "warden" /\ DOMAIN j.want = {})
  /\ j.phase \in {"write", "last"} =>
       \A i \in DOMAIN j.want : j.want[i].ext \in Valid /\ LeadsTo(j.ports, j.want[i].proto, j.want[i].port)

JobsKnown == \A w \in Writers : jobs[w] # NoJob => JobKnown(w, jobs[w])

\* The last event of a service tells what it is, or that it was deleted: a service
\* that is created again makes none.
LastEvents ==
  \A i \in DOMAIN events :
    (\A h \in DOMAIN events : h > i => events[h].svc # events[i].svc)
      => events[i].new \in {services[events[i].svc], NoService}

Known == ShapesKnown /\ EntriesKnown /\ JobsKnown /\ LastEvents /\ raced \in BOOLEAN

Apart(m) == DOMAIN m["TCP"] \cap DOMAIN m["UDP"] = {}

\* What EntriesLeadSomewhere asks of an entry, of the entries of a service in a map, and
\* of the entries the warden is about to write.
Right(s, k, port) == services[s] # NoService /\ (OneProtocolEach(s) => LeadsTo(services[s], k, port))

Good(s, k) == \A e \in DOMAIN maps[k] : maps[k][e][1] = s => Right(s, k, maps[k][e][2])

AimsRight(s) ==
  LET j == jobs["warden"]
  IN (j # NoJob /\ j.svc = s) => \A i \in DOMAIN j.want : Right(s, j.want[i].proto, j.want[i].port)

\* A request has written the TCP map for the service as it is, and comes to the other.
HalfDone(s) ==
  \E w \in Requests : /\ jobs[w] # NoJob /\ jobs[w].phase = "last"
                      /\ jobs[w].svc = s /\ jobs[w].ports = services[s]

Settled(s) == Good(s, "TCP") /\ (Good(s, "UDP") \/ HalfDone(s))

\* What the warden asks for has not been checked yet and will be accepted: the external
\* ports are distinct, and are the service's own in the TCP map, wherever it is read.
Accepting(j) ==
  \A i \in DOMAIN j.want :
    /\ j.want[i].ext \in Valid /\ j.want[i].proto \in Protos
    /\ LeadsTo(j.ports, j.want[i].proto, j.want[i].port)
    /\ \A h \in 1..(i - 1) : j.want[h].ext # j.want[i].ext
    /\ Owns(j.svc, j.want[i].ext, maps["TCP"]) /\ Owns(j.svc, j.want[i].ext, seenMaps["TCP"])
    /\ j.phase = "udp" => Owns(j.svc, j.want[i].ext, j.read["TCP"])

Attended(s) ==
  LET j == jobs["warden"]
  IN /\ j # NoJob /\ j.svc = s
     /\ j.phase \in {"tcp", "udp"} => Accepting(j)
     /\ j.phase = "last" => Good(s, "TCP")

Followed(s) == Pending(s) \/ (AimsRight(s) /\ (Settled(s) \/ Attended(s)))

FollowInv ==
  /\ Known
  /\ ~raced => Apart(maps) /\ Apart(seenMaps) /\ \A s \in Services : Followed(s)

\* Once something has raced it has.
LEMMA RacedStays ==
  ASSUME [AccessNext]_accessVars, FollowInv, ~raced'
  PROVE  ~raced
<1>1. CASE \E s \in Services : (\E w \in Requests, want \in Asks : SetExternalAccess(w, s, want))
                         \/ (\E to \in Shapes[s] \cup {NoService} : ChangeService(s, to))
  BY <1>1 DEF SetExternalAccess, ChangeService
<1>2. CASE \E w \in Writers : ReadTcp(w) \/ ReadUdp(w) \/ DryRunFails(w)
  BY <1>2 DEF ReadTcp, ReadUdp, DryRunFails
<1>3. CASE \E w \in Writers : WriteTcp(w) \/ WriteUdp(w)
  BY <1>3 DEF WriteTcp, WriteUdp, WriteMap
<1>4. CASE DeliverServices \/ DeliverMaps \/ HandleEvent \/ UNCHANGED accessVars
  BY <1>4 DEF DeliverServices, DeliverMaps, HandleEvent, accessVars
<1>. QED
  BY <1>1, <1>2, <1>3, <1>4 DEF AccessNext

\* What a map holds after a change: the entries of others as they were, and the
\* ones that were asked for.
LEMMA WantedEntries ==
  ASSUME NEW k \in Protos, NEW want, NEW s, NEW read
  PROVE  /\ \A e \in DOMAIN Wanted(k, want, s, read) :
              \/ /\ e \in DOMAIN read[k] /\ read[k][e][1] # s
                 /\ Wanted(k, want, s, read)[e] = read[k][e]
              \/ \E i \in DOMAIN want :
                   /\ want[i].proto = k /\ want[i].ext = e
                   /\ Wanted(k, want, s, read)[e] = <<s, want[i].port>>
         /\ \A e \in DOMAIN read[k] :
              read[k][e][1] # s => e \in DOMAIN Wanted(k, want, s, read)
                                   /\ Wanted(k, want, s, read)[e] = read[k][e]
<1>. DEFINE others == Cleared(read[k], s)
            data == Wanted(k, want, s, read)
            mine == {i \in DOMAIN want : want[i].proto = k}
<1>1. /\ DOMAIN others = {x \in DOMAIN read[k] : read[k][x][1] # s}
      /\ \A e \in DOMAIN others : others[e] = read[k][e]
  BY DEF Cleared
<1>2. /\ DOMAIN data = DOMAIN others \cup {want[i].ext : i \in mine}
      /\ \A e \in DOMAIN data :
           data[e] = IF e \in DOMAIN others THEN others[e]
                     ELSE <<s, want[CHOOSE i \in mine : want[i].ext = e].port>>
  BY DEF Wanted
<1>3. ASSUME NEW e \in DOMAIN data, e \notin DOMAIN others
      PROVE  \E i \in DOMAIN want : want[i].proto = k /\ want[i].ext = e /\ data[e] = <<s, want[i].port>>
  <2>. DEFINE i == CHOOSE h \in mine : want[h].ext = e
  <2>1. i \in mine /\ want[i].ext = e
    BY <1>2, <1>3
  <2>. QED
    BY <1>2, <1>3, <2>1
<1>. HIDE DEF data, others, mine
<1>4. \A e \in DOMAIN data :
        \/ e \in DOMAIN read[k] /\ read[k][e][1] # s /\ data[e] = read[k][e]
        \/ \E i \in DOMAIN want : want[i].proto = k /\ want[i].ext = e /\ data[e] = <<s, want[i].port>>
  BY <1>1, <1>2, <1>3
<1>5. \A e \in DOMAIN read[k] : read[k][e][1] # s => e \in DOMAIN data /\ data[e] = read[k][e]
  BY <1>1, <1>2
<1>. QED
  BY <1>4, <1>5 DEF data

\* One step has changed a map for one service.
Wrote(k, s, want) ==
  /\ \A q \in Protos : q # k => maps'[q] = maps[q]
  /\ \A e \in DOMAIN maps'[k] :
       \/ e \in DOMAIN maps[k] /\ maps[k][e][1] # s /\ maps'[k][e] = maps[k][e]
       \/ \E i \in DOMAIN want :
            want[i].proto = k /\ want[i].ext = e /\ maps'[k][e] = <<s, want[i].port>>
  /\ \A e \in DOMAIN maps[k] : maps[k][e][1] # s => e \in DOMAIN maps'[k] /\ maps'[k][e] = maps[k][e]

\* The job of another, when a map is written.
SameJob(v) ==
  IF jobs[v] = NoJob THEN jobs'[v] = NoJob
  ELSE /\ jobs'[v] # NoJob
       /\ jobs'[v].phase = jobs[v].phase /\ jobs'[v].svc = jobs[v].svc /\ jobs'[v].ports = jobs[v].ports
       /\ jobs'[v].want = jobs[v].want /\ jobs'[v].read = jobs[v].read

\* What an update that is not refused does.
Update(w, k) ==
  LET j == jobs[w]
  IN /\ j # NoJob /\ j.svc \in Services /\ j.phase \in {"write", "last"}
     /\ Wrote(k, j.svc, j.want)
     /\ \A v \in Writers : v # w => SameJob(v)
     /\ k = "TCP" => /\ jobs'[w] # NoJob /\ jobs'[w].phase = "last" /\ jobs'[w].svc = j.svc
                     /\ jobs'[w].ports = j.ports /\ jobs'[w].want = j.want
                     /\ j.phase = "write"
     /\ k = "UDP" => jobs'[w] = NoJob /\ j.phase = "last"
     /\ ~raced' => /\ w \in Requests => j.ports = services[j.svc]
                   /\ Apart(maps)'

\* A job has a phase of its own, and so is none that is idle.
LEMMA JobHasPhase ==
  ASSUME NEW j, Job(j) PROVE j # NoJob
  BY DEF Job, NoJob

\* An update is refused, or it writes for its service and nothing else.
LEMMA WriteOutcomes ==
  ASSUME AccessInv, NEW w \in Writers, NEW k \in Protos, NEW at \in {"write", "last"},
         NEW next \in {"last", "idle"}, WriteMap(w, k, at, next),
         at = "write" => k = "TCP" /\ next = "last",
         at = "last" => k = "UDP" /\ next = "idle"
  PROVE  \/ /\ jobs' = [jobs EXCEPT ![w] = NoJob] /\ maps' = maps
            /\ jobs[w] # NoJob
            /\ ~raced' => w \in Requests /\ k = "TCP" /\ jobs[w].phase = "write"
         \/ Update(w, k)
<1>. DEFINE j == jobs[w]
            data == Wanted(k, j.want, j.svc, j.read)
<1>1. Job(j) /\ UpToDate(j, maps) /\ j.phase = at
  BY DEF AccessInv, NoJob, WriteMap
<1>2. CASE Fresh(w, k)
  <2>1. /\ maps' = [maps EXCEPT ![k] = data]
        /\ jobs' = [v \in Writers |->
              IF v = w THEN IF next = "idle" THEN NoJob ELSE [j EXCEPT !.phase = next]
              ELSE IF jobs[v] = NoJob \/ data = maps[k] THEN jobs[v]
              ELSE [jobs[v] EXCEPT !.changed = @ \cup {k}]]
        /\ raced' = (raced \/ (w \in Requests /\ j.ports # services[j.svc])
                           \/ DOMAIN maps'["TCP"] \cap DOMAIN maps'["UDP"] # {})
    BY <1>2 DEF WriteMap
  <2>2. j.read[k] = maps[k]
    BY <1>1, <1>2 DEF Fresh, UpToDate
  <2>3. maps'[k] = data /\ \A q \in Protos : q # k => maps'[q] = maps[q]
    BY <2>1 DEF AccessInv
  <2>4. Wrote(k, j.svc, j.want)
    BY <2>2, <2>3, WantedEntries DEF Wrote
  <2>5. ASSUME NEW v \in Writers, v # w
        PROVE  SameJob(v)
    <3>1. CASE jobs[v] = NoJob
      BY <2>1, <2>5, <3>1 DEF SameJob
    <3>2. CASE jobs[v] # NoJob
      <4>1. Job(jobs[v])
        BY <3>2 DEF AccessInv
      <4>2. jobs'[v] = jobs[v] \/ jobs'[v] = [jobs[v] EXCEPT !.changed = @ \cup {k}]
        BY <2>1, <2>5, <3>2
      <4>3. CASE jobs'[v] = jobs[v]
        BY <3>2, <4>3 DEF SameJob
      <4>4. CASE jobs'[v] = [jobs[v] EXCEPT !.changed = @ \cup {k}]
        <5>1. /\ DOMAIN jobs'[v] = DOMAIN jobs[v] /\ jobs'[v].phase = jobs[v].phase /\ jobs'[v].svc = jobs[v].svc
              /\ jobs'[v].ports = jobs[v].ports /\ jobs'[v].want = jobs[v].want /\ jobs'[v].read = jobs[v].read
          BY <4>1, <4>4 DEF Job
        <5>2. jobs'[v] # NoJob
          BY <4>1, <5>1 DEF Job, NoJob
        <5>. QED
          BY <3>2, <5>1, <5>2 DEF SameJob
      <4>. QED
        BY <4>2, <4>3, <4>4
    <3>. QED
      BY <3>1, <3>2
  <2>6. CASE at = "write"
    <3>1. jobs'[w] = [j EXCEPT !.phase = "last"]
      BY <2>1, <2>6
    <3>2. /\ DOMAIN jobs'[w] = DOMAIN j /\ jobs'[w].phase = "last" /\ jobs'[w].svc = j.svc
          /\ jobs'[w].ports = j.ports /\ jobs'[w].want = j.want
      BY <1>1, <3>1 DEF Job
    <3>3. jobs'[w] # NoJob /\ j # NoJob
      BY <1>1, <3>2 DEF Job, NoJob
    <3>. QED
      BY <1>1, <2>1, <2>4, <2>5, <2>6, <3>2, <3>3 DEF Update, Job, Apart
  <2>7. CASE at = "last"
    <3>1. jobs'[w] = NoJob /\ j # NoJob
      BY <1>1, <2>1, <2>7, JobHasPhase
    <3>. QED
      BY <1>1, <2>1, <2>4, <2>5, <2>7, <3>1 DEF Update, Job, Apart
  <2>. QED
    BY <2>6, <2>7
<1>3. CASE ~Fresh(w, k)
  <2>1. jobs' = [jobs EXCEPT ![w] = NoJob] /\ maps' = maps /\ raced' = (raced \/ w = "warden" \/ k = "UDP")
    BY <1>3 DEF WriteMap, Done
  <2>. QED
    BY <1>1, <2>1, JobHasPhase DEF Writers, Protos
<1>. QED
  BY <1>2, <1>3

-----------------------------------------------------------------------------
(* What is known whether or not anything has raced.                        *)

\* Steps that leave the maps and one job at most as they are.
LEMMA KnownJobMoves ==
  ASSUME AccessInv, Known, maps' = maps, UNCHANGED <<services, events>>,
         DOMAIN seenSvc' = Services, \A s \in Services : seenSvc'[s] \in Shapes[s] \cup {NoService},
         DOMAIN seenMaps' = Protos, raced' \in BOOLEAN,
         NEW w \in Writers, NEW j, jobs' = [jobs EXCEPT ![w] = j], j = NoJob \/ JobKnown(w, j)
  PROVE  Known'
<1>1. \A v \in Writers : jobs'[v] = IF v = w THEN j ELSE jobs[v]
  BY DEF AccessInv
<1>2. JobsKnown'
  BY <1>1 DEF Known, JobsKnown, JobKnown, LeadsTo
<1>3. EntriesKnown'
  BY DEF Known, EntriesKnown
<1>4. LastEvents'
  BY DEF Known, LastEvents
<1>5. ShapesKnown'
  BY DEF Known, ShapesKnown
<1>. QED
  BY <1>2, <1>3, <1>4, <1>5 DEF Known

\* A writer reads the maps; the entries asked for are checked before one is written.
LEMMA KnownRead ==
  ASSUME AccessInv, Known, NEW w \in Writers, ReadTcp(w) \/ ReadUdp(w) \/ DryRunFails(w)
  PROVE  Known'
<1>1. /\ UNCHANGED <<services, seenSvc, maps, seenMaps, events>> /\ raced' \in BOOLEAN
      /\ jobs[w].phase \in {"tcp", "udp"}
  BY DEF ReadTcp, ReadUdp, DryRunFails, Known
<1>2. Job(jobs[w]) /\ JobKnown(w, jobs[w])
  BY <1>1 DEF AccessInv, NoJob, Known, JobsKnown
<1>3. CASE jobs' = [jobs EXCEPT ![w] = NoJob]
  BY <1>1, <1>3, KnownJobMoves DEF Known, ShapesKnown
<1>4. CASE ReadTcp(w)
  <2>. DEFINE j == [jobs[w] EXCEPT !.phase = "udp", !.read["TCP"] = MapAt(w, "TCP"),
                                   !.changed = Changed(w, "TCP")]
  <2>1. jobs' = [jobs EXCEPT ![w] = j]
    BY <1>4 DEF ReadTcp
  <2>2. j.phase = "udp" /\ j.svc = jobs[w].svc /\ j.ports = jobs[w].ports /\ j.want = jobs[w].want
    BY <1>2 DEF Job
  <2>3. JobKnown(w, j)
    BY <1>2, <2>2 DEF JobKnown
  <2>. QED
    BY <1>1, <2>1, <2>3, KnownJobMoves DEF Known, ShapesKnown
<1>5. CASE ReadUdp(w) /\ jobs' # [jobs EXCEPT ![w] = NoJob]
  <2>. DEFINE j == [jobs[w] EXCEPT !.phase = "write", !.read["UDP"] = MapAt(w, "UDP"),
                                   !.changed = (@ \ {"UDP"}) \cup Changed(w, "UDP")]
  <2>1. jobs' = [jobs EXCEPT ![w] = j] /\ Accepted(j.want, j.ports, j.svc, j.read)
    BY <1>5 DEF ReadUdp, Done
  <2>2. j.phase = "write" /\ j.svc = jobs[w].svc /\ j.ports = jobs[w].ports /\ j.want = jobs[w].want
    BY <1>2 DEF Job
  <2>3. JobKnown(w, j)
    BY <1>2, <2>1, <2>2 DEF JobKnown, Accepted, LeadsTo
  <2>. QED
    BY <1>1, <2>1, <2>3, KnownJobMoves DEF Known, ShapesKnown
<1>. QED
  BY <1>3, <1>4, <1>5 DEF DryRunFails, Done

\* What is written leads to ports a service had.
LEMMA KnownWrite ==
  ASSUME AccessInv, Known, NEW w \in Writers, NEW k \in Protos, Update(w, k),
         UNCHANGED <<services, seenSvc, seenMaps, events>>, raced' \in BOOLEAN
  PROVE  Known'
<1>. DEFINE j == jobs[w]
<1>1. /\ Wrote(k, j.svc, j.want) /\ j # NoJob /\ j.phase \in {"write", "last"}
      /\ j.svc \in Services
  BY DEF Update
<1>2. JobKnown(w, j)
  BY <1>1 DEF Known, JobsKnown
<1>3. EntriesKnown'
  <2>1. ASSUME NEW e \in DOMAIN maps'[k]
        PROVE  /\ e \in Valid /\ maps'[k][e][1] \in Services
               /\ \E x \in Shapes[maps'[k][e][1]] : LeadsTo(x, k, maps'[k][e][2])
    <3>1. CASE e \in DOMAIN maps[k] /\ maps'[k][e] = maps[k][e]
      BY <3>1 DEF Known, EntriesKnown
    <3>2. CASE \E i \in DOMAIN j.want :
            j.want[i].proto = k /\ j.want[i].ext = e /\ maps'[k][e] = <<j.svc, j.want[i].port>>
      <4>1. PICK i \in DOMAIN j.want :
              j.want[i].proto = k /\ j.want[i].ext = e /\ maps'[k][e] = <<j.svc, j.want[i].port>>
        BY <3>2
      <4>2. e \in Valid /\ LeadsTo(j.ports, k, j.want[i].port) /\ j.ports \in Shapes[j.svc]
        BY <1>1, <1>2, <4>1 DEF JobKnown
      <4>. QED
        BY <1>1, <4>1, <4>2
    <3>. QED
      BY <1>1, <3>1, <3>2 DEF Wrote
  <2>. QED
    <3>. SUFFICES ASSUME NEW q \in Protos, NEW e \in DOMAIN maps'[q]
                  PROVE  /\ e \in Valid /\ maps'[q][e][1] \in Services
                         /\ \E x \in Shapes[maps'[q][e][1]] : LeadsTo(x, q, maps'[q][e][2])
      BY DEF EntriesKnown, LeadsTo
    <3>1. q = k \/ maps'[q] = maps[q]
      BY <1>1 DEF Wrote
    <3>. QED
      BY <2>1, <3>1 DEF Known, EntriesKnown
<1>4. JobsKnown'
  <2>1. ASSUME NEW v \in Writers, jobs'[v] # NoJob
        PROVE  JobKnown(v, jobs'[v])
    <3>1. /\ jobs[v] # NoJob /\ jobs'[v].ports = jobs[v].ports /\ jobs'[v].svc = jobs[v].svc
          /\ jobs'[v].want = jobs[v].want
          /\ jobs'[v].phase \in {"write", "last"} => jobs[v].phase \in {"write", "last"}
      BY <2>1 DEF Update, SameJob, Protos
    <3>. QED
      BY <3>1 DEF Known, JobsKnown, JobKnown
  <2>. QED
    BY <2>1 DEF JobsKnown, JobKnown, LeadsTo
<1>. QED
  BY <1>3, <1>4 DEF Known, ShapesKnown, LastEvents

\* The events are a sequence, each of one service.
LEMMA EventsAreRead ==
  ASSUME AccessInv
  PROVE  /\ Len(events) \in Nat /\ DOMAIN events = 1..Len(events)
         /\ \A i \in DOMAIN events : events[i].svc \in Services
<1>1. /\ Len(events) \in Nat /\ DOMAIN events = 1..Len(events)
      /\ \A i \in 1..Len(events) : events[i] \in Events
  BY DEF AccessInv
<1>. QED
  BY <1>1 DEF Events

\* A service changes: its event is the last.
LEMMA KnownChange ==
  ASSUME AccessInv, Known, NEW s \in Services, NEW to \in Shapes[s] \cup {NoService},
         ChangeService(s, to)
  PROVE  Known'
<1>1. /\ services' = [services EXCEPT ![s] = to] /\ UNCHANGED <<seenSvc, maps, seenMaps, jobs, raced>>
      /\ events' = IF services[s] = NoService THEN events
                   ELSE Append(events, [svc |-> s, old |-> services[s], new |-> to])
  BY DEF ChangeService
<1>2. /\ DOMAIN services' = Services /\ \A q \in Services : services'[q] = IF q = s THEN to ELSE services[q]
  BY <1>1 DEF Known, ShapesKnown
<1>3. EntriesKnown' /\ JobsKnown'
  BY <1>1 DEF Known, EntriesKnown, JobsKnown, JobKnown
<1>4. CASE services[s] = NoService
  <2>1. events' = events
    BY <1>1, <1>4
  <2>4. LastEvents'
    BY <1>2, <1>4, <2>1, EventsAreRead DEF Known, LastEvents
  <2>5. ShapesKnown'
    BY <1>1, <1>2, <2>1 DEF Known, ShapesKnown
  <2>. QED
    BY <1>1, <1>3, <2>4, <2>5 DEF Known
<1>5. CASE services[s] # NoService
  <2>. DEFINE ev == [svc |-> s, old |-> services[s], new |-> to]
  <2>1. events' = Append(events, ev) /\ events \in Seq(Events)
    BY <1>1, <1>5 DEF AccessInv
  <2>2. /\ Len(events) \in Nat /\ DOMAIN events = 1..Len(events) /\ DOMAIN events' = 1..(Len(events) + 1)
        /\ \A i \in DOMAIN events : events'[i] = events[i] /\ events[i].svc \in Services
        /\ events'[Len(events) + 1] = ev
    <3>1. Len(events) \in Nat /\ DOMAIN events = 1..Len(events)
      BY EventsAreRead
    <3>2. /\ DOMAIN events' = 1..(Len(events) + 1) /\ events'[Len(events) + 1] = ev
          /\ \A i \in 1..Len(events) : events'[i] = events[i]
      BY <2>1, <3>1
    <3>. QED
      BY <3>1, <3>2, EventsAreRead
  <2>3. ASSUME NEW i \in DOMAIN events',
               \A h \in DOMAIN events' : h > i => events'[h].svc # events'[i].svc
        PROVE  events'[i].new \in {services'[events'[i].svc], NoService}
    <3>1. CASE i = Len(events) + 1
      BY <1>2, <2>2, <3>1
    <3>2. CASE i # Len(events) + 1
      <4>1. i \in DOMAIN events /\ Len(events) + 1 > i /\ Len(events) + 1 \in DOMAIN events'
        BY <2>2, <3>2
      <4>2. events[i].svc # s
        BY <2>2, <2>3, <4>1
      <4>3. \A h \in DOMAIN events : h > i => events[h].svc # events[i].svc
        BY <2>2, <2>3, <4>1
      <4>4. events[i].new \in {services[events[i].svc], NoService}
        BY <4>1, <4>3 DEF Known, LastEvents
      <4>. QED
        BY <1>2, <2>2, <4>1, <4>2, <4>4
    <3>. QED
      BY <3>1, <3>2
  <2>4. LastEvents'
    BY <2>3 DEF LastEvents
  <2>5. services[s] \in Shapes[s]
    BY <1>5 DEF Known, ShapesKnown
  <2>6. ASSUME NEW i \in DOMAIN events'
        PROVE  events'[i].old \in Shapes[events'[i].svc] /\ events'[i].new \in Shapes[events'[i].svc] \cup {NoService}
    <3>1. CASE i = Len(events) + 1
      BY <2>2, <2>5, <3>1
    <3>2. CASE i # Len(events) + 1
      BY <2>2, <3>2 DEF Known, ShapesKnown
    <3>. QED
      BY <3>1, <3>2
  <2>7. ShapesKnown'
    BY <1>1, <1>2, <2>6 DEF Known, ShapesKnown
  <2>. QED
    BY <1>1, <1>3, <2>4, <2>7 DEF Known
<1>. QED
  BY <1>4, <1>5

\* The warden takes up the first event; the others stay what they are.
LEMMA KnownEvent ==
  ASSUME AccessInv, Known, HandleEvent
  PROVE  Known'
<1>1. /\ events # <<>> /\ events \in Seq(Events) /\ events' = Tail(events)
      /\ UNCHANGED <<services, seenSvc, maps, seenMaps>>
  BY DEF HandleEvent, AccessInv
<1>2. /\ Len(events) \in Nat \ {0} /\ DOMAIN events = 1..Len(events) /\ DOMAIN events' = 1..(Len(events) - 1)
      /\ \A i \in DOMAIN events' : i + 1 \in DOMAIN events /\ events'[i] = events[i + 1]
  BY <1>1
<1>3. ShapesKnown' /\ EntriesKnown'
  BY <1>1, <1>2 DEF Known, ShapesKnown, EntriesKnown
<1>4. ASSUME NEW i \in DOMAIN events', \A h \in DOMAIN events' : h > i => events'[h].svc # events'[i].svc
      PROVE  events'[i].new \in {services'[events'[i].svc], NoService}
  <2>1. ASSUME NEW h \in DOMAIN events, h > i + 1
        PROVE  events[h].svc # events[i + 1].svc
    <3>1. h - 1 \in DOMAIN events' /\ h - 1 > i /\ (h - 1) + 1 = h
      BY <1>2, <2>1
    <3>. QED
      BY <1>2, <1>4, <3>1
  <2>2. events[i + 1].new \in {services[events[i + 1].svc], NoService}
    BY <1>2, <2>1 DEF Known, LastEvents
  <2>. QED
    BY <1>1, <1>2, <2>2
<1>5. LastEvents'
  BY <1>4 DEF LastEvents
<1>6. Head(events) \in Events /\ Head(events) = events[1]
  BY <1>1, <1>2
<1>7. PICK j : /\ jobs' = [jobs EXCEPT !["warden"] = j]
               /\ j = NoJob \/ \E ports, want : /\ j = Started(Head(events).svc, ports, want)
                                                /\ DOMAIN want = {} \/ ports \in Shapes[Head(events).svc]
  <2>1. CASE Head(events).new = NoService
    <3>1. jobs' = [jobs EXCEPT !["warden"] = Started(Head(events).svc, {}, <<>>)]
      BY <2>1 DEF HandleEvent
    <3>2. DOMAIN <<>> = {}
      OBVIOUS
    <3>. QED
      BY <3>1, <3>2
  <2>2. CASE Head(events).new # NoService
    <3>1. OnServiceUpdate(Head(events))
      BY <2>2 DEF HandleEvent
    <3>2. seenSvc[Head(events).svc] # NoService => seenSvc[Head(events).svc] \in Shapes[Head(events).svc]
      BY <1>6 DEF Known, ShapesKnown, Events
    <3>. QED
      BY <3>1, <3>2 DEF OnServiceUpdate
  <2>. QED
    BY <2>1, <2>2
<1>8. j = NoJob \/ JobKnown("warden", j)
  BY <1>7 DEF JobKnown, Started
<1>9. JobsKnown'
  <2>1. \A v \in Writers : jobs'[v] = IF v = "warden" THEN j ELSE jobs[v]
    BY <1>7 DEF AccessInv
  <2>. QED
    BY <1>8, <2>1 DEF Known, JobsKnown, JobKnown, LeadsTo
<1>10. raced' \in BOOLEAN
  BY DEF HandleEvent, Known
<1>. QED
  BY <1>3, <1>5, <1>9, <1>10 DEF Known

-----------------------------------------------------------------------------
(* Every service is followed, as long as nothing has raced.                *)

\* Steps that leave alone what the warden does for a service, and the requests that
\* have written one of its maps.
LEMMA StillFollowed ==
  ASSUME NEW s, Followed(s), UNCHANGED <<services, maps, events>>,
         HalfDone(s) => HalfDone(s)',
         \/ jobs'["warden"] = jobs["warden"] /\ (seenMaps' = seenMaps \/ seenMaps' = maps)
         \/ Pending(s)
  PROVE  Followed(s)'
<1>1. Pending(s) => Pending(s)'
  BY DEF Pending
<1>2. ASSUME ~Pending(s), AimsRight(s), jobs'["warden"] = jobs["warden"]
      PROVE  AimsRight(s)'
  BY <1>2 DEF AimsRight, Right, LeadsTo
<1>3. Settled(s) => Settled(s)'
  BY DEF Settled, Good, Right, LeadsTo
<1>4. ASSUME Attended(s), jobs'["warden"] = jobs["warden"], seenMaps' = seenMaps \/ seenMaps' = maps
      PROVE  Attended(s)'
  <2>1. Good(s, "TCP") => Good(s, "TCP")'
    BY DEF Good, Right, LeadsTo
  <2>2. Accepting(jobs["warden"]) => Accepting(jobs["warden"])'
    BY <1>4 DEF Accepting, LeadsTo, Owns
  <2>. QED
    BY <1>4, <2>1, <2>2 DEF Attended, Accepting
<1>. QED
  BY <1>1, <1>2, <1>3, <1>4 DEF Followed

\* A request that is not at its second map, and comes to no map, changes nothing.
LEMMA RequestStays ==
  ASSUME AccessInv, NEW w \in Requests, NEW j, jobs' = [jobs EXCEPT ![w] = j], jobs[w].phase # "last",
         UNCHANGED <<services, maps, seenMaps, events>>, NEW s, Followed(s)
  PROVE  Followed(s)'
<1>1. "warden" \in Writers /\ w \in Writers /\ Requests \subseteq Writers /\ w # "warden"
  BY ServicesAssumption DEF Writers
<1>2. \A v \in Writers : v # w => jobs'[v] = jobs[v]
  BY DEF AccessInv
<1>3. HalfDone(s) => HalfDone(s)'
  BY <1>1, <1>2 DEF HalfDone
<1>. QED
  BY <1>1, <1>2, <1>3, StillFollowed

\* The warden reads the TCP map.
LEMMA WardenReadsTcp ==
  ASSUME AccessInv, FollowInv, ~raced, ReadTcp("warden"), NEW s \in Services
  PROVE  Followed(s)'
<1>. DEFINE j == jobs["warden"]
            new == [j EXCEPT !.phase = "udp", !.read["TCP"] = MapAt("warden", "TCP"),
                             !.changed = Changed("warden", "TCP")]
<1>1. /\ j.phase = "tcp" /\ jobs' = [jobs EXCEPT !["warden"] = new]
      /\ UNCHANGED <<services, maps, seenMaps, events>>
  BY DEF ReadTcp
<1>2. "warden" \in Writers /\ Requests \subseteq Writers /\ "warden" \notin Requests
  BY ServicesAssumption DEF Writers
<1>3. Job(j)
  BY <1>1, <1>2 DEF AccessInv, NoJob
<1>4. /\ new.phase = "udp" /\ new.svc = j.svc /\ new.ports = j.ports /\ new.want = j.want
      /\ new.read["TCP"] = seenMaps["TCP"] /\ DOMAIN new = DOMAIN j
  BY <1>2, <1>3 DEF Job, MapAt, Protos
<1>5. new # NoJob /\ j # NoJob
  <2>1. NoJob.phase = "idle"
    BY DEF NoJob
  <2>. HIDE DEF new
  <2>. QED
    BY <1>1, <1>4, <2>1
<1>6. /\ jobs'["warden"] = new /\ \A v \in Requests : jobs'[v] = jobs[v]
  BY <1>1, <1>2 DEF AccessInv
<1>7. Followed(s)
  BY DEF FollowInv
<1>. HIDE DEF new
<1>8. HalfDone(s) => HalfDone(s)'
  BY <1>1, <1>6 DEF HalfDone
<1>9. CASE Pending(s)
  BY <1>1, <1>7, <1>8, <1>9, StillFollowed
<1>10. CASE ~Pending(s)
  <2>1. AimsRight(s)'
    BY <1>1, <1>4, <1>5, <1>6, <1>7, <1>10 DEF Followed, AimsRight, Right, LeadsTo
  <2>2. Settled(s) => Settled(s)'
    BY <1>1, <1>8 DEF Settled, Good, Right, LeadsTo
  <2>3. ASSUME Attended(s)
        PROVE  Attended(s)'
    <3>1. j.svc = s /\ Accepting(j)
      BY <1>1, <2>3 DEF Attended
    <3>2. ASSUME NEW i \in DOMAIN j.want
          PROVE  /\ j.want[i].ext \in Valid /\ LeadsTo(j.ports, j.want[i].proto, j.want[i].port)
                 /\ j.want[i].proto \in Protos
                 /\ \A h \in 1..(i - 1) : j.want[h].ext # j.want[i].ext
                 /\ Owns(s, j.want[i].ext, maps["TCP"]) /\ Owns(s, j.want[i].ext, seenMaps["TCP"])
      BY <3>1 DEF Accepting
    <3>3. /\ jobs'["warden"] # NoJob /\ jobs'["warden"].svc = s /\ jobs'["warden"].phase = "udp"
          /\ jobs'["warden"].want = j.want /\ jobs'["warden"].ports = j.ports
          /\ jobs'["warden"].read["TCP"] = seenMaps["TCP"]
      BY <1>4, <1>5, <1>6, <3>1
    <3>. QED
      BY <1>1, <3>2, <3>3 DEF Attended, Accepting, LeadsTo, Owns
  <2>. QED
    BY <1>7, <1>10, <2>1, <2>2, <2>3 DEF Followed
<1>. QED
  BY <1>9, <1>10

\* The warden reads the UDP map: what it asks for is not refused when the service
\* depends on it.
LEMMA WardenReadsUdp ==
  ASSUME AccessInv, FollowInv, ~raced, ReadUdp("warden"), NEW s \in Services
  PROVE  Followed(s)'
<1>. DEFINE j == jobs["warden"]
            new == [j EXCEPT !.phase = "write", !.read["UDP"] = MapAt("warden", "UDP"),
                             !.changed = (@ \ {"UDP"}) \cup Changed("warden", "UDP")]
<1>1. /\ j.phase = "udp"
      /\ jobs' = IF Accepted(new.want, new.ports, new.svc, new.read)
                 THEN [jobs EXCEPT !["warden"] = new] ELSE [jobs EXCEPT !["warden"] = NoJob]
      /\ UNCHANGED <<services, maps, seenMaps, events>>
  BY DEF ReadUdp, Done
<1>2. "warden" \in Writers /\ Requests \subseteq Writers /\ "warden" \notin Requests
  BY ServicesAssumption DEF Writers
<1>3. Job(j)
  BY <1>1, <1>2 DEF AccessInv, NoJob
<1>4. /\ new.phase = "write" /\ new.svc = j.svc /\ new.ports = j.ports /\ new.want = j.want
      /\ new.read["UDP"] = seenMaps["UDP"] /\ new.read["TCP"] = j.read["TCP"] /\ DOMAIN new = DOMAIN j
  BY <1>2, <1>3 DEF Job, MapAt, Protos
<1>5. new # NoJob /\ j # NoJob
  <2>1. NoJob.phase = "idle"
    BY DEF NoJob
  <2>. HIDE DEF new
  <2>. QED
    BY <1>1, <1>4, <2>1
<1>6. /\ jobs'["warden"] = new \/ jobs'["warden"] = NoJob
      /\ Accepted(new.want, new.ports, new.svc, new.read) => jobs'["warden"] = new
      /\ \A v \in Requests : jobs'[v] = jobs[v]
  BY <1>1, <1>2 DEF AccessInv
<1>7. Followed(s)
  BY DEF FollowInv
<1>. HIDE DEF new
<1>8. HalfDone(s) => HalfDone(s)'
  BY <1>1, <1>6 DEF HalfDone
<1>9. CASE Pending(s)
  BY <1>1, <1>7, <1>8, <1>9, StillFollowed
<1>10. CASE ~Pending(s)
  <2>1. AimsRight(s)'
    BY <1>1, <1>4, <1>5, <1>6, <1>7, <1>10 DEF Followed, AimsRight, Right, LeadsTo
  <2>2. Settled(s) => Settled(s)'
    BY <1>1, <1>8 DEF Settled, Good, Right, LeadsTo
  <2>3. ASSUME Attended(s)
        PROVE  Attended(s)'
    <3>1. j.svc = s /\ Accepting(j)
      BY <1>1, <2>3 DEF Attended
    <3>2. DOMAIN seenMaps["TCP"] \cap DOMAIN seenMaps["UDP"] = {}
      BY DEF FollowInv, Apart
    <3>3. ASSUME NEW i \in DOMAIN j.want
          PROVE  \A k \in Protos : j.want[i].ext \notin DOMAIN Cleared(new.read[k], j.svc)
      <4>1. /\ Owns(j.svc, j.want[i].ext, seenMaps["TCP"])
            /\ Owns(j.svc, j.want[i].ext, j.read["TCP"])
        BY <1>1, <3>1 DEF Accepting
      <4>. QED
        BY <1>4, <3>2, <4>1 DEF Owns, Cleared, Protos
    <3>4. Accepted(j.want, j.ports, j.svc, new.read)
      BY <3>1, <3>3 DEF Accepted, Accepting, LeadsTo
    <3>5. jobs'["warden"] = new
      BY <1>4, <1>6, <3>4
    <3>. QED
      BY <1>4, <1>5, <3>1, <3>5 DEF Attended
  <2>. QED
    BY <1>7, <1>10, <2>1, <2>2, <2>3 DEF Followed
<1>. QED
  BY <1>9, <1>10

\* The ports a request has read, or the ones the warden is after, are right for the
\* service as it is.
LEMMA AimsOfUpdate ==
  ASSUME Known, NEW w \in Writers, NEW k \in Protos, Update(w, k), ~raced',
         w = "warden" => AimsRight(jobs[w].svc),
         NEW i \in DOMAIN jobs[w].want
  PROVE  Right(jobs[w].svc, jobs[w].want[i].proto, jobs[w].want[i].port)
<1>. DEFINE j == jobs[w]
<1>1. j # NoJob /\ j.svc \in Services /\ j.phase \in {"write", "last"}
  BY DEF Update
<1>2. CASE w = "warden"
  BY <1>1, <1>2 DEF AimsRight
<1>3. CASE w \in Requests
  <2>1. j.ports = services[j.svc]
    BY <1>3 DEF Update
  <2>2. JobKnown(w, j) /\ w # "warden"
    BY <1>1, <1>3, ServicesAssumption DEF Known, JobsKnown
  <2>3. j.ports \in Shapes[j.svc] /\ LeadsTo(j.ports, j.want[i].proto, j.want[i].port)
    BY <1>1, <2>2 DEF JobKnown
  <2>. QED
    BY <1>1, <2>1, <2>3, ShapesAssumption DEF Right
<1>. QED
  BY <1>2, <1>3 DEF Writers

\* The entries a map has after an update, by service.
LEMMA GoodAfterUpdate ==
  ASSUME NEW w, NEW k \in Protos, Update(w, k), services' = services, NEW s, NEW q \in Protos,
         \/ q # k /\ Good(s, q)
         \/ s # jobs[w].svc /\ Good(s, q)
         \/ /\ q = k /\ s = jobs[w].svc
            /\ \A i \in DOMAIN jobs[w].want : Right(s, jobs[w].want[i].proto, jobs[w].want[i].port)
  PROVE  Good(s, q)'
<1>1. Wrote(k, jobs[w].svc, jobs[w].want)
  BY DEF Update
<1>2. \A kk, port : Right(s, kk, port) => Right(s, kk, port)'
  BY DEF Right, LeadsTo
<1>3. CASE q # k
  <2>1. maps'[q] = maps[q] /\ Good(s, q)
    BY <1>1, <1>3 DEF Wrote
  <2>. QED
    BY <1>2, <2>1 DEF Good
<1>4. CASE q = k /\ s # jobs[w].svc
  <2>1. ASSUME NEW e \in DOMAIN maps'[q], maps'[q][e][1] = s
        PROVE  e \in DOMAIN maps[q] /\ maps'[q][e] = maps[q][e]
    BY <1>1, <1>4, <2>1 DEF Wrote
  <2>. QED
    BY <1>2, <1>4, <2>1 DEF Good
<1>5. CASE q = k /\ s = jobs[w].svc
  <2>1. \A i \in DOMAIN jobs[w].want : Right(s, jobs[w].want[i].proto, jobs[w].want[i].port)
    BY <1>5
  <2>2. ASSUME NEW e \in DOMAIN maps'[q], maps'[q][e][1] = s
        PROVE  Right(s, q, maps'[q][e][2])
    BY <1>1, <1>5, <2>1, <2>2 DEF Wrote
  <2>. QED
    BY <1>2, <2>2 DEF Good
<1>. QED
  BY <1>3, <1>4, <1>5

\* An update for another service: its entries, its half-done requests and what the
\* warden does for it stay.
LEMMA UpdateOfAnother ==
  ASSUME NEW w \in Writers, NEW k \in Protos, Update(w, k),
         UNCHANGED <<services, seenMaps, events>>, NEW s, s # jobs[w].svc, Followed(s)
  PROVE  Followed(s)'
<1>0. "warden" \in Writers /\ Requests \subseteq Writers
  BY DEF Writers
<1>1. Pending(s) => Pending(s)'
  BY DEF Pending
<1>2. \A q \in Protos : Good(s, q) => Good(s, q)'
  BY GoodAfterUpdate
<1>3. HalfDone(s) => HalfDone(s)'
  BY <1>0 DEF HalfDone, Update, SameJob
<1>4. Settled(s) => Settled(s)'
  BY <1>2, <1>3 DEF Settled, Protos
<1>5. ASSUME AimsRight(s)
      PROVE  AimsRight(s)'
  <2>1. CASE w = "warden"
    BY <2>1 DEF AimsRight, Update, Protos
  <2>2. CASE w # "warden"
    BY <1>0, <1>5, <2>2 DEF AimsRight, Update, SameJob, Right, LeadsTo
  <2>. QED
    BY <2>1, <2>2
<1>6. ASSUME Attended(s)
      PROVE  Attended(s)'
  <2>. DEFINE j == jobs["warden"]
  <2>1. j # NoJob /\ j.svc = s /\ w # "warden"
    BY <1>6 DEF Attended
  <2>2. /\ jobs'["warden"] # NoJob /\ jobs'["warden"].svc = s /\ jobs'["warden"].phase = j.phase
        /\ jobs'["warden"].want = j.want /\ jobs'["warden"].ports = j.ports /\ jobs'["warden"].read = j.read
    BY <1>0, <2>1 DEF Update, SameJob
  <2>3. Accepting(j) => Accepting(jobs["warden"])'
    <3>1. \A e : Owns(s, e, maps["TCP"]) => Owns(s, e, maps'["TCP"])
      BY DEF Owns, Update, Wrote, Protos
    <3>. QED
      BY <2>1, <2>2, <3>1 DEF Accepting, LeadsTo, Owns
  <2>. QED
    BY <1>2, <1>6, <2>1, <2>2, <2>3 DEF Attended, Protos
<1>. QED
  BY <1>1, <1>4, <1>5, <1>6 DEF Followed

\* An update for the service itself, by a request: it has read the service as it is,
\* and settles it, or leaves it to the warden.
LEMMA RequestUpdates ==
  ASSUME Known, NEW w \in Requests, NEW k \in Protos, Update(w, k), ~raced',
         UNCHANGED <<services, seenMaps, events>>, NEW s, s = jobs[w].svc, Followed(s)
  PROVE  Followed(s)'
<1>0. w \in Writers /\ w # "warden" /\ "warden" \in Writers
  BY ServicesAssumption DEF Writers
<1>1. Pending(s) => Pending(s)'
  BY DEF Pending
<1>2. Good(s, k)'
  BY <1>0, AimsOfUpdate, GoodAfterUpdate
<1>3. SameJob("warden")
  BY <1>0 DEF Update
<1>4. AimsRight(s) => AimsRight(s)'
  BY <1>3 DEF AimsRight, SameJob, Right, LeadsTo
<1>5. CASE k = "TCP"
  <2>1. HalfDone(s)'
    BY <1>5 DEF HalfDone, Update
  <2>. QED
    BY <1>1, <1>2, <1>4, <1>5, <2>1 DEF Followed, Settled
<1>6. CASE k = "UDP"
  <2>1. Good(s, "TCP") => Good(s, "TCP")'
    BY <1>6, GoodAfterUpdate DEF Protos
  <2>2. Settled(s) => Settled(s)'
    BY <1>2, <1>6, <2>1 DEF Settled
  <2>3. ASSUME Attended(s)
        PROVE  Attended(s)'
    <3>. DEFINE j == jobs["warden"]
    <3>1. j # NoJob /\ j.svc = s
      BY <2>3 DEF Attended
    <3>2. /\ jobs'["warden"] # NoJob /\ jobs'["warden"].svc = s /\ jobs'["warden"].phase = j.phase
          /\ jobs'["warden"].want = j.want /\ jobs'["warden"].ports = j.ports /\ jobs'["warden"].read = j.read
      BY <1>3, <3>1 DEF SameJob
    <3>3. maps'["TCP"] = maps["TCP"]
      BY <1>6 DEF Update, Wrote, Protos
    <3>4. Accepting(j) => Accepting(jobs["warden"])'
      BY <3>1, <3>2, <3>3 DEF Accepting, LeadsTo, Owns
    <3>. QED
      BY <2>1, <2>3, <3>1, <3>2, <3>4 DEF Attended
  <2>. QED
    BY <1>1, <1>4, <2>2, <2>3 DEF Followed
<1>. QED
  BY <1>5, <1>6 DEF Protos

\* An update for the service itself, by the warden: it writes the TCP map, then the
\* other, and the service is settled.
LEMMA WardenUpdates ==
  ASSUME Known, NEW k \in Protos, Update("warden", k), ~raced',
         UNCHANGED <<services, seenMaps, events>>, NEW s, s = jobs["warden"].svc, Followed(s)
  PROVE  Followed(s)'
<1>0. "warden" \in Writers
  BY DEF Writers
<1>1. Pending(s) => Pending(s)'
  BY DEF Pending
<1>2. CASE ~Pending(s)
  <2>1. AimsRight(s)
    BY <1>2 DEF Followed
  <2>2. Good(s, k)'
    BY <1>0, <2>1, AimsOfUpdate, GoodAfterUpdate
  <2>3. CASE k = "TCP"
    <3>1. /\ jobs'["warden"] # NoJob /\ jobs'["warden"].svc = s /\ jobs'["warden"].phase = "last"
          /\ jobs'["warden"].want = jobs["warden"].want /\ jobs["warden"] # NoJob
      BY <2>3 DEF Update
    <3>2. AimsRight(s)'
      BY <2>1, <3>1 DEF AimsRight, Right, LeadsTo
    <3>3. Attended(s)'
      BY <2>2, <2>3, <3>1 DEF Attended
    <3>. QED
      BY <3>2, <3>3 DEF Followed
  <2>4. CASE k = "UDP"
    <3>1. jobs'["warden"] = NoJob /\ jobs["warden"].phase = "last"
      BY <2>4 DEF Update
    <3>2. Good(s, "TCP")
      BY <1>2, <3>1 DEF Followed, Settled, Attended
    <3>3. Good(s, "TCP")'
      BY <2>4, <3>2, GoodAfterUpdate DEF Protos
    <3>4. AimsRight(s)'
      BY <3>1 DEF AimsRight
    <3>. QED
      BY <2>2, <2>4, <3>3, <3>4 DEF Followed, Settled
  <2>. QED
    BY <2>3, <2>4 DEF Protos
<1>. QED
  BY <1>1, <1>2 DEF Followed

\* A service changes: its event is pending then, unless it was not there.
LEMMA ChangeFollowed ==
  ASSUME AccessInv, FollowInv, ~raced, NEW q \in Services, NEW to \in Shapes[q] \cup {NoService},
         ChangeService(q, to), NEW s \in Services
  PROVE  Followed(s)'
<1>1. /\ services' = [services EXCEPT ![q] = to] /\ UNCHANGED <<maps, seenMaps, jobs>>
      /\ events' = IF services[q] = NoService THEN events
                   ELSE Append(events, [svc |-> q, old |-> services[q], new |-> to])
  BY DEF ChangeService
<1>2. Followed(s) /\ Known
  BY DEF FollowInv, Known
<1>3. services'[s] = IF s = q THEN to ELSE services[s]
  BY <1>1 DEF AccessInv
<1>4. Len(events) \in Nat /\ DOMAIN events = 1..Len(events) /\ events \in Seq(Events)
  BY EventsAreRead DEF AccessInv
<1>5. CASE Pending(s)
  <2>1. PICK i \in DOMAIN events : events[i].svc = s
    BY <1>5 DEF Pending
  <2>2. i \in DOMAIN events' /\ events'[i] = events[i]
    BY <1>1, <1>4
  <2>. QED
    BY <2>1, <2>2 DEF Followed, Pending
<1>6. CASE s = q /\ services[q] # NoService
  <2>1. events' = Append(events, [svc |-> q, old |-> services[q], new |-> to])
    BY <1>1, <1>6
  <2>2. Len(events) + 1 \in DOMAIN events' /\ events'[Len(events) + 1].svc = q
    BY <1>4, <2>1
  <2>. QED
    BY <1>6, <2>2 DEF Followed, Pending
<1>7. CASE s = q /\ services[q] = NoService /\ ~Pending(s)
  <2>1. \A k, port : ~Right(s, k, port)
    BY <1>7 DEF Right
  <2>2. ~HalfDone(s)
    <3>1. ASSUME NEW w \in Requests, jobs[w] # NoJob, jobs[w].svc = s, jobs[w].ports = services[s]
          PROVE  FALSE
      <4>1. JobKnown(w, jobs[w]) /\ w # "warden"
        BY <1>2, <3>1, ServicesAssumption DEF Known, JobsKnown, Writers
      <4>. QED
        BY <1>7, <3>1, <4>1, ShapesAssumption DEF JobKnown
    <3>. QED
      BY <3>1 DEF HalfDone
  <2>3. AimsRight(s)'
    BY <1>1, <1>2, <1>7, <2>1 DEF Followed, AimsRight
  <2>4. \A k \in Protos : Good(s, k) => Good(s, k)'
    BY <1>1, <2>1 DEF Good
  <2>5. Settled(s) => Settled(s)'
    BY <2>2, <2>4 DEF Settled, Protos
  <2>6. Attended(s) => Attended(s)'
    BY <1>1, <2>4 DEF Attended, Protos, Accepting, LeadsTo, Owns
  <2>. QED
    BY <1>2, <1>7, <2>3, <2>5, <2>6 DEF Followed
<1>8. CASE s # q /\ ~Pending(s)
  <2>1. \A k, port : Right(s, k, port) => Right(s, k, port)'
    BY <1>3, <1>8 DEF Right, LeadsTo
  <2>2. HalfDone(s) => HalfDone(s)'
    BY <1>1, <1>3, <1>8 DEF HalfDone
  <2>3. AimsRight(s)'
    BY <1>1, <1>2, <1>8, <2>1 DEF Followed, AimsRight
  <2>4. \A k \in Protos : Good(s, k) => Good(s, k)'
    BY <1>1, <2>1 DEF Good
  <2>5. Settled(s) => Settled(s)'
    BY <2>2, <2>4 DEF Settled, Protos
  <2>6. Attended(s) => Attended(s)'
    BY <1>1, <2>4 DEF Attended, Protos, Accepting, LeadsTo, Owns
  <2>. QED
    BY <1>2, <1>8, <2>3, <2>5, <2>6 DEF Followed
<1>. QED
  BY <1>5, <1>6, <1>7, <1>8

\* SetToSeq lists a finite set without repeating itself.
LEMMA SetToSeqLists ==
  ASSUME NEW S, IsFiniteSet(S)
  PROVE  /\ Cardinality(S) \in Nat /\ SetToSeq(S) \in [1..Cardinality(S) -> S]
         /\ \A i, h \in 1..Cardinality(S) : SetToSeq(S)[i] = SetToSeq(S)[h] => i = h
<1>1. Cardinality(S) \in Nat /\ ExistsBijection(1..Cardinality(S), S)
  BY FS_CardinalityType
<1>2. PICK f : f \in Bijection(1..Cardinality(S), S)
  BY <1>1 DEF ExistsBijection
<1>3. f \in [1..Cardinality(S) -> S] /\ IsInjective(f)
  BY <1>2 DEF Bijection, Injection, IsInjective
<1>4. SetToSeq(S) \in [1..Cardinality(S) -> S] /\ IsInjective(SetToSeq(S))
  BY <1>3 DEF SetToSeq
<1>. QED
  BY <1>1, <1>4 DEF IsInjective

\* What is moved for TCP are entries of the service, each to a port it has now; where
\* no number has had both protocols nothing is moved for UDP.
LEMMA MovedEntries ==
  ASSUME NEW s \in Services, OneProtocolEach(s), NEW old \in Shapes[s], NEW new \in Shapes[s],
         NEW data, NEW tcp \in GetExternalAccess(s, data),
         \A e \in DOMAIN data : data[e][1] = s => \E x \in Shapes[s] : LeadsTo(x, "TCP", data[e][2])
  PROVE  /\ Moved("UDP", old, new, tcp) = {}
         /\ IsFiniteSet(Moved("TCP", old, new, tcp))
         /\ \A m \in Moved("TCP", old, new, tcp) :
              m.proto = "TCP" /\ LeadsTo(new, "TCP", m.port) /\ Owns(s, m.ext, data)
         /\ \A m, n \in Moved("TCP", old, new, tcp) : m.ext = n.ext => m = n
<1>. DEFINE used == {data[e][2] : e \in {x \in DOMAIN data : data[x][1] = s}}
            pairs(k) == {y \in old \X new :
              /\ y[1].port \in DOMAIN tcp
              /\ y[1].proto = k /\ y[2].proto = k /\ y[1].name = y[2].name}
            rec(y) == [ext |-> tcp[y[1].port], port |-> y[2].port, proto |-> "TCP"]
<1>1. tcp \in [used -> DOMAIN data] /\ \A p \in used : data[tcp[p]] = <<s, p>>
  BY DEF GetExternalAccess
<1>2. \A k : Moved(k, old, new, tcp) = {rec(y) : y \in pairs(k)}
  BY DEF Moved
<1>3. ASSUME NEW p \in used
      PROVE  /\ tcp[p] \in DOMAIN data /\ data[tcp[p]][1] = s /\ data[tcp[p]][2] = p
             /\ \E x \in Shapes[s] : LeadsTo(x, "TCP", p)
  <2>1. tcp[p] \in DOMAIN data /\ data[tcp[p]] = <<s, p>>
    BY <1>1
  <2>2. data[tcp[p]][1] = s /\ data[tcp[p]][2] = p
    BY <2>1
  <2>. QED
    BY <2>1, <2>2
<1>. HIDE DEF used
<1>4. \A y \in pairs("UDP") : FALSE
  <2>1. ASSUME NEW y \in pairs("UDP")
        PROVE  FALSE
    <3>1. y[1] \in old /\ y[1].port \in used /\ y[1].proto = "UDP"
      BY <1>1, <2>1
    <3>2. PICK x \in Shapes[s] : LeadsTo(x, "TCP", y[1].port)
      BY <1>3, <3>1
    <3>3. PICK p \in x : p.proto = "TCP" /\ p.port = y[1].port
      BY <3>2 DEF LeadsTo
    <3>4. p.proto = y[1].proto
      BY <3>1, <3>3 DEF OneProtocolEach
    <3>. QED
      BY <3>1, <3>3, <3>4
  <2>. QED
    BY <2>1
<1>5. Moved("UDP", old, new, tcp) = {}
  <2>1. pairs("UDP") = {}
    BY <1>4
  <2>. QED
    BY <1>2, <2>1
<1>6. IsFiniteSet(Moved("TCP", old, new, tcp))
  <2>1. IsFiniteSet(old) /\ IsFiniteSet(new)
    BY ShapesAssumption
  <2>2. IsFiniteSet(old \X new)
    BY <2>1, FS_Product
  <2>3. pairs("TCP") \subseteq old \X new
    OBVIOUS
  <2>4. IsFiniteSet(pairs("TCP"))
    BY <2>2, <2>3, FS_Subset
  <2>5. Moved("TCP", old, new, tcp) = {rec(y) : y \in pairs("TCP")}
    BY <1>2
  <2>. HIDE DEF pairs, rec
  <2>6. [y \in pairs("TCP") |-> rec(y)] \in Surjection(pairs("TCP"), Moved("TCP", old, new, tcp))
    BY <2>5 DEF Surjection
  <2>. QED
    BY <2>4, <2>6, FS_Surjection
<1>7. ASSUME NEW m \in Moved("TCP", old, new, tcp)
      PROVE  \E y \in old \X new :
               /\ y[1].port \in used /\ y[1].proto = "TCP" /\ y[2].proto = "TCP" /\ y[1].name = y[2].name
               /\ m = rec(y)
  BY <1>1, <1>2
<1>8. ASSUME NEW m \in Moved("TCP", old, new, tcp)
      PROVE  m.proto = "TCP" /\ LeadsTo(new, "TCP", m.port) /\ Owns(s, m.ext, data)
  <2>1. PICK y \in old \X new :
               /\ y[1].port \in used /\ y[1].proto = "TCP" /\ y[2].proto = "TCP" /\ y[1].name = y[2].name
               /\ m = rec(y)
    BY <1>7
  <2>2. m.proto = "TCP" /\ m.port = y[2].port /\ m.ext = tcp[y[1].port] /\ y[2] \in new
    BY <2>1
  <2>. QED
    BY <1>3, <2>1, <2>2 DEF LeadsTo, Owns
<1>9. ASSUME NEW m \in Moved("TCP", old, new, tcp), NEW n \in Moved("TCP", old, new, tcp), m.ext = n.ext
      PROVE  m = n
  <2>1. PICK y \in old \X new :
               /\ y[1].port \in used /\ y[1].proto = "TCP" /\ y[2].proto = "TCP" /\ y[1].name = y[2].name
               /\ m = rec(y)
    BY <1>7
  <2>2. PICK z \in old \X new :
               /\ z[1].port \in used /\ z[1].proto = "TCP" /\ z[2].proto = "TCP" /\ z[1].name = z[2].name
               /\ n = rec(z)
    BY <1>7
  <2>3. tcp[y[1].port] = tcp[z[1].port]
    BY <1>9, <2>1, <2>2
  <2>4. y[1].port = z[1].port
    BY <1>3, <2>1, <2>2, <2>3
  <2>5. y[1] \in old /\ z[1] \in old /\ y[2] \in new /\ z[2] \in new
    OBVIOUS
  <2>6. y[1] = z[1]
    BY <2>1, <2>2, <2>4, <2>5, ShapesAssumption
  <2>7. y[2] = z[2]
    BY <2>1, <2>2, <2>5, <2>6, ShapesAssumption
  <2>. QED
    BY <2>1, <2>2, <2>6, <2>7
<1>. QED
  BY <1>5, <1>6, <1>8, <1>9

\* The entries the warden asks for, as a list.
LEMMA WantOfWarden ==
  ASSUME NEW M, IsFiniteSet(M), \A m, n \in M : m.ext = n.ext => m = n, NEW want,
         want = SetToSeq(M) \o SetToSeq({})
  PROVE  /\ \A i \in DOMAIN want : want[i] \in M
         /\ \A i \in DOMAIN want : \A h \in 1..(i - 1) : want[h].ext # want[i].ext
<1>. DEFINE n == Cardinality(M)
            A == SetToSeq(M)
            B == SetToSeq({})
<1>1. /\ n \in Nat /\ A \in [1..n -> M]
      /\ \A i, h \in 1..n : A[i] = A[h] => i = h
  BY SetToSeqLists
<1>2. Cardinality({}) = 0 /\ IsFiniteSet({})
  BY FS_EmptySet
<1>3. B \in [1..0 -> {}]
  BY <1>2, SetToSeqLists
<1>. HIDE DEF n, A, B
<1>4. A \in Seq(M) /\ Len(A) = n
  BY <1>1
<1>5. B \in Seq({}) /\ Len(B) = 0
  BY <1>3
<1>6. DOMAIN (A \o B) = 1..n /\ \A i \in 1..n : (A \o B)[i] = A[i]
  BY <1>1, <1>4, <1>5
<1>7. DOMAIN want = 1..n /\ \A i \in 1..n : want[i] = A[i] /\ A[i] \in M
  BY <1>1, <1>6 DEF A, B
<1>8. ASSUME NEW i \in 1..n, NEW h \in 1..(i - 1)
      PROVE  want[h].ext # want[i].ext
  <2>1. h \in 1..n /\ h # i
    BY <1>1, <1>8
  <2>. QED
    BY <1>1, <1>7, <2>1
<1>. QED
  BY <1>7, <1>8

\* The warden takes up an event.  The last event of a service is the one that says what
\* the service is: what is moved then leads to ports it has, and is not refused.
LEMMA EventFollowed ==
  ASSUME AccessInv, FollowInv, ~raced, ~raced', HandleEvent, NEW s \in Services
  PROVE  Followed(s)'
<1>. DEFINE ev == Head(events)
<1>1. /\ events # <<>> /\ events' = Tail(events) /\ jobs["warden"].phase = "idle"
      /\ UNCHANGED <<services, seenSvc, maps, seenMaps>>
  BY DEF HandleEvent
<1>2. seenMaps = maps /\ seenSvc[ev.svc] \in {ev.new, services[ev.svc]}
  BY DEF HandleEvent, FollowInv
<1>3. "warden" \in Writers /\ "warden" \notin Requests /\ Requests \subseteq Writers
  BY ServicesAssumption DEF Writers
<1>4. jobs["warden"] = NoJob
  BY <1>1, <1>3 DEF AccessInv, Job
<1>5. /\ ev = events[1] /\ Len(events) \in Nat \ {0} /\ DOMAIN events = 1..Len(events)
      /\ DOMAIN events' = 1..(Len(events) - 1)
      /\ \A i \in DOMAIN events' : i + 1 \in DOMAIN events /\ events'[i] = events[i + 1]
  BY <1>1 DEF AccessInv
<1>6. ev.svc \in Services /\ 1 \in DOMAIN events
  BY <1>5, EventsAreRead
<1>7. /\ \/ ev.new = NoService /\ jobs' = [jobs EXCEPT !["warden"] = Started(ev.svc, {}, <<>>)]
         \/ ev.new # NoService /\ OnServiceUpdate(ev)
      /\ \A v \in Requests : jobs'[v] = jobs[v]
      /\ jobs'["warden"] = NoJob \/ jobs'["warden"].svc = ev.svc
  <2>1. CASE ev.new = NoService
    BY <1>3, <2>1 DEF HandleEvent, AccessInv, Started
  <2>2. CASE ev.new # NoService
    <3>1. OnServiceUpdate(ev)
      BY <2>2 DEF HandleEvent
    <3>2. PICK j : /\ jobs' = [jobs EXCEPT !["warden"] = j]
                   /\ j = NoJob \/ \E ports, want : j = Started(ev.svc, ports, want)
      BY <3>1 DEF OnServiceUpdate
    <3>3. j = NoJob \/ j.svc = ev.svc
      BY <3>2 DEF Started
    <3>. QED
      BY <1>3, <2>2, <3>1, <3>2, <3>3 DEF AccessInv
  <2>. QED
    BY <2>1, <2>2
<1>8. Followed(s) /\ Known
  BY DEF FollowInv, Known
<1>9. CASE Pending(s)'
  BY <1>9 DEF Followed
<1>10. CASE ~Pending(s)' /\ s # ev.svc
  <2>1. ~Pending(s)
    <3>1. ASSUME NEW i \in DOMAIN events, events[i].svc = s
          PROVE  FALSE
      <4>1. i # 1
        BY <1>5, <1>10, <3>1
      <4>2. i - 1 \in DOMAIN events' /\ (i - 1) + 1 = i
        BY <1>5, <4>1
      <4>3. events'[i - 1] = events[i]
        BY <1>5, <4>2
      <4>. QED
        BY <1>10, <3>1, <4>2, <4>3 DEF Pending
    <3>. QED
      BY <3>1 DEF Pending
  <2>2. Settled(s)
    BY <1>4, <1>8, <2>1 DEF Followed, Attended
  <2>3. HalfDone(s) => HalfDone(s)'
    BY <1>1, <1>7 DEF HalfDone
  <2>4. Settled(s)'
    BY <1>1, <2>2, <2>3 DEF Settled, Good, Right, LeadsTo
  <2>5. AimsRight(s)'
    BY <1>7, <1>10 DEF AimsRight
  <2>. QED
    BY <2>4, <2>5 DEF Followed
<1>11. CASE ~Pending(s)' /\ s = ev.svc
  <2>1. ASSUME NEW h \in DOMAIN events, h > 1
        PROVE  events[h].svc # events[1].svc
    <3>1. h - 1 \in DOMAIN events' /\ (h - 1) + 1 = h
      BY <1>5, <2>1
    <3>2. events'[h - 1] = events[h]
      BY <1>5, <3>1
    <3>. QED
      BY <1>5, <1>11, <3>1, <3>2 DEF Pending
  <2>2. ev.new \in {services[s], NoService}
    BY <1>5, <1>6, <1>8, <1>11, <2>1 DEF Known, LastEvents
  <2>3. CASE ev.new = NoService
    <3>1. jobs'["warden"] = Started(s, {}, <<>>)
      BY <1>3, <1>7, <1>11, <2>3 DEF AccessInv
    <3>2. /\ jobs'["warden"].svc = s /\ jobs'["warden"].phase = "tcp" /\ DOMAIN jobs'["warden"].want = {}
      BY <3>1 DEF Started
    <3>3. jobs'["warden"] # NoJob
      <4>1. NoJob.phase = "idle"
        BY DEF NoJob
      <4>. QED
        BY <3>2, <4>1
    <3>4. Attended(s)' /\ AimsRight(s)'
      BY <3>2, <3>3 DEF Attended, AimsRight, Accepting
    <3>. QED
      BY <3>4 DEF Followed
  <2>4. CASE ev.new # NoService
    <3>1. ev.new = services[s] /\ seenSvc[s] = services[s] /\ services[s] \in Shapes[s]
      BY <1>2, <1>8, <1>11, <2>2, <2>4 DEF Known, ShapesKnown
    <3>2. ev.old \in Shapes[s]
      BY <1>5, <1>6, <1>8, <1>11 DEF Known, ShapesKnown
    <3>3. PICK tcp \in GetExternalAccess(s, maps["TCP"]), udp \in GetExternalAccess(s, maps["UDP"]) :
            jobs' = [jobs EXCEPT !["warden"] =
                  IF (DOMAIN tcp = {} /\ DOMAIN udp = {}) \/ services[s] = NoService THEN NoJob
                  ELSE Started(s, services[s],
                         SetToSeq(Moved("TCP", ev.old, ev.new, tcp)) \o SetToSeq(Moved("UDP", ev.old, ev.new, tcp)))]
      BY <1>2, <1>7, <1>11, <2>4, <3>1 DEF OnServiceUpdate
    <3>. DEFINE want == SetToSeq(Moved("TCP", ev.old, ev.new, tcp)) \o SetToSeq(Moved("UDP", ev.old, ev.new, tcp))
    <3>4. services[s] # NoService
      BY <2>4, <3>1
    <3>5. CASE DOMAIN tcp = {} /\ DOMAIN udp = {}
      <4>1. jobs'["warden"] = NoJob
        BY <1>3, <3>3, <3>5 DEF AccessInv
      <4>2. /\ DOMAIN tcp = {maps["TCP"][e][2] : e \in {x \in DOMAIN maps["TCP"] : maps["TCP"][x][1] = s}}
            /\ DOMAIN udp = {maps["UDP"][e][2] : e \in {x \in DOMAIN maps["UDP"] : maps["UDP"][x][1] = s}}
        BY DEF GetExternalAccess
      <4>3. /\ \A e \in DOMAIN maps["TCP"] : maps["TCP"][e][1] # s
            /\ \A e \in DOMAIN maps["UDP"] : maps["UDP"][e][1] # s
        BY <3>5, <4>2
      <4>4. Settled(s)' /\ AimsRight(s)'
        BY <1>1, <4>1, <4>3 DEF Settled, Good, AimsRight
      <4>. QED
        BY <4>4 DEF Followed
    <3>6. CASE ~(DOMAIN tcp = {} /\ DOMAIN udp = {})
      <4>1. jobs'["warden"] = Started(s, services[s], want)
        BY <1>3, <3>3, <3>4, <3>6 DEF AccessInv
      <4>. HIDE DEF want
      <4>2. /\ jobs'["warden"].svc = s /\ jobs'["warden"].phase = "tcp"
            /\ jobs'["warden"].want = want /\ jobs'["warden"].ports = services[s]
        BY <4>1 DEF Started
      <4>3. jobs'["warden"] # NoJob
        <5>1. NoJob.phase = "idle"
          BY DEF NoJob
        <5>. QED
          BY <4>2, <5>1
      <4>4. CASE ~OneProtocolEach(s)
        <5>1. \A k, port : Right(s, k, port)'
          BY <1>1, <3>4, <4>4 DEF Right
        <5>2. Settled(s)' /\ AimsRight(s)'
          BY <5>1 DEF Settled, Good, AimsRight
        <5>. QED
          BY <5>2 DEF Followed
      <4>5. CASE OneProtocolEach(s)
        <5>. DEFINE M == Moved("TCP", ev.old, ev.new, tcp)
        <5>1. \A e \in DOMAIN maps["TCP"] : maps["TCP"][e][1] = s =>
                 e \in Valid /\ \E x \in Shapes[s] : LeadsTo(x, "TCP", maps["TCP"][e][2])
          BY <1>8 DEF Known, EntriesKnown, Protos
        <5>2. /\ Moved("UDP", ev.old, ev.new, tcp) = {} /\ IsFiniteSet(M)
              /\ \A m \in M : m.proto = "TCP" /\ LeadsTo(services[s], "TCP", m.port) /\ Owns(s, m.ext, maps["TCP"])
              /\ \A m, n \in M : m.ext = n.ext => m = n
          <6>1. ev.new \in Shapes[s]
            BY <3>1
          <6>2. \A e \in DOMAIN maps["TCP"] : maps["TCP"][e][1] = s =>
                  \E x \in Shapes[s] : LeadsTo(x, "TCP", maps["TCP"][e][2])
            BY <5>1
          <6>. HIDE DEF ev
          <6>. QED
            BY <3>1, <3>2, <4>5, <6>1, <6>2, MovedEntries
        <5>. HIDE DEF M
        <5>3. want = SetToSeq(M) \o SetToSeq({})
          BY <5>2 DEF want, M
        <5>4. /\ \A i \in DOMAIN want : want[i] \in M
              /\ \A i \in DOMAIN want : \A h \in 1..(i - 1) : want[h].ext # want[i].ext
          BY <5>2, <5>3, WantOfWarden
        <5>5. ASSUME NEW i \in DOMAIN want
              PROVE  /\ want[i].proto = "TCP" /\ "TCP" \in Protos /\ LeadsTo(services[s], "TCP", want[i].port)
                     /\ Owns(s, want[i].ext, maps["TCP"]) /\ want[i].ext \in Valid
          <6>1. want[i] \in M
            BY <5>4
          <6>. QED
            BY <5>1, <5>2, <6>1 DEF Owns, Protos
        <5>6. Attended(s)'
          BY <1>1, <1>2, <4>2, <4>3, <5>4, <5>5 DEF Attended, Accepting, LeadsTo, Owns
        <5>7. AimsRight(s)'
          BY <1>1, <3>4, <4>2, <5>5 DEF AimsRight, Right, LeadsTo
        <5>. QED
          BY <5>6, <5>7 DEF Followed
      <4>. QED
        BY <4>4, <4>5
    <3>. QED
      BY <3>5, <3>6
  <2>. QED
    BY <2>3, <2>4
<1>. QED
  BY <1>9, <1>10, <1>11

\* The update of a map, whoever makes it and for whichever service.
LEMMA UpdateFollowed ==
  ASSUME AccessInv, FollowInv, ~raced, ~raced', NEW w \in Writers, NEW k \in Protos, Update(w, k),
         UNCHANGED <<services, seenMaps, events>>, NEW s \in Services
  PROVE  Followed(s)'
<1>1. Followed(s) /\ Known
  BY DEF FollowInv, Known
<1>. QED
  BY <1>1, UpdateOfAnother, RequestUpdates, WardenUpdates DEF Writers

\* A writer reads the maps, or its dry run is refused.
LEMMA ReadFollowed ==
  ASSUME AccessInv, FollowInv, ~raced, ~raced', NEW w \in Writers,
         ReadTcp(w) \/ ReadUdp(w) \/ DryRunFails(w), NEW s \in Services
  PROVE  Followed(s)'
<1>1. CASE w = "warden"
  BY <1>1, WardenReadsTcp, WardenReadsUdp DEF DryRunFails
<1>2. CASE w \in Requests
  <2>1. /\ UNCHANGED <<services, maps, seenMaps, events>> /\ jobs[w].phase # "last"
        /\ \E j : jobs' = [jobs EXCEPT ![w] = j]
    BY DEF ReadTcp, ReadUdp, DryRunFails, Done
  <2>2. Followed(s)
    BY DEF FollowInv
  <2>. QED
    BY <1>2, <2>1, <2>2, RequestStays
<1>. QED
  BY <1>1, <1>2 DEF Writers

\* The inductive invariant: nothing has raced, and every service is followed.
LEMMA FollowStep ==
  ASSUME AccessInv, FollowInv, [AccessNext]_accessVars
  PROVE  FollowInv'
<1>0. /\ Known /\ "warden" \in Writers /\ Requests \subseteq Writers
      /\ ~raced => Apart(maps) /\ Apart(seenMaps) /\ \A s \in Services : Followed(s)
  BY DEF FollowInv, Known, Writers
<1>1. ~raced' => ~raced
  BY RacedStays
<1>2. CASE \E w \in Writers : ReadTcp(w) \/ ReadUdp(w) \/ DryRunFails(w)
  <2>1. UNCHANGED <<maps, seenMaps>>
    BY <1>2 DEF ReadTcp, ReadUdp, DryRunFails
  <2>2. Known'
    BY <1>0, <1>2, KnownRead
  <2>3. ~raced' => \A s \in Services : Followed(s)'
    BY <1>1, <1>2, ReadFollowed
  <2>. QED
    BY <1>0, <1>1, <2>1, <2>2, <2>3 DEF FollowInv, Known, Apart
<1>3. ASSUME NEW w \in Writers, WriteTcp(w) \/ WriteUdp(w)
      PROVE  FollowInv'
  <2>1. UNCHANGED <<services, seenSvc, seenMaps, events>> /\ raced' \in BOOLEAN
    BY <1>0, <1>3 DEF WriteTcp, WriteUdp, WriteMap, Known
  <2>2. PICK k \in Protos :
          \/ /\ jobs' = [jobs EXCEPT ![w] = NoJob] /\ maps' = maps
             /\ jobs[w] # NoJob
             /\ ~raced' => w \in Requests /\ k = "TCP" /\ jobs[w].phase = "write"
          \/ Update(w, k)
    BY <1>3, WriteOutcomes DEF WriteTcp, WriteUdp, Protos
  <2>3. CASE Update(w, k)
    <3>1. Known'
      BY <1>0, <2>1, <2>3, KnownWrite
    <3>2. ~raced' => Apart(maps)' /\ \A s \in Services : Followed(s)'
      BY <1>1, <2>1, <2>3, UpdateFollowed DEF Update
    <3>. QED
      BY <1>0, <1>1, <2>1, <3>1, <3>2 DEF FollowInv, Known, Apart
  <2>4. CASE /\ jobs' = [jobs EXCEPT ![w] = NoJob] /\ maps' = maps
             /\ jobs[w] # NoJob
             /\ ~raced' => w \in Requests /\ k = "TCP" /\ jobs[w].phase = "write"
    <3>1. Known'
      BY <1>0, <2>1, <2>4, KnownJobMoves DEF Known, ShapesKnown
    <3>2. ASSUME ~raced', NEW s \in Services
          PROVE  Followed(s)'
      BY <1>0, <1>1, <2>1, <2>4, <3>2, RequestStays
    <3>. QED
      BY <1>0, <1>1, <2>1, <2>4, <3>1, <3>2 DEF FollowInv, Known, Apart
  <2>. QED
    BY <2>2, <2>3, <2>4
<1>4. ASSUME NEW w \in Requests, NEW q \in Services, NEW want, SetExternalAccess(w, q, want)
      PROVE  FollowInv'
  <2>1. /\ UNCHANGED <<services, seenSvc, maps, seenMaps, events, raced>> /\ jobs[w].phase = "idle"
        /\ jobs' = [jobs EXCEPT ![w] = IF services[q] = NoService THEN NoJob ELSE Started(q, services[q], want)]
    BY <1>4 DEF SetExternalAccess
  <2>2. PICK j : /\ jobs' = [jobs EXCEPT ![w] = j]
                 /\ j = NoJob \/ (j = Started(q, services[q], want) /\ services[q] # NoService)
    BY <2>1
  <2>3. j = NoJob \/ JobKnown(w, j)
    BY <1>0, <2>2 DEF JobKnown, Started, Known, ShapesKnown
  <2>4. Known'
    BY <1>0, <2>1, <2>2, <2>3, KnownJobMoves DEF Known, ShapesKnown
  <2>5. ~raced' => \A s \in Services : Followed(s)'
    BY <1>0, <1>1, <2>1, <2>2, RequestStays
  <2>. QED
    BY <1>0, <2>1, <2>4, <2>5 DEF FollowInv, Known, Apart
<1>5. ASSUME NEW q \in Services, NEW to \in Shapes[q] \cup {NoService}, ChangeService(q, to)
      PROVE  FollowInv'
  <2>1. UNCHANGED <<maps, seenMaps, raced>>
    BY <1>5 DEF ChangeService
  <2>2. Known'
    BY <1>0, <1>5, KnownChange
  <2>3. ~raced' => \A s \in Services : Followed(s)'
    BY <1>1, <1>5, ChangeFollowed
  <2>. QED
    BY <1>0, <2>1, <2>2, <2>3 DEF FollowInv, Known, Apart
<1>6. CASE HandleEvent
  <2>1. UNCHANGED <<maps, seenMaps>>
    BY <1>6 DEF HandleEvent
  <2>2. Known'
    BY <1>0, <1>6, KnownEvent
  <2>3. ~raced' => \A s \in Services : Followed(s)'
    BY <1>1, <1>6, EventFollowed
  <2>. QED
    BY <1>0, <1>1, <2>1, <2>2, <2>3 DEF FollowInv, Known, Apart
<1>7. CASE DeliverServices \/ DeliverMaps \/ UNCHANGED accessVars
  <2>1. /\ UNCHANGED <<services, maps, events, jobs, raced>>
        /\ seenMaps' = seenMaps \/ seenMaps' = maps
        /\ seenSvc' = seenSvc \/ seenSvc' = services
    BY <1>7 DEF DeliverServices, DeliverMaps, accessVars
  <2>2. Known'
    BY <1>0, <2>1 DEF Known, ShapesKnown, EntriesKnown, JobsKnown, JobKnown, LastEvents, AccessInv
  <2>3. ASSUME NEW s, HalfDone(s)
        PROVE  HalfDone(s)'
    BY <2>1, <2>3 DEF HalfDone
  <2>4. ~raced => \A s \in Services : Followed(s)'
    BY <1>0, <2>1, <2>3, StillFollowed
  <2>. QED
    BY <1>0, <2>1, <2>2, <2>4 DEF FollowInv, Known, Apart
<1>. QED
  BY <1>2, <1>3, <1>4, <1>5, <1>6, <1>7 DEF AccessNext

\* The maps are empty at first.
LEMMA FollowStart ==
  ASSUME AccessInit
  PROVE  FollowInv
<1>1. \A s \in Services : (CHOOSE x \in Shapes[s] : TRUE) \in Shapes[s]
  BY ServicesAssumption
<1>2. /\ DOMAIN services = Services /\ \A s \in Services : services[s] \in Shapes[s]
      /\ seenSvc = services /\ seenMaps = maps /\ DOMAIN maps = Protos
      /\ \A k \in Protos : DOMAIN maps[k] = {}
      /\ DOMAIN events = {} /\ (\A w \in Writers : jobs[w] = NoJob) /\ raced = FALSE
  BY <1>1 DEF AccessInit, Nothing
<1>3. "warden" \in Writers
  BY DEF Writers
<1>4. \A s \in Services : Followed(s)
  BY <1>2, <1>3 DEF Followed, AimsRight, Settled, Good, Protos
<1>5. Apart(maps) /\ Apart(seenMaps)
  BY <1>2 DEF Apart, Protos
<1>. QED
  BY <1>2, <1>4, <1>5 DEF FollowInv, Known, ShapesKnown, EntriesKnown, JobsKnown, LastEvents

\* When everything is handled, every entry leads to a port a service has (the warden's
\* service controller and SetExternalAccess).
THEOREM EntriesAreFollowed == AccessSpec => []EntriesLeadSomewhere
<1>1. AccessInv /\ FollowInv => EntriesLeadSomewhere
  <2>. SUFFICES ASSUME FollowInv, events = <<>>, \A w \in Writers : jobs[w] = NoJob, ~raced,
                       NEW k \in Protos, NEW e \in DOMAIN maps[k]
                PROVE  LET s == maps[k][e][1]
                       IN /\ services[s] # NoService
                          /\ OneProtocolEach(s) =>
                               \E p \in services[s] : p.proto = k /\ p.port = maps[k][e][2]
    BY DEF EntriesLeadSomewhere
  <2>. DEFINE s == maps[k][e][1]
  <2>1. s \in Services /\ "warden" \in Writers /\ Requests \subseteq Writers
    BY DEF FollowInv, Known, EntriesKnown, Writers
  <2>2. DOMAIN events = {}
    OBVIOUS
  <2>3. Followed(s) /\ ~Pending(s)
    BY <2>1, <2>2 DEF FollowInv, Pending
  <2>4. ~Attended(s) /\ ~HalfDone(s)
    BY <2>1 DEF Attended, HalfDone
  <2>5. Good(s, k)
    BY <2>3, <2>4 DEF Followed, Settled, Protos
  <2>6. Right(s, k, maps[k][e][2])
    BY <2>5 DEF Good
  <2>. QED
    BY <2>6 DEF Right, LeadsTo
<1>2. AccessInv /\ FollowInv /\ [AccessNext]_accessVars => AccessInv' /\ FollowInv'
  BY FollowStep, AccessStep
<1>3. AccessInit => AccessInv /\ FollowInv
  BY FollowStart, AccessStart
<1>. QED
  BY <1>1, <1>2, <1>3, PTL DEF AccessSpec

-----------------------------------------------------------------------------
(* The proxy.  A path is read back by counting its segments: that is right   *)
(* only if the parts of a path are as long as the parser takes them to be,   *)
(* whatever the version and whatever is asked for.                           *)

\* The segments paths are made of, and what a path may be made for: the version of a
\* request need not be one that any cluster serves.
Segment == Word \cup Names \cup {"api", "apis", "watch", "namespaces", "n1", "events"}
PathAsks == [gv : Word \X Word, ns : BOOLEAN, name : Names \cup {Nil}, watch : BOOLEAN]

\* The segment that names the kind, counted from the version.
KindAt(u) == 1 + (IF u.watch THEN 1 ELSE 0) + (IF u.ns THEN 2 ELSE 0)

\* Two sequences in a row, and the second one again.
LEMMA Joined ==
  ASSUME NEW S, NEW s \in Seq(S), NEW t \in Seq(S)
  PROVE  /\ s \o t \in Seq(S) /\ Len(s \o t) = Len(s) + Len(t)
         /\ \A i \in 1..Len(s) : (s \o t)[i] = s[i]
         /\ \A i \in 1..Len(t) : (s \o t)[Len(s) + i] = t[i]
         /\ SubSeq(s \o t, Len(s) + 1, Len(s \o t)) = t
<1>1. /\ s \o t \in Seq(S) /\ Len(s \o t) = Len(s) + Len(t)
      /\ \A i \in 1..Len(s) : (s \o t)[i] = s[i]
      /\ \A i \in 1..Len(t) : (s \o t)[Len(s) + i] = t[i]
  OBVIOUS
<1>2. SubSeq(s \o t, Len(s) + 1, Len(s \o t)) = t
  OBVIOUS
<1> QED BY <1>1, <1>2

\* The part of a path that names the version.
LEMMA RootOf ==
  ASSUME NEW gv, gv[1] \in Word, gv[2] \in Word
  PROVE  LET g == gv[1]
             v == gv[2]
             r == Root(gv)
         IN /\ r \in Seq(Segment)
            /\ g = CoreGroup => Len(r) = 2 /\ r[1] = "api" /\ r[2] = v
            /\ g # CoreGroup => Len(r) = 3 /\ r[1] = "apis" /\ r[2] = g /\ r[3] = v
<1> DEFINE g == gv[1]
           v == gv[2]
           r == Root(gv)
<1>0. (g = CoreGroup => r = <<"api", v>>) /\ (g # CoreGroup => r = <<"apis", g, v>>)
  BY DEF Root
<1>a. g \in Word /\ v \in Word
  OBVIOUS
<1> HIDE DEF g, v, r
<1>1. g \in Segment /\ v \in Segment /\ "api" \in Segment /\ "apis" \in Segment
  BY <1>a DEF Segment
<1>2. CASE g = CoreGroup
  <2>1. r = <<"api", v>>
    BY <1>0, <1>2
  <2>2. r \in Seq(Segment)
    BY ONLY <1>1, <2>1
  <2>3. Len(r) = 2 /\ r[1] = "api" /\ r[2] = v
    BY ONLY <2>1
  <2> QED BY ONLY <1>2, <2>2, <2>3 DEF g, v, r
<1>3. CASE g # CoreGroup
  <2>1. r = <<"apis", g, v>>
    BY <1>0, <1>3
  <2>2. r \in Seq(Segment)
    BY ONLY <1>1, <2>1
  <2>3. Len(r) = 3 /\ r[1] = "apis" /\ r[2] = g /\ r[3] = v
    BY ONLY <2>1
  <2> QED BY ONLY <1>3, <2>2, <2>3 DEF g, v, r
<1> QED BY <1>2, <1>3 DEF g, v, r

\* Four sequences in a row.
LEMMA FourParts ==
  ASSUME NEW S, NEW w \in Seq(S), NEW n \in Seq(S), NEW e \in Seq(S), NEW m \in Seq(S),
         NEW r, r = ((w \o n) \o e) \o m
  PROVE  /\ r \in Seq(S) /\ Len(r) = Len(w) + Len(n) + Len(e) + Len(m)
         /\ \A i \in 1..Len(w) : r[i] = w[i]
         /\ \A i \in 1..Len(n) : r[Len(w) + i] = n[i]
         /\ \A i \in 1..Len(e) : r[Len(w) + Len(n) + i] = e[i]
         /\ \A i \in 1..Len(m) : r[Len(w) + Len(n) + Len(e) + i] = m[i]
<1> DEFINE s == w \o n
           t == s \o e
<1>1. /\ s \in Seq(S) /\ Len(s) = Len(w) + Len(n)
      /\ \A i \in 1..Len(w) : s[i] = w[i]
      /\ \A i \in 1..Len(n) : s[Len(w) + i] = n[i]
  BY Joined
<1>a. s \in Seq(S)
  BY <1>1
<1> HIDE DEF s
<1>2. /\ t \in Seq(S) /\ Len(t) = Len(s) + Len(e)
      /\ \A i \in 1..Len(s) : t[i] = s[i]
      /\ \A i \in 1..Len(e) : t[Len(s) + i] = e[i]
  BY ONLY <1>a, Joined, e \in Seq(S)
<1>b. t \in Seq(S)
  BY <1>2
<1>3. r = t \o m
  BY DEF s
<1> HIDE DEF t
<1>4. /\ r \in Seq(S) /\ Len(r) = Len(t) + Len(m)
      /\ \A i \in 1..Len(t) : r[i] = t[i]
      /\ \A i \in 1..Len(m) : r[Len(t) + i] = m[i]
  BY ONLY <1>b, <1>3, Joined, m \in Seq(S)
<1>5. Len(w) \in Nat /\ Len(n) \in Nat /\ Len(e) \in Nat /\ Len(m) \in Nat
  OBVIOUS
<1>6. Len(s) = Len(w) + Len(n) /\ Len(t) = Len(w) + Len(n) + Len(e) /\ Len(r) = Len(w) + Len(n) + Len(e) + Len(m)
  BY <1>1, <1>2, <1>4, <1>5
<1>7. \A i \in 1..Len(w) : r[i] = w[i]
  BY <1>1, <1>2, <1>4, <1>5, <1>6
<1>8. ASSUME NEW i \in 1..Len(n) PROVE r[Len(w) + i] = n[i]
  BY <1>1, <1>2, <1>4, <1>5, <1>6
<1>9. ASSUME NEW i \in 1..Len(e) PROVE r[Len(w) + Len(n) + i] = e[i]
  BY <1>2, <1>4, <1>5, <1>6
<1>10. ASSUME NEW i \in 1..Len(m) PROVE r[Len(w) + Len(n) + Len(e) + i] = m[i]
  BY <1>4, <1>5, <1>6
<1> QED BY <1>4, <1>6, <1>7, <1>8, <1>9, <1>10

\* The part of a path after the version: where the kind and the name stand.
LEMMA RestOf ==
  ASSUME NEW u \in PathAsks
  PROVE  LET r == Rest(u)
             k == KindAt(u)
         IN /\ r \in Seq(Segment) /\ k \in 1..4
            /\ u.name # Nil => Len(r) = k + 1 /\ r[k + 1] = u.name
            /\ u.name = Nil => Len(r) = k
            /\ r[k] = "events"
            /\ u.watch => r[1] = "watch"
            /\ u.watch /\ u.ns => k = 4 /\ r[2] = "namespaces"
            /\ u.watch /\ ~u.ns => k = 2
            /\ ~u.watch /\ u.ns => k = 3 /\ r[1] = "namespaces" /\ r[2] = "n1"
            /\ ~u.watch /\ ~u.ns => k = 1
<1> DEFINE w == IF u.watch THEN <<"watch">> ELSE <<>>
           n == IF u.ns THEN <<"namespaces", "n1">> ELSE <<>>
           e == <<"events">>
           m == IF u.name = Nil THEN <<>> ELSE <<u.name>>
           r == Rest(u)
           k == KindAt(u)
<1>1. u.watch \in BOOLEAN /\ u.ns \in BOOLEAN /\ u.name \in Segment \cup {Nil}
  BY DEF PathAsks, Segment
<1>2. "watch" \in Segment /\ "namespaces" \in Segment /\ "n1" \in Segment /\ "events" \in Segment
  BY DEF Segment
<1>3. w \in Seq(Segment) /\ Len(w) = (IF u.watch THEN 1 ELSE 0)
  BY <1>2
<1>4. n \in Seq(Segment) /\ Len(n) = (IF u.ns THEN 2 ELSE 0)
  BY <1>2
<1>5. e \in Seq(Segment) /\ Len(e) = 1 /\ e[1] = "events"
  BY <1>2
<1>6. m \in Seq(Segment) /\ Len(m) = (IF u.name = Nil THEN 0 ELSE 1)
  BY <1>1
<1>7. r = ((w \o n) \o e) \o m
  BY DEF Rest
<1>8. k = 1 + (IF u.watch THEN 1 ELSE 0) + (IF u.ns THEN 2 ELSE 0)
  BY DEF KindAt
<1>9. u.watch => w[1] = "watch"
  OBVIOUS
<1>10. u.ns => n[1] = "namespaces" /\ n[2] = "n1"
  OBVIOUS
<1>11. u.name # Nil => m[1] = u.name
  OBVIOUS
<1> HIDE DEF w, n, e, m, r, k
<1>12. /\ r \in Seq(Segment) /\ Len(r) = Len(w) + Len(n) + Len(e) + Len(m)
       /\ \A i \in 1..Len(w) : r[i] = w[i]
       /\ \A i \in 1..Len(n) : r[Len(w) + i] = n[i]
       /\ \A i \in 1..Len(e) : r[Len(w) + Len(n) + i] = e[i]
       /\ \A i \in 1..Len(m) : r[Len(w) + Len(n) + Len(e) + i] = m[i]
  <2>1. w \in Seq(Segment) /\ n \in Seq(Segment) /\ e \in Seq(Segment) /\ m \in Seq(Segment)
    BY <1>3, <1>4, <1>5, <1>6
  <2> QED BY ONLY <1>7, <2>1, FourParts
<1>13. k \in 1..4 /\ Len(w) + Len(n) + Len(e) = k
  BY <1>1, <1>3, <1>4, <1>5, <1>8
<1>14. u.name # Nil => Len(r) = k + 1 /\ r[k + 1] = u.name
  <2> SUFFICES ASSUME u.name # Nil PROVE Len(r) = k + 1 /\ r[k + 1] = u.name
    OBVIOUS
  <2>1. r[(Len(w) + Len(n) + Len(e)) + 1] = m[1]
    BY <1>6, <1>12
  <2> QED BY <1>6, <1>11, <1>12, <1>13, <2>1
<1>15. u.name = Nil => Len(r) = k
  BY <1>6, <1>12, <1>13
<1>16. r[k] = "events"
  <2>1. r[(Len(w) + Len(n)) + 1] = e[1]
    BY <1>5, <1>12
  <2>2. (Len(w) + Len(n)) + 1 = k
    BY <1>3, <1>4, <1>5, <1>13
  <2> QED BY <1>5, <2>1, <2>2
<1>17. u.watch => r[1] = "watch"
  BY <1>3, <1>9, <1>12
<1>18. ~u.watch /\ u.ns => k = 3 /\ r[1] = "namespaces" /\ r[2] = "n1"
  BY <1>1, <1>3, <1>4, <1>8, <1>10, <1>12
<1>19. ~u.watch /\ ~u.ns => k = 1
  BY <1>1, <1>8
<1>20. u.watch /\ u.ns => k = 4 /\ r[2] = "namespaces"
  BY <1>1, <1>3, <1>4, <1>8, <1>10, <1>12
<1>21. u.watch /\ ~u.ns => k = 2
  BY <1>1, <1>8
<1> QED
  BY <1>12, <1>13, <1>14, <1>15, <1>16, <1>17, <1>18, <1>19, <1>20, <1>21 DEF r, k

\* The length of the part for the version.
Depth(u) == IF u.gv[1] = CoreGroup THEN 2 ELSE 3

\* The two parts of a path: the first segment says how long the first part is.
LEMMA PathOf ==
  ASSUME NEW u \in PathAsks
  PROVE  LET ss == Path(u)
             b == Depth(u)
         IN /\ ss \in Seq(Segment) /\ b \in {2, 3}
            /\ Len(ss) = b + Len(Rest(u))
            /\ ss[1] = "api" <=> b = 2
            /\ b = 2 => ss[1] = "api" /\ u.gv = <<CoreGroup, ss[2]>> /\ ss[2] # "namespaces"
            /\ b = 3 => ss[1] = "apis" /\ u.gv = <<ss[2], ss[3]>> /\ ss[2] # "namespaces" /\ ss[3] # "namespaces"
            /\ \A i \in 1..Len(Rest(u)) : ss[b + i] = Rest(u)[i]
            /\ SubSeq(ss, b + 1, Len(ss)) = Rest(u)
<1> DEFINE ss == Path(u)
           b == Depth(u)
           g == u.gv[1]
           v == u.gv[2]
           r == Root(u.gv)
           t == Rest(u)
<1>1. u.gv = <<g, v>> /\ g \in Word /\ v \in Word
  BY DEF PathAsks
<1>2. g # "namespaces" /\ v # "namespaces"
  BY <1>1 DEF Word
<1>3. /\ r \in Seq(Segment)
      /\ g = CoreGroup => Len(r) = 2 /\ r[1] = "api" /\ r[2] = v
      /\ g # CoreGroup => Len(r) = 3 /\ r[1] = "apis" /\ r[2] = g /\ r[3] = v
  <2>1. g \in Word /\ v \in Word
    BY <1>1
  <2> QED BY ONLY <2>1, RootOf
<1>4. t \in Seq(Segment)
  BY RestOf
<1>5. ss = r \o t
  BY DEF Path
<1>6. (g = CoreGroup => b = 2) /\ (g # CoreGroup => b = 3)
  BY DEF Depth
<1> HIDE DEF ss, b, g, v, r, t
<1>7. Len(r) = b /\ b \in {2, 3}
  BY <1>3, <1>6
<1>8. r \in Seq(Segment)
  BY <1>3
<1>9. /\ ss \in Seq(Segment) /\ Len(ss) = Len(r) + Len(t)
      /\ \A i \in 1..Len(r) : ss[i] = r[i]
      /\ \A i \in 1..Len(t) : ss[Len(r) + i] = t[i]
      /\ SubSeq(ss, Len(r) + 1, Len(ss)) = t
  BY ONLY <1>4, <1>5, <1>8, Joined
<1>10. /\ b = 2 => ss[1] = "api" /\ g = CoreGroup /\ ss[2] = v
       /\ b = 3 => ss[1] = "apis" /\ ss[2] = g /\ ss[3] = v
  <2>1. ss[1] = r[1] /\ ss[2] = r[2] /\ (b = 3 => ss[3] = r[3])
    BY ONLY <1>7, <1>9
  <2>2. ASSUME b = 2 PROVE ss[1] = "api" /\ g = CoreGroup /\ ss[2] = v
    <3>1. g = CoreGroup
      BY ONLY <1>6, <2>2
    <3> QED BY ONLY <1>3, <2>1, <3>1
  <2>3. ASSUME b = 3 PROVE ss[1] = "apis" /\ ss[2] = g /\ ss[3] = v
    <3>1. g # CoreGroup
      BY ONLY <1>6, <2>3
    <3> QED BY ONLY <1>3, <2>1, <2>3, <3>1
  <2> QED BY <2>2, <2>3
<1>11. /\ ss[1] = "api" <=> b = 2
       /\ b = 2 => ss[1] = "api" /\ u.gv = <<CoreGroup, ss[2]>> /\ ss[2] # "namespaces"
       /\ b = 3 => ss[1] = "apis" /\ u.gv = <<ss[2], ss[3]>> /\ ss[2] # "namespaces" /\ ss[3] # "namespaces"
  BY <1>1, <1>2, <1>7, <1>10
<1>12. /\ Len(ss) = b + Len(t)
       /\ \A i \in 1..Len(t) : ss[b + i] = t[i]
       /\ SubSeq(ss, b + 1, Len(ss)) = t
  BY <1>7, <1>9
<1> QED BY <1>7, <1>9, <1>11, <1>12 DEF t, ss, b

\* ParseURL and path.Parse read back what a path was made for, a watch excepted.
LEMMA ReadsBack ==
  ASSUME NEW u \in PathAsks, ~u.watch
  PROVE  /\ ParseURL(Path(u)) = [gv |-> u.gv, resource |-> "events"]
         /\ Parse(Path(u)) = [resource |-> "events", name |-> u.name]
         /\ NeedModifyResponse(Path(u), FALSE)
<1> DEFINE ss == Path(u)
           r == Rest(u)
           b == Depth(u)
           k == KindAt(u)
<1>1. /\ ss \in Seq(Segment) /\ b \in {2, 3}
      /\ Len(ss) = b + Len(r)
      /\ ss[1] = "api" <=> b = 2
      /\ b = 2 => ss[1] = "api" /\ u.gv = <<CoreGroup, ss[2]>> /\ ss[2] # "namespaces"
      /\ b = 3 => ss[1] = "apis" /\ u.gv = <<ss[2], ss[3]>> /\ ss[2] # "namespaces" /\ ss[3] # "namespaces"
      /\ \A i \in 1..Len(r) : ss[b + i] = r[i]
  BY ONLY u \in PathAsks, PathOf
<1>2. /\ r \in Seq(Segment) /\ k \in {1, 3}
      /\ u.name # Nil => Len(r) = k + 1 /\ r[k + 1] = u.name
      /\ u.name = Nil => Len(r) = k
      /\ r[k] = "events"
      /\ u.ns => k = 3 /\ r[1] = "namespaces"
      /\ ~u.ns => k = 1
  <2>1. u.ns \in BOOLEAN
    BY DEF PathAsks
  <2> QED BY <2>1, RestOf
<1>3. r[1] # "watch"
  BY <1>2
<1> HIDE DEF ss, r, b, k
<1>4. ss[b + 1] = r[1] /\ ss[b + k] = "events" /\ b + k <= Len(ss) /\ 1 <= b + k
  BY <1>1, <1>2
<1>5. u.name # Nil => Len(ss) = b + k + 1 /\ ss[b + k + 1] = u.name
  <2> SUFFICES ASSUME u.name # Nil PROVE Len(ss) = b + k + 1 /\ ss[b + k + 1] = u.name
    OBVIOUS
  <2>1. ss[b + (k + 1)] = r[k + 1]
    BY <1>1, <1>2
  <2> QED BY <1>1, <1>2, <2>1
<1>6. u.name = Nil => Len(ss) = b + k
  BY <1>1, <1>2
<1>7. IsNamespaced(ss) <=> u.ns
  <2>1. CASE u.ns
    <3>1. b + 1 \in 1..(Len(ss) - 1) /\ ss[b + 1] = "namespaces" /\ Len(ss) > 4
      BY <1>1, <1>2, <1>4, <1>5, <1>6, <2>1
    <3> QED BY <2>1, <3>1 DEF IsNamespaced
  <2>2. CASE ~u.ns
    <3>1. ASSUME NEW i \in 1..(Len(ss) - 1), Len(ss) > 4 PROVE ss[i] # "namespaces"
      <4>1. Len(ss) = 5 /\ b = 3 /\ k = 1
        BY <1>1, <1>2, <1>5, <1>6, <2>2, <3>1
      <4>2. ss[1] = "apis" /\ ss[2] # "namespaces" /\ ss[3] # "namespaces" /\ ss[4] = "events"
        BY <1>1, <1>4, <4>1
      <4>3. i \in {1, 2, 3, 4}
        BY <4>1
      <4> QED BY <4>2, <4>3
    <3> QED BY <2>2, <3>1 DEF IsNamespaced
  <2> QED BY <2>1, <2>2
<1>8. At(ss) = b + k
  BY <1>1, <1>2, <1>4, <1>7 DEF At
<1>9. ParseURL(ss) = [gv |-> u.gv, resource |-> "events"]
  <2>1. CASE b = 2
    BY <1>1, <1>4, <1>8, <2>1 DEF ParseURL
  <2>2. CASE b = 3
    BY <1>1, <1>4, <1>8, <2>2 DEF ParseURL
  <2> QED BY <1>1, <2>1, <2>2
<1>10. Parse(ss) = [resource |-> "events", name |-> u.name]
  <2>1. CASE u.name = Nil
    BY <1>1, <1>2, <1>4, <1>6, <1>8, <2>1 DEF Parse
  <2>2. CASE u.name # Nil
    BY <1>1, <1>2, <1>4, <1>5, <1>8, <2>2 DEF Parse
  <2> QED BY <2>1, <2>2
<1>11. NeedModifyResponse(ss, FALSE)
  BY <1>1, <1>3, <1>4 DEF NeedModifyResponse
<1> QED BY <1>9, <1>10, <1>11 DEF ss

\* ConvertURL gives the path of the same object in another version.
LEMMA Converts ==
  ASSUME NEW u \in PathAsks, NEW gv \in Word \X Word
  PROVE  ConvertURL(Path(u), gv) = Path([u EXCEPT !.gv = gv])
<1> DEFINE ss == Path(u)
           b == Depth(u)
<1>1. /\ b \in {2, 3} /\ (ss[1] = "api" <=> b = 2)
      /\ SubSeq(ss, b + 1, Len(ss)) = Rest(u)
  BY PathOf
<1>2. Rest([u EXCEPT !.gv = gv]) = Rest(u) /\ [u EXCEPT !.gv = gv].gv = gv
  BY DEF PathAsks, Rest
<1>3. Path([u EXCEPT !.gv = gv]) = Root(gv) \o Rest(u)
  BY <1>2 DEF Path
<1> HIDE DEF ss, b
<1>4. ConvertURL(ss, gv) = Root(gv) \o SubSeq(ss, b + 1, Len(ss))
  <2>1. (IF ss[1] = "api" THEN 3 ELSE 4) = b + 1
    BY <1>1
  <2> QED BY <2>1 DEF ConvertURL
<1> QED BY <1>1, <1>3, <1>4 DEF ss

\* Paths that are the same are of the same object.
LEMMA SameName ==
  ASSUME NEW u \in PathAsks, NEW w \in PathAsks, Path(u) = Path(w)
  PROVE  u.name = w.name
<1>1. Depth(u) = Depth(w)
  <2>1. /\ Depth(u) \in {2, 3} /\ (Path(u)[1] = "api" <=> Depth(u) = 2)
        /\ Depth(w) \in {2, 3} /\ (Path(w)[1] = "api" <=> Depth(w) = 2)
    BY PathOf
  <2> QED BY <2>1
<1>2. Rest(u) = Rest(w)
  <2>1. /\ SubSeq(Path(u), Depth(u) + 1, Len(Path(u))) = Rest(u)
        /\ SubSeq(Path(w), Depth(w) + 1, Len(Path(w))) = Rest(w)
    BY PathOf
  <2> QED BY <1>1, <2>1
<1>3. u.watch \in BOOLEAN /\ u.ns \in BOOLEAN /\ w.watch \in BOOLEAN /\ w.ns \in BOOLEAN
  BY DEF PathAsks
<1> DEFINE r == Rest(w)
           k == KindAt(w)
           j == KindAt(u)
<1>4. /\ k \in 1..4
      /\ w.name # Nil => Len(r) = k + 1 /\ r[k + 1] = w.name
      /\ w.name = Nil => Len(r) = k
      /\ r[k] = "events"
      /\ w.watch => r[1] = "watch"
      /\ w.watch /\ w.ns => k = 4 /\ r[2] = "namespaces"
      /\ w.watch /\ ~w.ns => k = 2
      /\ ~w.watch /\ w.ns => k = 3 /\ r[1] = "namespaces"
      /\ ~w.watch /\ ~w.ns => k = 1
  BY RestOf
<1>5. /\ j \in 1..4
      /\ u.name # Nil => Len(r) = j + 1 /\ r[j + 1] = u.name
      /\ u.name = Nil => Len(r) = j
      /\ r[j] = "events"
      /\ u.watch => r[1] = "watch"
      /\ u.watch /\ u.ns => j = 4 /\ r[2] = "namespaces"
      /\ u.watch /\ ~u.ns => j = 2
      /\ ~u.watch /\ u.ns => j = 3 /\ r[1] = "namespaces"
      /\ ~u.watch /\ ~u.ns => j = 1
  BY <1>2, RestOf
<1> HIDE DEF r, k, j
<1>6. j = k
  <2>1. CASE w.watch
    <3>1. u.watch
      BY <1>3, <1>4, <1>5, <2>1
    <3> QED BY <1>3, <1>4, <1>5, <2>1, <3>1
  <2>2. CASE ~w.watch
    <3>1. ~u.watch
      BY <1>3, <1>4, <1>5, <2>2
    <3> QED BY <1>3, <1>4, <1>5, <2>2, <3>1
  <2> QED BY <2>1, <2>2
<1> QED BY <1>4, <1>5, <1>6

\* ParseURL reads the version back, also of a watch.
LEMMA VersionBack ==
  ASSUME NEW u \in PathAsks
  PROVE  ParseURL(Path(u)).gv = u.gv
<1> DEFINE ss == Path(u)
           b == Depth(u)
<1>1. /\ b \in {2, 3}
      /\ ss[1] = "api" <=> b = 2
      /\ b = 2 => u.gv = <<CoreGroup, ss[2]>>
      /\ b = 3 => u.gv = <<ss[2], ss[3]>>
  BY PathOf
<1> HIDE DEF ss, b
<1>2. ParseURL(ss).gv = IF ss[1] = "api" THEN <<CoreGroup, ss[2]>> ELSE <<ss[2], ss[3]>>
  BY DEF ParseURL
<1> QED BY <1>1, <1>2 DEF ss

\* The path is read as of the version it names.
Plain(via, gv) == via = "proxy" => ReadAs(gv) = {gv}

\* A request on its way: its path is the one of what was asked for, in a version that
\* the cluster serves unless the discovery was out of date or the path was misread.
CallFits(c, layout) ==
  /\ {"want", "path", "target", "stale", "greet", "via", "cond", "num"} \subseteq DOMAIN c
  /\ c.want \in PathAsks /\ c.stale \in BOOLEAN
  /\ c.target \in Word \X Word
  /\ c.path = Path([c.want EXCEPT !.gv = c.target])
  /\ c.greet # "IsNeedConvert" => c.target = c.want.gv
  /\ ~c.want.watch /\ ~c.stale /\ layout # <<>> /\ Plain(c.via, c.want.gv) => c.target \in Range(layout)
  /\ c.via \in {"proxy", "handler"}

\* The inductive invariant of the answers.
ProxyInv ==
  /\ served \in Layouts /\ known \in Layouts \cup {Nil}
  /\ conv \in [of : {"none", "current", "former"}, known : Layouts \cup {Nil}, order : GroupOrders]
  /\ call # Nil => CallFits(call, served)
  /\ AnswersAsAsked /\ NotFoundIsStale

\* The versions of a layout.
LEMMA LayoutOf ==
  ASSUME NEW l \in Layouts
  PROVE  /\ Range(l) \subseteq Word \X Word
         /\ Range(l) \subseteq Versions
         /\ Nil \notin Range(l)
         /\ l # <<>> => l[1] \in Range(l)
<1>1. l \in Seq(Word \X Word) /\ Nil \notin Versions
  BY LayoutsAssumption
<1>2. Range(l) \subseteq Versions
  BY DEF Versions
<1>3. Range(l) \subseteq Word \X Word
  BY <1>1 DEF Range
<1>4. l # <<>> => l[1] \in Range(l)
  BY <1>1 DEF Range
<1> QED BY <1>1, <1>2, <1>3, <1>4

\* GvkGreeting says what is in the discovery it asks.
LEMMA GreetingFits ==
  ASSUME NEW l \in Layouts \cup {<<>>}, NEW gv
  PROVE  /\ GvkGreeting(l, gv) = "IsNeedConvert" => l \in Layouts /\ l[1] \in Range(l) /\ l[1] \in Word \X Word
         /\ GvkGreeting(l, gv) # "IsNeedConvert" /\ l # <<>> => gv \in Range(l)
<1>1. CASE gv \in Range(l)
  BY <1>1 DEF GvkGreeting
<1>2. CASE gv \notin Range(l) /\ l = <<>>
  <2>1. GvkGreeting(l, gv) = "IsNotSupport"
    BY <1>2 DEF GvkGreeting
  <2> QED BY <1>2, <2>1
<1>3. CASE gv \notin Range(l) /\ l # <<>>
  <2>1. GvkGreeting(l, gv) = "IsNeedConvert"
    BY <1>3 DEF GvkGreeting
  <2>2. l \in Layouts
    BY <1>3
  <2> QED BY <1>3, <2>1, <2>2, LayoutOf
<1> QED BY <1>1, <1>2, <1>3

\* A path that may be read in one way only is read that way.
LEMMA OneWay ==
  ASSUME NEW gv, NEW order, ReadAs(gv) = {gv}
  PROVE  Gvr2Gvk(gv, order) = gv
<1> DEFINE first == {r \in ReadAs(gv) : \A q \in ReadAs(gv) \ {r} : Before(order, r[1], q[1])}
<1>1. first = {gv}
  OBVIOUS
<1>2. Gvr2Gvk(gv, order) = IF first = {} THEN Nil ELSE CHOOSE r \in first : TRUE
  BY DEF Gvr2Gvk
<1> HIDE DEF first
<1>3. (CHOOSE r \in first : TRUE) = gv
  BY <1>1
<1> QED BY <1>1, <1>2, <1>3

\* What the cluster serves are paths.
LEMMA PathsFit == Paths \subseteq PathAsks
<1>1. Versions \subseteq Word \X Word
  BY LayoutOf DEF Versions
<1> QED BY <1>1 DEF Paths, PathAsks

\* A request is taken, its path and version converted.
LEMMA GreetKeeps ==
  ASSUME ProxyInv, NEW via \in {"proxy", "handler"}, NEW u \in PathAsks, u.gv # Nil,
         NEW method, NEW body, NEW cond, NEW num,
         Greet(via, u, method, body, cond, num)
  PROVE  ProxyInv'
<1> DEFINE ss == Path(u)
           url == ParseURL(ss)
           kind == IF via = "handler" THEN u.gv
                   ELSE IF url.resource = "events" THEN Gvr2Gvk(url.gv, conv.order) ELSE Nil
           greet(seen) == IF kind = Nil THEN "IsUnknown" ELSE GvkGreeting(seen, kind)
           read(seen) == IF Kept(via) = Nil /\ seen # served THEN Nil ELSE seen
           former == via = "proxy" /\ conv.of = "former"
<1>1. PICK seen \in Discovered(via) :
        /\ call' = [via |-> via, want |-> u, method |-> method, greet |-> greet(seen), num |-> num, cond |-> cond,
                    path |-> IF greet(seen) = "IsNeedConvert" THEN ConvertURL(ss, seen[1]) ELSE ss,
                    target |-> IF greet(seen) = "IsNeedConvert" THEN seen[1] ELSE u.gv,
                    body |-> body, stale |-> seen # served]
        /\ known' = IF former THEN known ELSE read(seen)
        /\ conv' = [conv EXCEPT !.of = IF via = "proxy" /\ @ = "none" THEN "current" ELSE @,
                                !.known = IF former THEN read(seen) ELSE @]
        /\ reply' = Nil /\ served' = served
  BY DEF Greet
<1> DEFINE g == greet(seen)
           to == IF g = "IsNeedConvert" THEN seen[1] ELSE u.gv
<1>2. /\ call'.via = via /\ call'.want = u /\ call'.greet = g /\ call'.target = to
      /\ call'.stale = (seen # served)
      /\ call'.path = IF g = "IsNeedConvert" THEN ConvertURL(ss, to) ELSE ss
      /\ {"want", "path", "target", "stale", "greet", "via", "cond", "num"} \subseteq DOMAIN call'
  BY <1>1
<1>3. Kept(via) \in Layouts \cup {Nil}
  BY DEF Kept, ProxyInv
<1>4. seen \in Layouts \cup {<<>>} /\ read(seen) \in Layouts \cup {Nil}
  BY <1>1, <1>3 DEF Discovered, ProxyInv
<1>5. known' \in Layouts \cup {Nil}
  BY <1>1, <1>4 DEF ProxyInv
<1>6. conv' \in [of : {"none", "current", "former"}, known : Layouts \cup {Nil}, order : GroupOrders]
  BY <1>1, <1>4 DEF ProxyInv
<1>7. u.gv \in Word \X Word /\ url.gv = u.gv
  BY VersionBack DEF PathAsks
<1>8. ASSUME g = "IsNeedConvert" PROVE seen \in Layouts /\ seen[1] \in Range(seen) /\ seen[1] \in Word \X Word
  <2>1. GvkGreeting(seen, kind) = "IsNeedConvert"
    BY <1>8
  <2> QED BY <1>4, <2>1, GreetingFits
<1>9. to \in Word \X Word
  BY <1>7, <1>8
<1>10. ASSUME ~u.watch, seen = served, served # <<>>, Plain(via, u.gv) PROVE to \in Range(served)
  <2>1. kind = u.gv
    <3>1. CASE via = "handler"
      BY <3>1
    <3>2. CASE via = "proxy"
      <4>1. url.resource = "events"
        <5>1. url = [gv |-> u.gv, resource |-> "events"]
          BY <1>10, ReadsBack
        <5> QED BY <5>1
      <4>2. Gvr2Gvk(u.gv, conv.order) = u.gv
        BY <1>10, <3>2, OneWay DEF Plain
      <4>3. via # "handler" /\ url.gv = u.gv
        BY <1>7, <3>2
      <4> QED BY <4>1, <4>2, <4>3
    <3> QED BY <3>1, <3>2
  <2>2. CASE g = "IsNeedConvert"
    BY <1>8, <1>10, <2>2
  <2>3. CASE g # "IsNeedConvert"
    <3>1. GvkGreeting(seen, u.gv) # "IsNeedConvert"
      BY <2>1, <2>3
    <3>2. u.gv \in Range(seen)
      BY <1>4, <1>10, <3>1, GreetingFits
    <3> QED BY <1>10, <2>3, <3>2
  <2> QED BY <2>2, <2>3
<1> HIDE DEF g, to, url, kind
<1>11. call'.path = Path([u EXCEPT !.gv = to])
  <2>1. CASE g = "IsNeedConvert"
    <3>1. ConvertURL(ss, to) = Path([u EXCEPT !.gv = to])
      BY <1>9, Converts
    <3> QED BY <1>2, <2>1, <3>1
  <2>2. CASE g # "IsNeedConvert"
    <3>1. to = u.gv
      BY <2>2 DEF to
    <3>2. [u EXCEPT !.gv = u.gv] = u
      BY DEF PathAsks
    <3> QED BY <1>2, <2>2, <3>1, <3>2
  <2> QED BY <2>1, <2>2
<1>12. g # "IsNeedConvert" => to = u.gv
  BY DEF to
<1>13. CallFits(call', served)
  BY <1>2, <1>9, <1>10, <1>11, <1>12 DEF CallFits
<1> QED
  BY <1>1, <1>5, <1>6, <1>13 DEF ProxyInv, AnswersAsAsked, NotFoundIsStale

\* An answer is about the request it answers.
LEMMA AnsweredIs ==
  ASSUME NEW status, NEW gv, NEW names, NEW total, Answered(status, gv, names, total)
  PROVE  /\ call' = Nil
         /\ reply'.status = status /\ reply'.gv = gv /\ reply'.names = names
         /\ reply'.want = call.want /\ reply'.stale = call.stale
         /\ reply'.greet = call.greet /\ reply'.via = call.via
  BY DEF Answered

\* The answers there are.
LEMMA ForwardAnswers ==
  ASSUME Forward
  PROVE  \/ Answered("bad", Nil, <<>>, Nil)
         \/ /\ ~\E u \in Meaning(call.path) : u.gv \in Range(served)
            /\ Answered(IF served = <<>> THEN "nokind" ELSE "notfound", Nil, <<>>, Nil)
         \/ \E u \in Meaning(call.path) :
              /\ ~Unsendable(call)
              /\ \/ Answered("as is", u.gv, <<>>, Nil)
                 \/ \E names, total : Answered("list", Back(call, u.gv), names, total)
                 \/ Answered("bad", Nil, <<>>, Nil)
                 \/ \E status \in {"lost", "object"} : Answered(status, Back(call, u.gv), <<u.name>>, Nil)
<1> DEFINE asked == {u \in Meaning(call.path) : u.gv \in Range(served)}
<1>1. CASE Unsendable(call) /\ Answered("bad", Nil, <<>>, Nil)
  BY <1>1
<1>2. CASE asked = {} /\ Answered(IF served = <<>> THEN "nokind" ELSE "notfound", Nil, <<>>, Nil)
  BY <1>2
<1>3. ASSUME NEW u \in asked, ~Unsendable(call), IF u.name = Nil THEN ForwardList(u.gv) ELSE ForwardOne(u.gv, u.name)
      PROVE  /\ u \in Meaning(call.path)
             /\ \/ Answered("as is", u.gv, <<>>, Nil)
                \/ \E names, total : Answered("list", Back(call, u.gv), names, total)
                \/ Answered("bad", Nil, <<>>, Nil)
                \/ \E status \in {"lost", "object"} : Answered(status, Back(call, u.gv), <<u.name>>, Nil)
  <2>1. CASE u.name = Nil
    BY <1>3, <2>1 DEF ForwardList
  <2>2. CASE u.name # Nil
    BY <1>3, <2>2 DEF ForwardOne
  <2> QED BY <2>1, <2>2
<1> QED BY <1>1, <1>2, <1>3 DEF Forward

\* The cluster is asked about the object the client asked about.
LEMMA NameKept ==
  ASSUME ProxyInv, call # Nil, NEW u \in Meaning(call.path)
  PROVE  u.name = call.want.name
<1> DEFINE v == [call.want EXCEPT !.gv = call.target]
<1>1. v \in PathAsks /\ v.name = call.want.name /\ call.path = Path(v)
  BY DEF ProxyInv, CallFits, PathAsks
<1> HIDE DEF v
<1>2. u \in PathAsks /\ Path(u) = Path(v)
  BY <1>1, PathsFit DEF Meaning
<1> QED BY <1>1, <1>2, SameName

\* A path that is no watch is read back as it was made.
LEMMA MeantIs ==
  ASSUME NEW v \in PathAsks, ~v.watch, NEW u \in Meaning(Path(v))
  PROVE  u.gv = v.gv
<1>1. u \in PathAsks /\ Path(u) = Path(v)
  BY PathsFit DEF Meaning
<1> QED BY <1>1, VersionBack

\* The answer of the cluster is converted back.
LEMMA ForwardKeeps == ProxyInv /\ Forward => ProxyInv'
<1> SUFFICES ASSUME ProxyInv, Forward PROVE ProxyInv'
  OBVIOUS
<1> DEFINE w == call.want
           v == [w EXCEPT !.gv = call.target]
<1>1. CallFits(call, served) /\ call # Nil
  BY DEF ProxyInv, Forward
<1>2. w \in PathAsks /\ w.watch \in BOOLEAN
  BY <1>1 DEF CallFits, PathAsks
<1>3. v \in PathAsks /\ v.watch = w.watch /\ v.name = w.name /\ call.path = Path(v) /\ v.gv = call.target
  BY <1>1 DEF CallFits, PathAsks
<1> HIDE DEF v
<1>4. ASSUME NEW u \in Meaning(call.path) PROVE u.name = w.name
  BY <1>1, NameKept
<1>a. ASSUME ~w.watch, NEW u \in Meaning(call.path), ~Unsendable(call)
      PROVE  /\ \/ Back(call, u.gv) = w.gv
                \/ call.via = "proxy" /\ call.greet = "IsNeedConvert" /\ ~Convertible(Back(call, u.gv), w.gv)
             /\ Parse(Path(w)) = [resource |-> "events", name |-> w.name]
  <2>1. NeedModifyResponse(Path(w), FALSE) /\ w.watch = FALSE
    BY <1>2, <1>a, ReadsBack
  <2>2. Parse(Path(w)) = [resource |-> "events", name |-> w.name]
    BY <1>2, <1>a, ReadsBack
  <2>3. u.gv = call.target
    <3>1. ~v.watch /\ u \in Meaning(Path(v))
      BY <1>3, <1>a
    <3> QED BY <1>3, <3>1, MeantIs
  <2>4. CASE call.greet # "IsNeedConvert"
    <3>1. u.gv = w.gv
      BY <1>1, <2>3, <2>4 DEF CallFits
    <3> QED BY <2>2, <2>4, <3>1 DEF Back
  <2>5. CASE call.greet = "IsNeedConvert" /\ Convertible(u.gv, w.gv)
    BY <2>1, <2>2, <2>5 DEF Back
  <2>6. CASE call.greet = "IsNeedConvert" /\ ~Convertible(u.gv, w.gv)
    <3>1. Back(call, u.gv) = u.gv
      BY <2>6 DEF Back
    <3>2. call.via # "handler"
      BY <1>a, <2>3, <2>6 DEF Unsendable, Convertible
    <3>3. call.via = "proxy"
      BY <1>1, <3>2 DEF CallFits
    <3> QED BY <2>2, <2>6, <3>1, <3>3
  <2> QED BY <2>4, <2>5, <2>6
<1>5. ASSUME ~w.watch, ~call.stale, served # <<>>, Plain(call.via, w.gv)
      PROVE  \E u \in Meaning(call.path) : u.gv \in Range(served)
  <2>1. call.target \in Range(served)
    BY <1>1, <1>5 DEF CallFits
  <2>2. call.target \in Versions
    BY <2>1, LayoutOf DEF ProxyInv
  <2>3. v \in Paths
    BY <1>3, <1>5, <2>2 DEF Paths, PathAsks
  <2>4. v \in Meaning(call.path)
    BY <1>3, <1>5, <2>3 DEF Meaning
  <2> QED BY <1>3, <2>1, <2>4
<1>6. call' = Nil /\ AnswersAsAsked' /\ NotFoundIsStale'
  <2>1. CASE /\ ~\E u \in Meaning(call.path) : u.gv \in Range(served)
             /\ Answered(IF served = <<>> THEN "nokind" ELSE "notfound", Nil, <<>>, Nil)
    <3>1. /\ call' = Nil /\ reply'.names = <<>>
          /\ reply'.status = IF served = <<>> THEN "nokind" ELSE "notfound"
          /\ reply'.want = w /\ reply'.stale = call.stale /\ reply'.via = call.via
      BY <2>1, AnsweredIs
    <3>2. served # <<>> => w.watch \/ call.stale \/ ~Plain(call.via, w.gv)
      BY <1>5, <2>1
    <3>3. AnswersAsAsked'
      BY <3>1 DEF AnswersAsAsked
    <3>4. NotFoundIsStale'
      BY <3>1, <3>2 DEF NotFoundIsStale, Plain
    <3> QED BY <3>1, <3>3, <3>4
  <2>2. ASSUME NEW u \in Meaning(call.path), NEW status \in {"lost", "object"}, ~Unsendable(call),
               Answered(status, Back(call, u.gv), <<u.name>>, Nil)
        PROVE  call' = Nil /\ AnswersAsAsked' /\ NotFoundIsStale'
    <3>1. /\ call' = Nil
          /\ reply'.status = status /\ reply'.gv = Back(call, u.gv) /\ reply'.names = <<u.name>>
          /\ reply'.want = w /\ reply'.via = call.via /\ reply'.greet = call.greet
      BY <2>2, AnsweredIs
    <3>2. reply'.names[1] = u.name
      BY <3>1
    <3>3. NotFoundIsStale'
      BY <3>1 DEF NotFoundIsStale
    <3>4. AnswersAsAsked'
      <4> SUFFICES ASSUME ~w.watch
                   PROVE  /\ \/ reply'.gv = w.gv
                             \/ /\ reply'.via = "proxy" /\ reply'.greet = "IsNeedConvert"
                                /\ ~Convertible(reply'.gv, w.gv)
                          /\ Parse(Path(w)) = [resource |-> "events", name |-> reply'.names[1]]
        BY <3>1 DEF AnswersAsAsked
      <4> QED BY <1>4, <1>a, <2>2, <3>1, <3>2
    <3> QED BY <3>1, <3>3, <3>4
  <2>3. ASSUME NEW u \in Meaning(call.path), NEW names, NEW total, ~Unsendable(call),
               Answered("list", Back(call, u.gv), names, total)
        PROVE  call' = Nil /\ AnswersAsAsked' /\ NotFoundIsStale'
    <3>1. /\ call' = Nil
          /\ reply'.status = "list" /\ reply'.gv = Back(call, u.gv)
          /\ reply'.want = w /\ reply'.via = call.via /\ reply'.greet = call.greet
      BY <2>3, AnsweredIs
    <3>2. NotFoundIsStale'
      BY <3>1 DEF NotFoundIsStale
    <3>3. AnswersAsAsked'
      <4> SUFFICES ASSUME ~w.watch
                   PROVE  \/ reply'.gv = w.gv
                          \/ /\ reply'.via = "proxy" /\ reply'.greet = "IsNeedConvert"
                             /\ ~Convertible(reply'.gv, w.gv)
        BY <3>1 DEF AnswersAsAsked
      <4> QED BY <1>a, <2>3, <3>1
    <3> QED BY <3>1, <3>2, <3>3
  <2>4. ASSUME NEW gv, Answered("as is", gv, <<>>, Nil) \/ Answered("bad", Nil, <<>>, Nil)
        PROVE  call' = Nil /\ AnswersAsAsked' /\ NotFoundIsStale'
    BY <2>4, AnsweredIs DEF AnswersAsAsked, NotFoundIsStale
  <2> QED BY <2>1, <2>2, <2>3, <2>4, ForwardAnswers
<1> QED BY <1>6 DEF ProxyInv, Forward

\* Nothing has been asked.
LEMMA ProxyStart == ProxyInit => ProxyInv
  BY LayoutsAssumption DEF ProxyInit, ProxyInv, AnswersAsAsked, NotFoundIsStale

\* Every step keeps the invariant.
LEMMA ProxyStep == ProxyInv /\ [ProxyNext]_proxyVars => ProxyInv'
<1> SUFFICES ASSUME ProxyInv, [ProxyNext]_proxyVars PROVE ProxyInv'
  OBVIOUS
<1>1. ASSUME NEW r \in Lists, NEW num \in 1..MaxPage, GetList(r.via, r.gv, r.ns, r.watch, r.cond, num)
      PROVE  ProxyInv'
  <2>1. [gv |-> r.gv, ns |-> r.ns, name |-> Nil, watch |-> r.watch] \in PathAsks
    BY LayoutsAssumption DEF PathAsks
  <2>2. r.via \in {"proxy", "handler"} /\ r.gv # Nil
    BY LayoutsAssumption
  <2> QED BY <1>1, <2>1, <2>2, GreetKeeps DEF GetList
<1>2. ASSUME NEW r \in Singles, AtOne(r.via, r.gv, r.name, r.method, r.body)
      PROVE  ProxyInv'
  <2>1. [gv |-> r.gv, ns |-> TRUE, name |-> r.name, watch |-> FALSE] \in PathAsks
    BY LayoutsAssumption DEF PathAsks
  <2>2. r.via \in {"proxy", "handler"} /\ r.gv # Nil
    BY LayoutsAssumption
  <2> QED BY <1>2, <2>1, <2>2, GreetKeeps DEF AtOne
<1>3. CASE Forward
  BY <1>3, ForwardKeeps
<1>4. call # Nil => Late(call) = Nil \/ CallFits(Late(call), served')
  BY DEF Late, CallFits, ProxyInv
<1>5. ASSUME NEW l \in Layouts, Upgrade(l) PROVE ProxyInv'
  BY <1>4, <1>5 DEF Upgrade, ProxyInv, AnswersAsAsked, NotFoundIsStale, Late
<1>6. CASE RefreshCacheDiscovery
  BY <1>6 DEF RefreshCacheDiscovery, ProxyInv, AnswersAsAsked, NotFoundIsStale
<1>7. CASE AddAgain
  <2>1. conv' \in [of : {"none", "current", "former"}, known : Layouts \cup {Nil}, order : GroupOrders]
    BY <1>7 DEF AddAgain, ProxyInv
  <2> QED BY <1>7, <2>1 DEF AddAgain, ProxyInv, AnswersAsAsked, NotFoundIsStale
<1>8. ASSUME NEW n \in Names, Toggle(n) PROVE ProxyInv'
  BY <1>8 DEF Toggle, ProxyInv, AnswersAsAsked, NotFoundIsStale
<1>9. CASE UNCHANGED proxyVars
  BY <1>9 DEF proxyVars, ProxyInv, AnswersAsAsked, NotFoundIsStale
<1> QED
  BY <1>1, <1>2, <1>3, <1>5, <1>6, <1>7, <1>8, <1>9 DEF ProxyNext

\* Objects come back in the version they were asked for in, unless they come from a
\* version that cannot be converted, and the object is the one that was asked about,
\* whatever version the cluster serves (ProxyHandle).
THEOREM AnswersFit == ProxySpec => []AnswersAsAsked
<1>1. ProxyInv => AnswersAsAsked
  BY DEF ProxyInv
<1> QED BY <1>1, ProxyStart, ProxyStep, PTL DEF ProxySpec

\* A request for a kind that is there is not refused for its version, as long as the
\* discovery is up to date, the request is no watch and its path is read as of the
\* version it names (tryVersionConvert).
THEOREM NotFoundOnlyIfStale == ProxySpec => []NotFoundIsStale
<1>1. ProxyInv => NotFoundIsStale
  BY DEF ProxyInv
<1> QED BY <1>1, ProxyStart, ProxyStep, PTL DEF ProxySpec

-----------------------------------------------------------------------------
(* Pages.  Every page is cut from a list that is sorted anew.  The pages fit  *)
(* together because the list is the same each time: there is one order.      *)

\* A set of numbers has a least one.
LEMMA LeastNumber ==
  ASSUME NEW S \in SUBSET Nat, S # {}
  PROVE  \E x \in S : \A y \in S : x <= y
<1>1. \E x \in S : \A y \in S : ~(<<y, x>> \in OpToRel(<, Nat))
  BY WFMin, NatLessThanWellFounded
<1>2. \A x, y \in Nat : y < x => <<y, x>> \in OpToRel(<, Nat)
  BY DEF OpToRel
<1>3. \A x, y \in Nat : ~(y < x) => x <= y
  OBVIOUS
<1> QED BY <1>1, <1>2, <1>3

\* A list of all of a finite set's members, each once.
LEMMA ListedOnce ==
  ASSUME NEW S, IsFiniteSet(S), NEW s \in SetToSeqs(S)
  PROVE  /\ Cardinality(S) \in Nat
         /\ s \in Seq(S) /\ Len(s) = Cardinality(S) /\ DOMAIN s = 1..Cardinality(S)
         /\ \A i, j \in 1..Cardinality(S) : i # j => s[i] # s[j]
         /\ \A x \in S : \E i \in 1..Cardinality(S) : s[i] = x
<1> DEFINE n == Cardinality(S)
<1>1. n \in Nat
  BY FS_CardinalityType
<1>2. s \in [1..n -> S] /\ \A i, j \in 1..n : i # j => s[i] # s[j]
  BY DEF SetToSeqs
<1>3. s \in Injection(1..n, S)
  BY <1>2 DEF Injection, IsInjective
<1>4. Cardinality(1..n) = n
  BY <1>1, FS_Interval
<1>5. s \in Surjection(1..n, S)
  BY <1>3, <1>4, FS_Injection
<1>6. \A x \in S : \E i \in 1..n : s[i] = x
  BY <1>5 DEF Surjection
<1> HIDE DEF n
<1>7. s \in Seq(S) /\ Len(s) = n /\ DOMAIN s = 1..n
  BY <1>1, <1>2
<1> QED BY <1>1, <1>2, <1>6, <1>7 DEF n

\* There is one order of a selection when no two of its objects have the same key: at
\* the first place where two lists differ, each has an object that the other has later.
LEMMA OneOrder ==
  ASSUME NEW S \in SUBSET Names, NEW cond, NEW s \in SetToSeqs(S), NEW t \in SetToSeqs(S),
         InOrder(s, cond), InOrder(t, cond)
  PROVE  s = t
<1> DEFINE n == Cardinality(S)
           D == 1..n
           differ == {i \in D : s[i] # t[i]}
           key(x) == Objects[x].key
<1>1. IsFiniteSet(S) /\ \A x \in S : key(x) \in Nat
  BY LayoutsAssumption, FS_Subset
<1>2. /\ n \in Nat
      /\ s \in Seq(S) /\ Len(s) = n /\ DOMAIN s = D
      /\ \A i, j \in D : i # j => s[i] # s[j]
      /\ \A x \in S : \E i \in D : s[i] = x
  BY <1>1, ListedOnce
<1>3. /\ t \in Seq(S) /\ Len(t) = n /\ DOMAIN t = D
      /\ \A i, j \in D : i # j => t[i] # t[j]
      /\ \A x \in S : \E i \in D : t[i] = x
  BY <1>1, ListedOnce
<1> HIDE DEF n
<1>4. \A i \in D : s[i] \in S /\ t[i] \in S
  BY <1>2, <1>3
<1>5. differ = {}
  <2> SUFFICES ASSUME differ # {} PROVE FALSE
    OBVIOUS
  <2>0. differ \in SUBSET Nat
    BY <1>2
  <2>1. PICK i \in differ : \A j \in differ : i <= j
    BY ONLY <2>0, differ # {}, LeastNumber
  <2>2. i \in D /\ s[i] # t[i] /\ \A h \in D : h < i => s[h] = t[h]
    BY <1>2, <2>1
  <2>3. PICK j \in D : t[j] = s[i]
    BY <1>3, <1>4, <2>2
  <2>4. PICK k \in D : s[k] = t[i]
    BY <1>2, <1>4, <2>2
  <2>5. i < j
    BY <1>2, <2>2, <2>3
  <2>6. i < k
    BY <1>2, <1>3, <2>2, <2>4
  <2>7. IF cond.order = "asc" THEN key(s[i]) < key(s[k]) ELSE key(s[i]) > key(s[k])
    BY <1>2, <2>2, <2>6 DEF InOrder
  <2>8. IF cond.order = "asc" THEN key(t[i]) < key(t[j]) ELSE key(t[i]) > key(t[j])
    BY <1>3, <2>2, <2>5 DEF InOrder
  <2>9. key(s[i]) \in Nat /\ key(t[i]) \in Nat
    BY <1>1, <1>4, <2>2
  <2> QED BY <2>3, <2>4, <2>7, <2>8, <2>9
<1> QED BY <1>2, <1>3, <1>5

\* Two slices in a row.
LEMMA Slices ==
  ASSUME NEW S, NEW s \in Seq(S), NEW a \in Nat, NEW b \in Nat, a <= b, b <= Len(s)
  PROVE  SubSeq(s, 1, a) \o SubSeq(s, a + 1, b) = SubSeq(s, 1, b)
  OBVIOUS

\* The filters leave the selection, wherever the labels are checked.
LEMMA SelectionIs ==
  ASSUME NEW cond, NEW sent \in {store, PushedDown(store, cond)}
  PROVE  FuzzyFilter(ExactFilter(sent, cond), cond) = Selected(cond)
  BY DEF FuzzyFilter, ExactFilter, PushedDown, Selected, DeepValue

\* SortHandler puts a selection in its order if the condition decides it.
LEMMA SortedInOrder ==
  ASSUME NEW cond, store \subseteq Names, Decides(cond), NEW s \in SortHandler(Selected(cond), cond)
  PROVE  s \in SetToSeqs(Selected(cond)) /\ InOrder(s, cond)
<1> DEFINE S == Selected(cond)
<1>1. S \subseteq Names
  BY DEF Selected
<1>2. IsFiniteSet(S) /\ \A x \in S : Objects[x].key \in Nat
  BY <1>1, LayoutsAssumption, FS_Subset
<1>3. s \in SetToSeqs(S) /\ Ordered(s, cond)
  BY DEF SortHandler, Decides, DeepValue
<1>4. /\ DOMAIN s = 1..Cardinality(S) /\ s \in Seq(S) /\ Len(s) = Cardinality(S)
      /\ \A i, j \in 1..Cardinality(S) : i # j => s[i] # s[j]
  BY <1>2, <1>3, ListedOnce
<1>5. \A i \in DOMAIN s : s[i] \in S
  BY <1>4
<1> SUFFICES ASSUME NEW i \in DOMAIN s, NEW j \in DOMAIN s, i < j
             PROVE  IF cond.order = "asc" THEN Objects[s[i]].key < Objects[s[j]].key
                    ELSE Objects[s[i]].key > Objects[s[j]].key
  BY <1>3 DEF InOrder
<1>6. s[i] # s[j] /\ s[i] \in S /\ s[j] \in S
  BY <1>4, <1>5
<1>7. Objects[s[i]].key # Objects[s[j]].key
  BY <1>6 DEF Decides
<1>8. IF cond.order = "asc" THEN Objects[s[i]].key <= Objects[s[j]].key
      ELSE Objects[s[i]].key >= Objects[s[j]].key
  BY <1>3 DEF Ordered, DeepValue
<1> QED BY <1>2, <1>6, <1>7, <1>8

\* How many of the names of a list the first pages have.
PagesEnd(s, limit, num) == IF limit = 0 \/ num * limit > Len(s) THEN Len(s) ELSE num * limit

\* A page is what follows the pages before it (PageHandler, ParsePage).
LEMMA NextPage ==
  ASSUME NEW S, NEW s \in Seq(S), NEW limit \in Nat, NEW num \in Nat \ {0}, num = 1 \/ limit > 0
  PROVE  (IF num = 1 THEN <<>> ELSE SubSeq(s, 1, PagesEnd(s, limit, num - 1)))
           \o PageHandler(s, limit, (num - 1) * limit)
         = SubSeq(s, 1, PagesEnd(s, limit, num))
<1> DEFINE last == PagesEnd(s, limit, num)
           before == PagesEnd(s, limit, num - 1)
           names == IF num = 1 THEN <<>> ELSE SubSeq(s, 1, before)
<1>a. /\ last = IF limit = 0 \/ num * limit > Len(s) THEN Len(s) ELSE num * limit
      /\ before = IF limit = 0 \/ (num - 1) * limit > Len(s) THEN Len(s) ELSE (num - 1) * limit
      /\ names = IF num = 1 THEN <<>> ELSE SubSeq(s, 1, before)
  BY DEF PagesEnd
<1> SUFFICES names \o PageHandler(s, limit, (num - 1) * limit) = SubSeq(s, 1, last)
  OBVIOUS
<1> HIDE DEF last, before, names
<1>1. CASE limit = 0
  <2>1. num = 1 /\ names = <<>> /\ last = Len(s) /\ PageHandler(s, limit, (num - 1) * limit) = s
    BY <1>1, <1>a DEF PageHandler
  <2> QED BY <2>1
<1>2. CASE limit > 0
  <2> DEFINE a == (num - 1) * limit
             c == num * limit
             n == Len(s)
  <2>1. a \in Nat /\ c \in Nat /\ c = a + limit /\ n \in Nat /\ a < c
    BY <1>2
  <2>2. last = IF c > n THEN n ELSE c
    BY <1>2, <1>a
  <2>3. PageHandler(s, limit, a) = SubSeq(s, a + 1, IF c > n THEN n ELSE c)
    <3>1. limit # 0 /\ a + limit = c
      BY <1>2, <2>1
    <3> HIDE DEF a, c
    <3> QED BY ONLY <3>1 DEF PageHandler, n
  <2>4. names = SubSeq(s, 1, IF a > n THEN n ELSE a)
    <3>1. CASE num = 1
      BY <1>a, <3>1
    <3>2. CASE num # 1
      BY <1>2, <1>a, <3>2
    <3> QED BY <3>1, <3>2
  <2> HIDE DEF a, c, n
  <2>5. CASE a > n
    <3>1. names = SubSeq(s, 1, n) /\ last = n /\ PageHandler(s, limit, a) = SubSeq(s, a + 1, n)
      BY <2>1, <2>2, <2>3, <2>4, <2>5
    <3>2. SubSeq(s, a + 1, n) = <<>> /\ SubSeq(s, 1, n) = s
      BY <2>1, <2>5 DEF n
    <3>3. s \o <<>> = s
      OBVIOUS
    <3>4. names \o PageHandler(s, limit, a) = SubSeq(s, 1, last)
      BY ONLY <3>1, <3>2, <3>3
    <3> QED BY <3>4 DEF a
  <2>6. CASE ~(a > n)
    <3>1. PICK b \in Nat : b = (IF c > n THEN n ELSE c) /\ a <= b /\ b <= n
      BY <2>1, <2>6
    <3>2. SubSeq(s, 1, a) \o SubSeq(s, a + 1, b) = SubSeq(s, 1, b)
      BY <2>1, <3>1, Slices DEF n
    <3> QED BY <2>2, <2>3, <2>4, <2>6, <3>1, <3>2 DEF a
  <2> QED BY <2>5, <2>6
<1>3. limit = 0 \/ limit > 0
  OBVIOUS
<1> QED BY ONLY <1>1, <1>2, <1>3

\* The pages that have been read.
GotFits(g) ==
  /\ DOMAIN g = {"cond", "num", "names"}
  /\ g.cond.limit \in Nat /\ g.num \in Nat
  /\ g.num = 0 => g.names = <<>>

\* The request for a page follows the pages before it.
Follows(c, g) ==
  /\ {"via", "cond", "num", "want"} \subseteq DOMAIN c
  /\ c.want.name # Nil => g = Nil
  /\ c.want.name = Nil => /\ GotFits(g) /\ c.cond = g.cond /\ c.num = g.num + 1
                          /\ c.num = 1 \/ (c.cond.limit > 0 /\ g # Nil)

\* The inductive invariant of the pages.
PagesInv ==
  /\ store \subseteq Names
  /\ got # Nil => GotFits(got)
  /\ call # Nil => Follows(call, got)
  /\ got # Nil /\ got.num > 0 /\ calm /\ Decides(got.cond) => FirstPages(got.names, got.cond, got.num)
  /\ reply # Nil /\ got # Nil => got.num > 0 /\ (calm => reply.total = Cardinality(Selected(got.cond)))

\* The next page is asked for, or the first one.
LEMMA PageFollows ==
  ASSUME PagesInv, NEW r \in Lists, NEW num \in Nat \ {0}, GetList(r.via, r.gv, r.ns, r.watch, r.cond, num)
  PROVE  PagesInv'
<1> DEFINE u == [gv |-> r.gv, ns |-> r.ns, name |-> Nil, watch |-> r.watch]
<1>1. /\ num = 1 \/ (r.cond.limit > 0 /\ got # Nil /\ got.cond = r.cond /\ got.num = num - 1)
      /\ Greet(r.via, u, "GET", r.gv, r.cond, num)
      /\ got' = IF num = 1 THEN [cond |-> r.cond, num |-> 0, names |-> <<>>] ELSE got
      /\ calm' = (calm \/ num = 1)
  BY DEF GetList
<1>2. /\ {"via", "cond", "num", "want"} \subseteq DOMAIN call'
      /\ call'.want = u /\ call'.cond = r.cond /\ call'.num = num
      /\ reply' = Nil /\ store' = store
  BY <1>1 DEF Greet
<1>3. r.cond.limit \in Nat
  BY LayoutsAssumption
<1>4. CASE num = 1
  <2>1. GotFits(got') /\ got'.num = 0 /\ got'.cond = r.cond
    BY <1>1, <1>3, <1>4 DEF GotFits
  <2>2. Follows(call', got')
    BY <1>2, <1>4, <2>1 DEF Follows
  <2> QED BY <1>2, <2>1, <2>2 DEF PagesInv
<1>5. CASE num # 1
  <2>1. got' = got /\ GotFits(got) /\ (calm' => calm) /\ got.cond = r.cond /\ got.num = num - 1
    BY <1>1, <1>5 DEF PagesInv
  <2>2. Follows(call', got')
    BY <1>1, <1>2, <1>5, <2>1 DEF Follows, GotFits
  <2> QED BY <1>2, <2>1, <2>2 DEF PagesInv, FirstPages, Decides, UpTo, Selected
<1> QED BY <1>4, <1>5

\* A request for one object.
LEMMA OneFollows ==
  ASSUME PagesInv, NEW r \in Singles, AtOne(r.via, r.gv, r.name, r.method, r.body)
  PROVE  PagesInv'
<1> DEFINE u == [gv |-> r.gv, ns |-> TRUE, name |-> r.name, watch |-> FALSE]
<1>1. got' = Nil /\ Greet(r.via, u, r.method, r.body, OneObject, 0)
  BY DEF AtOne
<1>2. /\ {"via", "cond", "num", "want"} \subseteq DOMAIN call' /\ call'.want = u
      /\ reply' = Nil /\ store' = store
  BY <1>1 DEF Greet
<1>3. r.name # Nil
  BY LayoutsAssumption
<1>4. Follows(call', got')
  BY <1>1, <1>2, <1>3 DEF Follows
<1> QED BY <1>1, <1>2, <1>4 DEF PagesInv

\* What is read and what was read before are the first pages, one more than before.
LEMMA PageRead ==
  ASSUME PagesInv, call # Nil, call.want.name = Nil, NEW sent \in {store, PushedDown(store, call.cond)},
         NEW out \in Filter(sent, call.cond, call.num)
  PROVE  /\ out.total = Cardinality(Selected(got.cond))
         /\ calm /\ Decides(got.cond) => FirstPages(got.names \o out.names, got.cond, call.num)
<1> DEFINE cond == got.cond
           num == call.num
           S == Selected(cond)
<1>1. GotFits(got) /\ call.cond = cond /\ num = got.num + 1 /\ (num = 1 \/ (cond.limit > 0 /\ got # Nil)) /\ store \subseteq Names
  BY DEF PagesInv, Follows
<1>2. num \in Nat \ {0} /\ cond.limit \in Nat /\ num - 1 = got.num
  BY <1>1 DEF GotFits
<1>3. FuzzyFilter(ExactFilter(sent, cond), cond) = S
  BY <1>1, SelectionIs
<1>4. /\ out.total = Cardinality(S)
      /\ \E s \in SortHandler(S, cond) : out.names = PageHandler(s, cond.limit, Offset(cond, num))
  BY <1>1, <1>3 DEF Filter
<1>5. Offset(cond, num) = (num - 1) * cond.limit
  BY <1>2 DEF Offset
<1>6. ASSUME calm, Decides(cond)
      PROVE  FirstPages(got.names \o out.names, cond, num)
  <2>1. PICK s \in SortHandler(S, cond) : out.names = PageHandler(s, cond.limit, (num - 1) * cond.limit)
    BY <1>4, <1>5
  <2>2. s \in SetToSeqs(S) /\ InOrder(s, cond)
    BY <1>1, <1>6, SortedInOrder
  <2>3. S \in SUBSET Names
    BY <1>1 DEF Selected
  <2>4. IsFiniteSet(S)
    BY <2>3, LayoutsAssumption, FS_Subset
  <2>5. s \in Seq(S) /\ Len(s) = Cardinality(S)
    BY <2>2, <2>4, ListedOnce
  <2>6. got.names = IF num = 1 THEN <<>> ELSE SubSeq(s, 1, UpTo(cond, num - 1))
    <3>1. CASE num = 1
      BY <1>1, <1>2, <3>1 DEF GotFits
    <3>2. CASE num # 1
      <4>1. FirstPages(got.names, cond, num - 1)
        BY <1>1, <1>2, <1>6, <3>2 DEF PagesInv
      <4>2. PICK t \in SetToSeqs(S) : InOrder(t, cond) /\ got.names = SubSeq(t, 1, UpTo(cond, num - 1))
        BY <4>1 DEF FirstPages
      <4>3. t = s
        BY <2>2, <2>3, <4>2, OneOrder
      <4> QED BY <3>2, <4>2, <4>3
    <3> QED BY <3>1, <3>2
  <2>7. UpTo(cond, num) = PagesEnd(s, cond.limit, num) /\ UpTo(cond, num - 1) = PagesEnd(s, cond.limit, num - 1)
    BY <2>5 DEF UpTo, PagesEnd
  <2>8. num = 1 \/ cond.limit > 0
    BY <1>1
  <2> HIDE DEF cond, num, S
  <2>9. got.names \o PageHandler(s, cond.limit, (num - 1) * cond.limit) = SubSeq(s, 1, UpTo(cond, num))
    <3>1. (IF num = 1 THEN <<>> ELSE SubSeq(s, 1, PagesEnd(s, cond.limit, num - 1)))
            \o PageHandler(s, cond.limit, (num - 1) * cond.limit)
          = SubSeq(s, 1, PagesEnd(s, cond.limit, num))
      BY ONLY <1>2, <2>5, <2>8, NextPage
    <3> QED BY ONLY <2>6, <2>7, <3>1
  <2>10. got.names \o out.names = SubSeq(s, 1, UpTo(cond, num))
    BY <2>1, <2>9
  <2> QED BY <2>2, <2>10 DEF FirstPages, S
<1> QED BY <1>4, <1>6

\* The answer of the cluster, whichever it is.
LEMMA PagesForward == ProxyInv /\ PagesInv /\ Forward => PagesInv'
<1> SUFFICES ASSUME ProxyInv, PagesInv, Forward PROVE PagesInv'
  OBVIOUS
<1>1. call # Nil /\ Follows(call, got) /\ store' = store /\ calm' = calm
  BY DEF Forward, PagesInv
<1>2. CASE call' = Nil /\ got' = Nil
  BY <1>1, <1>2 DEF PagesInv
<1>3. ASSUME NEW u \in Meaning(call.path), IF u.name = Nil THEN ForwardList(u.gv) ELSE ForwardOne(u.gv, u.name)
      PROVE  PagesInv'
  <2>1. IF u.name = Nil THEN ForwardList(u.gv) ELSE ForwardOne(u.gv, u.name)
    BY <1>3
  <2>2. u.name = call.want.name
    BY <1>1, <2>1, NameKept
  <2>3. CASE u.name # Nil
    <3>1. got' = got /\ got = Nil /\ call' = Nil
      BY <1>1, <2>1, <2>2, <2>3 DEF ForwardOne, Answered, Follows
    <3> QED BY <1>1, <3>1 DEF PagesInv
  <2>4. CASE u.name = Nil
    <3> DEFINE sent == IF call.via = "proxy" THEN PushedDown(store, call.cond) ELSE store
    <3>1. CASE call.want.watch \/ (call.via = "proxy" /\ sent = {})
      <4>1. call' = Nil /\ got' = Nil
        BY <2>1, <2>4, <3>1 DEF ForwardList, Answered
      <4> QED BY <1>1, <4>1 DEF PagesInv
    <3>2. CASE ~(call.want.watch \/ (call.via = "proxy" /\ sent = {}))
      <4>1. PICK out \in Filter(sent, call.cond, call.num) :
              /\ Answered("list", Back(call, u.gv), out.names, out.total)
              /\ got' = [got EXCEPT !.num = call.num, !.names = @ \o out.names]
        BY <2>1, <2>4, <3>2 DEF ForwardList
      <4>2. sent \in {store, PushedDown(store, call.cond)}
        OBVIOUS
      <4> HIDE DEF sent
      <4>3. /\ out.total = Cardinality(Selected(got.cond))
            /\ calm /\ Decides(got.cond) => FirstPages(got.names \o out.names, got.cond, call.num)
        BY <1>1, <2>2, <2>4, <4>1, <4>2, PageRead
      <4>4. GotFits(got) /\ call.num = got.num + 1
        BY <1>1, <2>2, <2>4 DEF Follows
      <4>5. /\ GotFits(got') /\ got'.num = call.num /\ got'.num > 0 /\ got'.cond = got.cond
            /\ got'.names = got.names \o out.names
        BY <4>1, <4>4 DEF GotFits
      <4>6. call' = Nil /\ reply'.total = out.total
        BY <4>1 DEF Answered
      <4>7. Selected(got.cond)' = Selected(got.cond) /\ (Decides(got.cond)' <=> Decides(got.cond))
        BY <1>1, <4>5 DEF Decides, Selected
      <4>8. ASSUME calm, Decides(got.cond) PROVE FirstPages(got.names, got.cond, got.num)'
        <5>1. PICK s \in SetToSeqs(Selected(got.cond)) :
                InOrder(s, got.cond) /\ got.names \o out.names = SubSeq(s, 1, UpTo(got.cond, call.num))
          BY <4>3, <4>8 DEF FirstPages
        <5>2. UpTo(got.cond, got.num)' = UpTo(got.cond, call.num)
          BY <4>5, <4>7 DEF UpTo
        <5>3. InOrder(s, got.cond)' <=> InOrder(s, got.cond)
          BY <4>5 DEF InOrder
        <5> QED BY <4>5, <4>7, <5>1, <5>2, <5>3 DEF FirstPages
      <4>9. calm => (reply.total = Cardinality(Selected(got.cond)))'
        BY <4>3, <4>6, <4>7
      <4>10. got' # Nil /\ got'.num > 0 /\ calm' /\ Decides(got.cond)' => FirstPages(got.names, got.cond, got.num)'
        BY <1>1, <4>7, <4>8
      <4> QED BY <1>1, <4>5, <4>6, <4>9, <4>10 DEF PagesInv
    <3> QED BY <3>1, <3>2
  <2> QED BY <2>3, <2>4
<1> QED BY <1>2, <1>3 DEF Forward, Answered

\* Every step keeps the invariant.
LEMMA PagesStep == ProxyInv /\ PagesInv /\ [ProxyNext]_proxyVars => PagesInv'
<1> SUFFICES ASSUME ProxyInv, PagesInv, [ProxyNext]_proxyVars PROVE PagesInv'
  OBVIOUS
<1>1. ASSUME NEW r \in Lists, NEW num \in 1..MaxPage, GetList(r.via, r.gv, r.ns, r.watch, r.cond, num)
      PROVE  PagesInv'
  <2>1. num \in Nat \ {0}
    BY LayoutsAssumption
  <2> QED BY <1>1, <2>1, PageFollows
<1>2. ASSUME NEW r \in Singles, AtOne(r.via, r.gv, r.name, r.method, r.body)
      PROVE  PagesInv'
  BY <1>2, OneFollows
<1>3. CASE Forward
  BY <1>3, PagesForward
<1>4. ASSUME UNCHANGED <<store, reply, got, calm>>, call' \in {call, Late(call)} PROVE PagesInv'
  <2>1. call' # Nil => Follows(call', got')
    BY <1>4 DEF Late, Follows, PagesInv
  <2> QED BY <1>4, <2>1 DEF PagesInv, FirstPages, Decides, UpTo, Selected
<1>5. ASSUME NEW l \in Layouts, Upgrade(l) PROVE PagesInv'
  BY <1>4, <1>5 DEF Upgrade
<1>6. CASE RefreshCacheDiscovery
  BY <1>4, <1>6 DEF RefreshCacheDiscovery
<1>7. CASE AddAgain
  BY <1>4, <1>7 DEF AddAgain
<1>8. ASSUME NEW n \in Names, Toggle(n) PROVE PagesInv'
  BY <1>8 DEF Toggle, PagesInv
<1>9. CASE UNCHANGED proxyVars
  BY <1>4, <1>9 DEF proxyVars
<1> QED
  BY <1>1, <1>2, <1>3, <1>5, <1>6, <1>7, <1>8, <1>9 DEF ProxyNext

\* Page by page a client reads the selection in its order, each object once, and is told
\* its size, unless an object comes or goes (doFilter, FilterObjectList, PageHandler).
THEOREM PagesAreRead == ProxySpec => []PagesAreTheSelection
<1>1. ProxyInit => PagesInv
  BY DEF ProxyInit, PagesInv
<1>2. PagesInv => PagesAreTheSelection
  BY DEF PagesInv, PagesAreTheSelection
<1> QED BY <1>1, <1>2, PagesStep, ProxyStart, ProxyStep, PTL DEF ProxySpec

-----------------------------------------------------------------------------
(* The extend API.  An event names the uid that its attempt has read; what an *)
(* owner is asked for is joined from two caches that hold what there is.      *)

\* What a request for the ConfigMap holds.
EditFits(e) ==
  /\ DOMAIN e = {"op", "pc", "got", "uid", "tries"}
  /\ e.pc = "write" => e.uid = e.got.uid

\* What is in the caches, and what a request carries from one read to the next.
WorkInv ==
  /\ DOMAIN edit = Editors /\ \A w \in Editors : EditFits(edit[w])
  /\ seenSets \subseteq ReplicaSets
  /\ DOMAIN seenPods \subseteq {s.uid : s \in PodSpecs} /\ \A p \in DOMAIN seenPods : seenPods[p] \in PodLooks
  /\ DOMAIN seenJobs \subseteq {s.uid : s \in JobSpecs} /\ \A j \in DOMAIN seenJobs : seenJobs[j] \in JobLooks
  /\ DOMAIN ask = DOMAIN NotAsked
  /\ ask.owners \subseteq {ask.uid} \cup {s.uid : s \in {x \in ReplicaSets : x.owner = ask.uid}}
  /\ WrittenIsNamed /\ PodsAreOwned

\* The ConfigMap is written by who has read it as it is.
LEMMA MapKeeps ==
  ASSUME WorkInv, MapNext, UNCHANGED listVars
  PROVE  WorkInv'
<1>1. EditFits(Unused)
  BY DEF EditFits, Unused
<1>2. DOMAIN edit' = Editors /\ \A w \in Editors : EditFits(edit'[w])
  <2>1. ASSUME NEW w \in Editors, NEW e, EditFits(e), edit' = [edit EXCEPT ![w] = e]
        PROVE  DOMAIN edit' = Editors /\ \A v \in Editors : EditFits(edit'[v])
    BY <2>1 DEF WorkInv
  <2>2. CASE edit' = edit
    BY <2>2 DEF WorkInv
  <2>3. ASSUME NEW w \in Editors, Finish(w) PROVE DOMAIN edit' = Editors /\ \A v \in Editors : EditFits(edit'[v])
    BY <1>1, <2>1, <2>3 DEF Finish
  <2>4. ASSUME NEW w \in Editors, NEW op, ProcessReq(w, op)
        PROVE  DOMAIN edit' = Editors /\ \A v \in Editors : EditFits(edit'[v])
    <3>1. EditFits([Unused EXCEPT !.op = op, !.pc = "get", !.tries = Retries])
      BY DEF EditFits, Unused
    <3>. QED
      BY <2>1, <2>4, <3>1 DEF ProcessReq
  <2>5. ASSUME NEW w \in Editors, GetMap(w)
        PROVE  DOMAIN edit' = Editors /\ \A v \in Editors : EditFits(edit'[v])
    <3>1. EditFits([edit[w] EXCEPT !.pc = "write", !.got = cm, !.uid = UidOf(edit[w])])
      BY DEF EditFits, UidOf, WorkInv
    <3>2. \/ Finish(w)
          \/ edit' = [edit EXCEPT ![w] = [edit[w] EXCEPT !.pc = "write", !.got = cm, !.uid = UidOf(edit[w])]]
      BY <2>5 DEF GetMap, WorkInv
    <3>. QED
      BY <2>1, <2>3, <3>1, <3>2
  <2>6. ASSUME NEW w \in Editors, ProcessUpdate(w)
        PROVE  DOMAIN edit' = Editors /\ \A v \in Editors : EditFits(edit'[v])
    <3>1. EditFits([edit[w] EXCEPT !.pc = "get", !.tries = edit[w].tries - 1])
      BY DEF EditFits, WorkInv
    <3>2. \/ Finish(w)
          \/ edit' = [edit EXCEPT ![w] = [edit[w] EXCEPT !.pc = "get", !.tries = edit[w].tries - 1]]
      BY <2>6 DEF ProcessUpdate, WorkInv
    <3>. QED
      BY <2>1, <2>3, <3>1, <3>2
  <2>. QED
    BY <2>2, <2>3, <2>4, <2>5, <2>6 DEF MapNext, ProcessCreate, ProcessDelete
<1>3. WrittenIsNamed'
  <2>1. CASE ProcessCreate
    BY <2>1 DEF ProcessCreate, SetAuditInfo, WorkInv, WrittenIsNamed
  <2>2. ASSUME NEW w \in Editors, ProcessUpdate(w) PROVE WrittenIsNamed'
    BY <2>2 DEF ProcessUpdate, SetAuditInfo, WorkInv, WrittenIsNamed, EditFits
  <2>3. ASSUME NEW w \in Editors, ProcessDelete(w) PROVE WrittenIsNamed'
    BY <2>3 DEF ProcessDelete, SetAuditInfo, WorkInv, WrittenIsNamed
  <2>4. CASE named' = named
    BY <2>4 DEF WorkInv, WrittenIsNamed
  <2>. QED
    BY <2>1, <2>2, <2>3, <2>4 DEF MapNext, ProcessReq, GetMap
<1>. QED
  BY <1>2, <1>3 DEF WorkInv, listVars, PodsAreOwned

\* A cache gets one object more, or less, or another look of one.
LEMMA SeenFits ==
  ASSUME NEW cache, NEW x, NEW looks, NEW uids0, NEW new \in Seen(cache, x, looks), x \in uids0,
         DOMAIN cache \subseteq uids0, \A y \in DOMAIN cache : cache[y] \in looks
  PROVE  DOMAIN new \subseteq uids0 /\ \A y \in DOMAIN new : new[y] \in looks
<1>1. CASE \E look \in looks : new = [y \in DOMAIN cache \cup {x} |-> IF y = x THEN look ELSE cache[y]]
  BY <1>1
<1>2. CASE new = [y \in DOMAIN cache \ {x} |-> cache[y]]
  BY <1>2
<1>. QED
  BY <1>1, <1>2 DEF Seen

\* The lists are joined, and the caches move.
LEMMA ListKeeps ==
  ASSUME WorkInv, ListNext \/ JobNext, UNCHANGED mapVars
  PROVE  WorkInv'
<1>1. ASSUME NEW uid \in Owners, NEW ns \in {NoText, "n1"}, GetRs(uid, ns) PROVE WorkInv'
  <2>1. /\ ask'.uid = uid /\ ask'.pods = {} /\ DOMAIN ask' = DOMAIN NotAsked
        /\ ask'.owners = {uid} \cup {s.uid : s \in {x \in seenSets : Within(ns, x) /\ OwnedBy(x, uid)}}
    BY <1>1 DEF GetRs, NotAsked
  <2>2. ask'.owners \subseteq {uid} \cup {s.uid : s \in {x \in ReplicaSets : x.owner = uid}}
    BY <2>1 DEF WorkInv, OwnedBy
  <2>. QED
    BY <1>1, <2>1, <2>2 DEF WorkInv, mapVars, GetRs, WrittenIsNamed, PodsAreOwned
<1>2. CASE GetPods
  <2>1. /\ ask'.uid = ask.uid /\ ask'.owners = ask.owners /\ DOMAIN ask' = DOMAIN NotAsked
        /\ \A p \in ask'.pods : PodSpec(p).owner \in ask.owners
    BY <1>2 DEF GetPods, NotAsked, WorkInv
  <2>2. \A p \in ask'.pods : \/ PodSpec(p).owner = ask'.uid
                              \/ \E s \in ReplicaSets : s.uid = PodSpec(p).owner /\ s.owner = ask'.uid
    BY <2>1 DEF WorkInv
  <2>. QED
    BY <1>2, <2>1, <2>2 DEF WorkInv, mapVars, GetPods, WrittenIsNamed, PodsAreOwned
<1>3. ASSUME NEW s \in ReplicaSets, SeeSet(s) PROVE WorkInv'
  BY <1>3 DEF SeeSet, WorkInv, mapVars, WrittenIsNamed, PodsAreOwned
<1>4. ASSUME NEW s \in PodSpecs, SeePod(s.uid) PROVE WorkInv'
  <2>1. DOMAIN seenPods' \subseteq {x.uid : x \in PodSpecs} /\ \A p \in DOMAIN seenPods' : seenPods'[p] \in PodLooks
    <3>. DEFINE U == {x.uid : x \in PodSpecs}
    <3>1. s.uid \in U /\ DOMAIN seenPods \subseteq U /\ \A p \in DOMAIN seenPods : seenPods[p] \in PodLooks
      BY DEF WorkInv
    <3>2. seenPods' \in Seen(seenPods, s.uid, PodLooks)
      BY <1>4 DEF SeePod
    <3>. HIDE DEF U
    <3>3. DOMAIN seenPods' \subseteq U /\ \A p \in DOMAIN seenPods' : seenPods'[p] \in PodLooks
      BY ONLY <3>1, <3>2, SeenFits
    <3>. QED
      BY <3>3 DEF U
  <2>. QED
    BY <1>4, <2>1 DEF SeePod, WorkInv, mapVars, WrittenIsNamed, PodsAreOwned
<1>5. ASSUME NEW s \in JobSpecs, SeeJob(s.uid) PROVE WorkInv'
  <2>1. DOMAIN seenJobs' \subseteq {x.uid : x \in JobSpecs} /\ \A j \in DOMAIN seenJobs' : seenJobs'[j] \in JobLooks
    <3>. DEFINE U == {x.uid : x \in JobSpecs}
    <3>1. s.uid \in U /\ DOMAIN seenJobs \subseteq U /\ \A p \in DOMAIN seenJobs : seenJobs[p] \in JobLooks
      BY DEF WorkInv
    <3>2. seenJobs' \in Seen(seenJobs, s.uid, JobLooks)
      BY <1>5 DEF SeeJob
    <3>. HIDE DEF U
    <3>3. DOMAIN seenJobs' \subseteq U /\ \A p \in DOMAIN seenJobs' : seenJobs'[p] \in JobLooks
      BY ONLY <3>1, <3>2, SeenFits
    <3>. QED
      BY <3>3 DEF U
  <2>. QED
    BY <1>5, <2>1 DEF SeeJob, WorkInv, mapVars, WrittenIsNamed, PodsAreOwned
<1>. QED
  BY <1>1, <1>2, <1>3, <1>4, <1>5 DEF ListNext, JobNext

\* A finite set in two parts, and in five.
LEMMA TwoParts ==
  ASSUME NEW A, NEW B, IsFiniteSet(A), IsFiniteSet(B), A \cap B = {}
  PROVE  /\ IsFiniteSet(A \cup B) /\ Cardinality(A) \in Nat /\ Cardinality(B) \in Nat
         /\ Cardinality(A \cup B) = Cardinality(A) + Cardinality(B)
<1>1. Cardinality(A) \in Nat /\ Cardinality(B) \in Nat /\ Cardinality({}) = 0
  BY FS_CardinalityType, FS_EmptySet
<1>2. IsFiniteSet(A \cup B) /\ Cardinality(A \cup B) = Cardinality(A) + Cardinality(B) - Cardinality(A \cap B)
  BY FS_Union
<1>3. Cardinality(A \cap B) = 0
  BY <1>1, Zenon
<1>4. \A m, n \in Nat : m + n - 0 = m + n
  OBVIOUS
<1>5. Cardinality(A \cup B) = Cardinality(A) + Cardinality(B)
  BY <1>1, <1>2, <1>3, <1>4, Zenon
<1>. QED
  BY <1>1, <1>2, <1>5, Zenon

\* A set is split into five that share nothing.
Parts(S, A, B, C, D, E) ==
  /\ S = A \cup (B \cup (C \cup (D \cup E)))
  /\ D \cap E = {} /\ C \cap (D \cup E) = {} /\ B \cap (C \cup (D \cup E)) = {}
  /\ A \cap (B \cup (C \cup (D \cup E))) = {}

\* What is split into five parts is counted part by part.
LEMMA FiveParts ==
  ASSUME NEW S, IsFiniteSet(S), NEW A, NEW B, NEW C, NEW D, NEW E, Parts(S, A, B, C, D, E)
  PROVE  Cardinality(A) + Cardinality(B) + Cardinality(C) + Cardinality(D) + Cardinality(E) = Cardinality(S)
<1>. DEFINE F == D \cup E
            G == C \cup F
            H == B \cup G
<1>1. /\ S = A \cup H /\ A \cap H = {} /\ B \cap G = {} /\ C \cap F = {}
      /\ A \subseteq S /\ B \subseteq S /\ C \subseteq S /\ D \subseteq S /\ E \subseteq S
      /\ F \subseteq S /\ G \subseteq S /\ H \subseteq S /\ D \cap E = {}
  BY DEF Parts
<1>2. /\ IsFiniteSet(A) /\ IsFiniteSet(B) /\ IsFiniteSet(C) /\ IsFiniteSet(D) /\ IsFiniteSet(E)
      /\ IsFiniteSet(F) /\ IsFiniteSet(G) /\ IsFiniteSet(H)
  BY ONLY <1>1, IsFiniteSet(S), FS_Subset
<1>3. Cardinality(F) = Cardinality(D) + Cardinality(E) /\ Cardinality(D) \in Nat /\ Cardinality(E) \in Nat
  BY <1>1, <1>2, TwoParts
<1>. HIDE DEF F
<1>4. Cardinality(G) = Cardinality(C) + Cardinality(F) /\ Cardinality(C) \in Nat
  BY <1>1, <1>2, TwoParts
<1>. HIDE DEF G
<1>5. Cardinality(H) = Cardinality(B) + Cardinality(G) /\ Cardinality(B) \in Nat
  BY <1>1, <1>2, TwoParts
<1>. HIDE DEF H
<1>6. Cardinality(S) = Cardinality(A) + Cardinality(H) /\ Cardinality(A) \in Nat
  BY <1>1, <1>2, TwoParts
<1>. QED
  BY ONLY <1>3, <1>4, <1>5, <1>6

\* Uids of a finite set of objects.
LEMMA UidsFinite ==
  ASSUME NEW Specs, IsFiniteSet(Specs)
  PROVE  IsFiniteSet({s.uid : s \in Specs})
<1>. DEFINE U == {s.uid : s \in Specs}
            f == [s \in Specs |-> s.uid]
<1>1. f \in Surjection(Specs, U)
  BY DEF Surjection
<1>. QED
  BY <1>1, FS_Surjection

\* Every pod is counted once, and what is told of it fits.
LEMMA PodsTold == WorkInv => PodsAreTold
<1>. SUFFICES ASSUME WorkInv PROVE PodsAreTold
  OBVIOUS
<1>1. IsFiniteSet(DOMAIN seenPods)
  <2>1. IsFiniteSet({s.uid : s \in PodSpecs})
    BY UidsFinite, LooksAssumption
  <2>. QED
    BY <2>1, FS_Subset DEF WorkInv
<1>2. ASSUME NEW d \in Deployments, NEW ns \in {NoText, "n1"}
      PROVE  LET n == GetDeployExtendInfo(d, ns)
             IN n["Succeeded"] + n["Running"] + n["Pending"] + n["Failed"] + n["Unknown"]
                  = Cardinality(GetPodByDeployment(d, ns))
  <2>. DEFINE S == GetPodByDeployment(d, ns)
              InPhase(phase) == {p \in S : seenPods[p].phase = phase \/ (phase = "Unknown" /\ seenPods[p].phase \notin Counted)}
  <2>1. IsFiniteSet(S)
    BY <1>1, FS_Subset DEF GetPodByDeployment
  <2>2. \A phase \in Counted \cup {"Unknown"} : GetDeployExtendInfo(d, ns)[phase] = Cardinality(InPhase(phase))
    BY DEF GetDeployExtendInfo
  <2>. HIDE DEF S
  <2>3. Parts(S, InPhase("Succeeded"), InPhase("Running"), InPhase("Pending"), InPhase("Failed"), InPhase("Unknown"))
    BY DEF Parts, Counted
  <2>. HIDE DEF InPhase
  <2>4. Cardinality(InPhase("Succeeded")) + Cardinality(InPhase("Running")) + Cardinality(InPhase("Pending"))
          + Cardinality(InPhase("Failed")) + Cardinality(InPhase("Unknown")) = Cardinality(S)
    BY ONLY <2>1, <2>3, FiveParts
  <2>. QED
    BY <2>2, <2>4 DEF S, Counted
<1>3. ASSUME NEW p \in DOMAIN seenPods
      PROVE  /\ HasRunning(seenPods[p]) => GetPodReason(seenPods[p]) # "Completed"
             /\ GetPodReason(seenPods[p]) = "Terminating" => seenPods[p].deleting
  <2>. DEFINE x == seenPods[p]
              telling == {c \in DOMAIN x.containers : x.containers[c].state # "running"}
  <2>1. x \in PodLooks
    BY DEF WorkInv
  <2>. HIDE DEF x
  <2>2. HasRunning(x) => GetPodReason(x) # "Completed"
    BY DEF GetPodReason
  <2>3. telling # {} => Min(telling) \in telling
    <3>1. telling \in SUBSET Nat
      BY <2>1, LooksAssumption
    <3>2. telling # {} => \E m \in telling : \A n \in telling : m <= n
      BY <3>1, LeastNumber
    <3>. QED
      BY <3>2 DEF Min
  <2>4. telling # {} => x.containers[Min(telling)].state # "Terminating"
    BY <2>1, <2>3, LooksAssumption
  <2>5. GetPodReason(x) = "Terminating" => x.deleting
    BY <2>1, <2>4, LooksAssumption DEF GetPodReason
  <2>. QED
    BY <2>2, <2>5 DEF x
<1>. QED
  BY <1>2, <1>3 DEF PodsAreTold

\* The jobs counted for a cron job are its own and have not ended.
LEMMA JobsCounted == WorkInv => JobsAreCounted
<1>. SUFFICES ASSUME WorkInv, NEW uid \in {j.owner : j \in JobSpecs}
              PROVE  RunningJobCount(uid) <= Cardinality({j \in JobSpecs : /\ j.owner = uid /\ j.uid \in DOMAIN seenJobs
                                                                          /\ seenJobs[j.uid].ended = NoText})
  BY DEF JobsAreCounted
<1>. DEFINE S == {j \in GetOwnerJobs(uid) : ParseJobStatus(seenJobs[j]) = "Running"}
            T == {j \in JobSpecs : /\ j.owner = uid /\ j.uid \in DOMAIN seenJobs /\ seenJobs[j.uid].ended = NoText}
            f == [j \in S |-> [uid |-> j, owner |-> uid]]
<1>1. \A j \in S : j \in DOMAIN seenJobs /\ [uid |-> j, owner |-> uid] \in JobSpecs /\ seenJobs[j].ended = NoText
  <2>. SUFFICES ASSUME NEW j \in S PROVE j \in DOMAIN seenJobs /\ [uid |-> j, owner |-> uid] \in JobSpecs /\ seenJobs[j].ended = NoText
    OBVIOUS
  <2>1. j \in DOMAIN seenJobs /\ [uid |-> j, owner |-> uid] \in JobSpecs
    BY DEF GetOwnerJobs
  <2>2. seenJobs[j].ended \in {NoText, "Complete", "Failed"}
    BY <2>1, LooksAssumption DEF WorkInv
  <2>3. ParseJobStatus(seenJobs[j]) = "Running"
    OBVIOUS
  <2>4. seenJobs[j].ended = NoText
    BY <2>2, <2>3 DEF ParseJobStatus
  <2>. QED
    BY <2>1, <2>4
<1>2. \A j \in S : f[j] \in T
  BY <1>1
<1>3. \A i, j \in S : f[i] = f[j] => i = j
  <2>1. \A j \in S : f[j].uid = j
    OBVIOUS
  <2>. QED
    BY <2>1
<1>4. f \in Injection(S, T)
  BY <1>2, <1>3 DEF Injection, IsInjective
<1>5. IsFiniteSet(T)
  BY LooksAssumption, FS_Subset
<1>6. Cardinality(S) <= Cardinality(T)
  BY <1>4, <1>5, FS_Injection
<1>. QED
  BY <1>6 DEF RunningJobCount

\* Through retries, re-creations and caches that move between two reads, what the extend
\* API reports is what was written, and what it lists and counts is what is owned
\* (processUpdate, getRs, getPods, getDeployExtendInfo, GetPodReason, addExtendInfo).
THEOREM ExtendsExactly == WorkSpec => []ExtendIsExact
<1>1. WorkInit => WorkInv
  BY DEF WorkInit, WorkInv, EditFits, Unused, NotAsked, WrittenIsNamed, PodsAreOwned
<1>2. WorkInv /\ [WorkNext]_workVars => WorkInv'
  <2>1. WorkInv /\ UNCHANGED workVars => WorkInv'
    BY DEF workVars, mapVars, listVars, WorkInv, WrittenIsNamed, PodsAreOwned
  <2>. QED
    BY <2>1, MapKeeps, ListKeeps DEF WorkNext
<1>3. WorkInv => ExtendIsExact
  BY PodsTold, JobsCounted DEF WorkInv, ExtendIsExact
<1>. QED
  BY <1>1, <1>2, <1>3, PTL DEF WorkSpec
=============================================================================
