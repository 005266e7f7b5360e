---------------------------- MODULE RequestChain ----------------------------
(***************************************************************************)
(* How the API server of KubeCube serves a request: gin takes a context    *)
(* from its pool, the middlewares check the cluster, authenticate, audit   *)
(* and recover, a handler answers, and the context goes back to the pool   *)
(* while goroutines still read the audit event out of it.                  *)
(*                                                                         *)
(* Contexts are gin's (external): the pool hands out any context that no   *)
(* request runs on, and its content stays until it is handed out again.    *)
(* The service that receives events is external too; an event is sent once *)
(* and nobody learns whether it arrived.                                   *)
(***************************************************************************)
EXTENDS Naturals, Sequences, FiniteSets, FiniteSetsExt

CONSTANTS
  Calls,       \* requests: [user, method, route, cluster, path, objs, dryRun]
  Contexts,    \* contexts of the pool
  MaxArrivals, \* requests of a behaviour
  MaxFlips     \* changes of the clusters' health

ASSUME CallsAssumption ==
  \A r \in Calls :
    /\ r.route \in {"cube", "proxy", "deploy", "login", "outside"}
    /\ r.method \in {"GET", "POST"}

VARIABLES
  enabled,  \* env.AuditIsEnable()
  reach,    \* of a cluster in the multi-cluster manager: "up", "down" or "gone"
  flips,
  left,     \* requests that have not arrived
  ctx,      \* content of a context: [req, status, name, at]; at counts deployed objects
  phase,    \* of a context: "idle", "chain", "handler" or "deploy"
  senders,  \* goroutines that send an event
  sent,     \* events the audit service was called with
  done,     \* history since the start: audited requests that a handler answered
  created   \* history since the start: objects that were deployed
chainVars == <<enabled, reach, flips, left, ctx, phase, senders, sent, done, created>>

Nobody == [req |-> [user |-> "", method |-> "", route |-> "", cluster |-> "", path |-> <<>>,
                    objs |-> <<>>, dryRun |-> FALSE],
           status |-> 0, name |-> "", at |-> 0]
Named == {r.cluster : r \in Calls} \ {""}

ChainInit ==
  /\ enabled \in BOOLEAN
  /\ reach = [c \in Named |-> "up"]
  /\ flips = 0
  /\ left \in UNION {kSubset(n, Calls) : n \in 1..MaxArrivals}
  /\ ctx = [c \in Contexts |-> Nobody]
  /\ phase = [c \in Contexts |-> "idle"]
  /\ senders = {} /\ sent = {} /\ done = {} /\ created = {}

-----------------------------------------------------------------------------
(* Middlewares, in the order SetUpMiddlewares gives them.                    *)

\* PreCheck: the cluster a request names, as parameter, query or form, must be healthy.
PreCheck(r) == r.cluster # "" => reach[r.cluster] = "up"

\* AuthWhiteList; every other request needs a token.
WithinWhiteList(r) == r.route = "login"
Authenticated(r) == ~WithinWhiteList(r) => r.user # ""

\* (mutant of Audit: Recovery comes first, and a panic unwinds Audit)
AuditNoPanic(r, outcome) == enabled /\ ~WithinWhiteList(r) /\ r.method # "GET" /\ outcome # 500

\* Audit: writes that are not on a white list are audited. Recovery comes after
\* Audit, so that a handler that panics is audited like one that returns.
Audit(r, outcome) == enabled /\ ~WithinWhiteList(r) /\ r.method # "GET"

\* The type of the object a path of the proxy leads to, or "" when it has none;
\* the code slices the type and panics when it is empty.
ProcessUrlStr(path) ==
  LET at == {i \in DOMAIN path : \/ path[i] = "namespaces"
                                 \/ path[i] = "v1" /\ (i = Len(path) \/ path[i + 1] # "namespaces")}
      i == Min(at)
  IN IF at = {} THEN ""
     ELSE IF path[i] = "namespaces" THEN IF Len(path) > i + 1 THEN path[i + 2] ELSE "namespaces"
     ELSE IF Len(path) > i THEN path[i + 1] ELSE ""

-----------------------------------------------------------------------------
(* Requests.                                                                 *)

\* gin resets a context of the pool for the request.
Arrive(r, c) ==
  /\ r \in left /\ phase[c] = "idle"
  /\ left' = left \ {r}
  /\ ctx' = [ctx EXCEPT ![c] = [req |-> r, status |-> 200, name |-> "", at |-> 0]]
  /\ phase' = [phase EXCEPT ![c] = "chain"]
  /\ UNCHANGED <<enabled, reach, flips, senders, sent, done, created>>

\* PreCheck and Auth answer and abort, or leave the request to its handler; the
\* heartbeat and the proxies of apisOutsideMiddlewares have no middlewares.
Chain(c) ==
  LET r == ctx[c].req
      refused(s) == /\ ctx' = [ctx EXCEPT ![c].status = s]
                    /\ phase' = [phase EXCEPT ![c] = "idle"]
      passed == phase' = [phase EXCEPT ![c] = "handler"] /\ UNCHANGED ctx
  IN /\ phase[c] = "chain"
     /\ \/ r.route # "outside" /\ ~PreCheck(r) /\ refused(400)
        \/ r.route # "outside" /\ PreCheck(r) /\ ~Authenticated(r) /\ refused(401)
        \/ r.route = "outside" /\ passed
        \/ r.route # "outside" /\ PreCheck(r) /\ Authenticated(r) /\ passed
     /\ UNCHANGED <<enabled, reach, flips, left, senders, sent, done, created>>

\* The handler is through: Audit starts the goroutine that sends the event, and
\* the context goes back to the pool.
Returned(c, status, name) ==
  LET r == ctx[c].req
      audited == r.route # "outside" /\ Audit(r, status)
  IN /\ ctx' = [ctx EXCEPT ![c].status = status, ![c].name = name]
     /\ phase' = [phase EXCEPT ![c] = "idle"]
     /\ senders' = IF audited THEN senders \cup {[kind |-> "handle", ctx |-> c, own |-> r, read |-> Nobody]} ELSE senders
     /\ done' = IF enabled /\ r.method # "GET" /\ r.route \in {"cube", "proxy"}
                THEN done \cup {[ctx |-> c, was |-> ctx'[c]]} ELSE done

\* A handler of the cube API names the event when it knows what it does, and then
\* succeeds, fails or panics; gin.Recovery answers a panic.
Serve(c) ==
  /\ phase[c] = "handler" /\ ctx[c].req.route \notin {"proxy", "deploy"}
  /\ \E status \in {200, 400, 500}, name \in {"", "event"} : Returned(c, status, name)
  /\ UNCHANGED <<enabled, reach, flips, left, sent, created>>

\* The proxy does not name the event.
ServeProxy(c) ==
  /\ phase[c] = "handler" /\ ctx[c].req.route = "proxy"
  /\ \E status \in {200, 400, 500} : Returned(c, status, "")
  /\ UNCHANGED <<enabled, reach, flips, left, sent, created>>

-----------------------------------------------------------------------------
(* Deploying YAML: objects are created one after the other.                  *)

\* The cluster is looked up in FuzzyCopy, which has the unhealthy ones too.
StartDeploy(c) ==
  LET r == ctx[c].req
  IN /\ phase[c] = "handler" /\ r.route = "deploy"
     /\ \/ reach[r.cluster] = "gone" /\ Returned(c, 404, "")
        \/ /\ reach[r.cluster] # "gone"
           /\ phase' = [phase EXCEPT ![c] = "deploy"]
           /\ UNCHANGED <<ctx, senders, done>>
     /\ UNCHANGED <<enabled, reach, flips, left, sent, created>>

\* An object that was created is reported by a goroutine of its own, whether
\* audit is enabled or not; the address is read from the request before.
SendDeployedAuditEvent(c, o) ==
  {[kind |-> "deployed", ctx |-> c, own |-> ctx[c].req, read |-> [ctx[c] EXCEPT !.status = 200, !.name = o]]}

\* createResource for the next object, a trial when it is a dry run. Errors are
\* collected, and the objects after are created nevertheless.
CreateResource(c) ==
  LET r == ctx[c].req
      o == r.objs[ctx[c].at + 1]
  IN /\ phase[c] = "deploy" /\ ctx[c].at < Len(r.objs)
     /\ \/ /\ ctx' = [ctx EXCEPT ![c].at = @ + 1]
           /\ senders' = senders \cup SendDeployedAuditEvent(c, o)
           /\ created' = IF r.dryRun THEN created ELSE created \cup {[req |-> r, obj |-> o]}
        \/ /\ ctx' = [ctx EXCEPT ![c].at = @ + 1, ![c].status = 400]
           /\ UNCHANGED <<senders, created>>
     /\ UNCHANGED <<enabled, reach, flips, left, phase, sent, done>>

EndDeploy(c) ==
  /\ phase[c] = "deploy" /\ ctx[c].at = Len(ctx[c].req.objs)
  /\ Returned(c, ctx[c].status, "")
  /\ UNCHANGED <<enabled, reach, flips, left, sent, created>>

-----------------------------------------------------------------------------
(* Goroutines: they read the context, whoever has it now.                    *)

\* getUserIdentity: the user of the context, or else of the token of its request.
UserIdentity(content) == content.req.user

\* ConsistParameters: address, parameters and headers of the request of the context.
Parameters(content) == content.req

\* sendEvent: one call, and no retry.
SendEvent(j, seen, name) ==
  /\ sent' = sent \cup {[own |-> j.own, url |-> Parameters(j.read), user |-> UserIdentity(seen),
                         status |-> j.read.status, name |-> name]}
  /\ senders' = senders \ {j}

\* handle, first half: method, address, status and user.
HandleRead(j) ==
  /\ j \in senders /\ j.kind = "handle"
  /\ senders' = (senders \ {j}) \cup {[j EXCEPT !.kind = "read", !.read = ctx[j.ctx]]}
  /\ UNCHANGED <<enabled, reach, flips, left, ctx, phase, sent, done, created>>

\* handle, second half: the name of the event is in the context, or is made of the
\* path of the proxy; without a name nothing is sent.
HandleName(j) ==
  LET now == ctx[j.ctx]
      type == ProcessUrlStr(now.req.path)
  IN /\ j \in senders /\ j.kind = "read"
     /\ \/ now.name # "" /\ SendEvent(j, j.read, now.name)
        \/ now.name = "" /\ now.req.route = "proxy" /\ type # "" /\ SendEvent(j, j.read, type)
        \/ now.name = "" /\ now.req.route # "proxy" /\ senders' = senders \ {j} /\ UNCHANGED sent
     /\ UNCHANGED <<enabled, reach, flips, left, ctx, phase, done, created>>

SendDeployed(j) ==
  /\ j \in senders /\ j.kind = "deployed" /\ SendEvent(j, ctx[j.ctx], j.read.name)
  /\ UNCHANGED <<enabled, reach, flips, left, ctx, phase, done, created>>

-----------------------------------------------------------------------------
(* The process and the clusters.                                             *)

\* The process ends and a new one starts: goroutines and contexts are gone.
Restarted ==
  /\ ctx' = [c \in Contexts |-> Nobody]
  /\ phase' = [c \in Contexts |-> "idle"]
  /\ senders' = {} /\ done' = {} /\ created' = {}
  /\ UNCHANGED <<enabled, reach, flips, left, sent>>

\* A goroutine panics on a path without a type, and nothing recovers it.
HandlePanics(j) ==
  /\ j \in senders /\ j.kind = "read"
  /\ ctx[j.ctx].name = "" /\ ctx[j.ctx].req.route = "proxy" /\ ProcessUrlStr(ctx[j.ctx].req.path) = ""
  /\ Restarted

\* Run: Shutdown waits for requests, not for goroutines.
Shutdown == (\A c \in Contexts : phase[c] = "idle") /\ senders # {} /\ Restarted

ChangeHealth(c) ==
  /\ flips < MaxFlips
  /\ \E s \in {"up", "down", "gone"} \ {reach[c]} : reach' = [reach EXCEPT ![c] = s]
  /\ flips' = flips + 1
  /\ UNCHANGED <<enabled, left, ctx, phase, senders, sent, done, created>>

ChainNext ==
  \/ \E r \in Calls, c \in Contexts : Arrive(r, c)
  \/ \E c \in Contexts : Chain(c)
  \/ \E c \in Contexts : Serve(c)
  \/ \E c \in Contexts : ServeProxy(c)
  \/ \E c \in Contexts : StartDeploy(c)
  \/ \E c \in Contexts : CreateResource(c)
  \/ \E c \in Contexts : EndDeploy(c)
  \/ \E j \in senders : HandleRead(j)
  \/ \E j \in senders : HandleName(j)
  \/ \E j \in senders : SendDeployed(j)
  \/ \E j \in senders : HandlePanics(j)
  \/ Shutdown
  \/ \E c \in DOMAIN reach : ChangeHealth(c)

ChainSpec == ChainInit /\ [][ChainNext]_chainVars

-----------------------------------------------------------------------------
(* Properties.                                                               *)

\* The name handle gives the event of a request, if it is the one in the context.
EventName(was) == IF was.name = "" /\ was.req.route = "proxy" THEN ProcessUrlStr(was.req.path) ELSE was.name

\* Every write that a handler answered is reported with its own user, address, status
\* and name, or a goroutine is about to, as long as the context was not handed to
\* another request: also when the handler failed or panicked. Every object that a
\* deployment created is reported, also when other objects of it failed
\* (Audit, handle, Deploy).
HandledIsReported ==
  /\ \A d \in done :
       ctx[d.ctx] = d.was /\ EventName(d.was) # "" =>
         \/ \E j \in senders : j.own = d.was.req /\ j.ctx = d.ctx
         \/ [own |-> d.was.req, url |-> d.was.req, user |-> d.was.req.user,
             status |-> d.was.status, name |-> EventName(d.was)] \in sent
  /\ \A o \in created :
       \/ \E j \in senders : j.own = o.req /\ j.read.name = o.obj
       \/ \E e \in sent : e.url = o.req /\ e.name = o.obj

\* Refuted: an event is about the request it is sent for (audit.go:93; "This has to
\* be used when the context has to be passed to a goroutine", gin's Copy).
EventIsOwn == \A e \in sent : e.url = e.own /\ e.user = e.own.user

\* Refuted: events are sent only when audit is enabled (yamldeploy.go:128).
SilentWhenDisabled == enabled \/ sent = {}

\* Refuted: a dry run is not reported as a creation (yamldeploy.go:91).
DryRunIsSilent == \A e \in sent : ~e.own.dryRun

\* Refuted: reporting a write never ends the server (audit.go:289).
AuditIsHarmless == \A j \in senders : ~ENABLED HandlePanics(j)
=============================================================================
