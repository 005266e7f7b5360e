----------------------------- MODULE MCResources -----------------------------
(* Model-checking instance of the resource API: external access to services, *)
(* the proxy, the chain every request goes through and the extend API,       *)
(* explored one at a time.                                                   *)
EXTENDS ExternalAccess, Proxy, RequestChain, Workloads, TLC

VARIABLE part

-----------------------------------------------------------------------------
(* External access: a service with ports of its own for both protocols, and  *)
(* one with the same number for both.                                        *)

Port(n, k, p) == [name |-> n, proto |-> k, port |-> p]
Ask(e, p, k) == [ext |-> e, port |-> p, proto |-> k]
MCShapes ==
  "web" :> {{Port("a", "TCP", 1), Port("b", "UDP", 3)}, {Port("a", "TCP", 2), Port("b", "UDP", 3)}}
  @@ "dns" :> {{Port("a", "TCP", 1), Port("b", "UDP", 1), Port("c", "SCTP", 2)}}
MCAsks ==
  {<<>>, <<Ask(31, 1, "TCP"), Ask(30, 1, "UDP")>>, <<Ask(30, 1, "TCP"), Ask(31, 3, "UDP")>>,
   <<Ask(31, 2, "SCTP")>>}

-----------------------------------------------------------------------------
(* The proxy: a kind that has moved from the core group to one of its own, a  *)
(* cluster that has it as a resource of its own, and three objects.           *)

Core == <<"", "v1">>
Beta == <<"events.k8s.io", "v1beta1">>
Stable == <<"events.k8s.io", "v1">>
Foreign == <<"example.com", "v1">>  \* (a resource of the cluster's own with the same kind)
MCRegistered == {Core, Beta, Stable}
MCLayouts == {<<Core, Beta>>, <<Stable>>, <<Foreign>>, <<>>}
MCObjects ==
  "a" :> [label |-> "x", key |-> 2] @@ "b" :> [label |-> "x", key |-> 1] @@ "c" :> [label |-> "y", key |-> 0]
ByLabel == [label |-> "x", texts |-> {}, order |-> "asc", func |-> "string", limit |-> 1]
ByNumber == [label |-> AnyLabel, texts |-> {}, order |-> "desc", func |-> "number", limit |-> 2]
ByText == [label |-> AnyLabel, texts |-> {0, 1}, order |-> "asc", func |-> "string", limit |-> 0]
List(via, gv, ns, watch, cond) == [via |-> via, gv |-> gv, ns |-> ns, watch |-> watch, cond |-> cond]
Single(via, gv, n, method, body) == [via |-> via, gv |-> gv, name |-> n, method |-> method, body |-> body]
MCLists ==
  {List("proxy", Core, TRUE, FALSE, ByLabel), List("proxy", Beta, TRUE, FALSE, ByNumber),
   List("handler", Stable, FALSE, FALSE, ByText),
   List("proxy", Core, TRUE, TRUE, ByText)}
MCSingles ==
  {Single("proxy", Stable, "a", "PUT", Stable), Single("proxy", Core, "a", "PATCH", Core),
   Single("handler", Beta, "a", "PUT", Beta)}

-----------------------------------------------------------------------------
(* Requests: two of them arrive in a behaviour.                              *)

Request(user, method, route, cluster, path, objs, dryRun) ==
  [user |-> user, method |-> method, route |-> route, cluster |-> cluster, path |-> path, objs |-> objs, dryRun |-> dryRun]
MCCalls ==
  {Request("u", "POST", "cube", "", <<>>, <<>>, FALSE),
   Request("v", "GET", "cube", "", <<>>, <<>>, FALSE),
   Request("u", "POST", "proxy", "c1", <<"api", "v1", "namespaces", "n", "pods">>, <<>>, FALSE),
   Request("u", "POST", "proxy", "c1", <<"apis", "g", "v1beta1", "crds">>, <<>>, FALSE),
   Request("v", "POST", "deploy", "c1", <<>>, <<"a", "b">>, FALSE),
   Request("u", "POST", "deploy", "c1", <<>>, <<"a">>, TRUE),
   Request("", "POST", "cube", "", <<>>, <<>>, FALSE),
   Request("", "POST", "login", "", <<>>, <<>>, FALSE),
   Request("", "POST", "outside", "", <<>>, <<>>, FALSE)}

-----------------------------------------------------------------------------
(* The extend API: two deployments with the same label in two namespaces.    *)

MCDeployments == {[uid |-> "d1", ns |-> "n1", label |-> "x"], [uid |-> "d2", ns |-> "n2", label |-> "x"]}
MCReplicaSets == {[uid |-> "s1", owner |-> "d1", ns |-> "n1"], [uid |-> "s2", owner |-> "d2", ns |-> "n2"]}
MCPodSpecs ==
  {[uid |-> "p1", owner |-> "s1", ns |-> "n1", label |-> "x"], [uid |-> "p2", owner |-> "s2", ns |-> "n2", label |-> "x"]}
Look(stage, told, inits, containers, deleting) ==
  [phase |-> stage, told |-> told, gated |-> FALSE, inits |-> inits, containers |-> containers,
   ready |-> stage = "Running", deleting |-> deleting]
On == [state |-> "running", ready |-> TRUE]
Ended == [state |-> "Completed", ready |-> FALSE]
MCPodLooks ==
  {Look("Pending", "", <<"CrashLoopBackOff">>, <<>>, FALSE), Look("Running", "", <<"Completed">>, <<Ended, On>>, FALSE),
   Look("Succeeded", "", <<>>, <<Ended>>, FALSE), Look("Unknown", "NodeLost", <<>>, <<On>>, TRUE),
   Look("Running", "", <<>>, <<On>>, TRUE),
   [Look("Pending", "", <<>>, <<>>, FALSE) EXCEPT !.gated = TRUE]}
MCJobSpecs == {[uid |-> "j1", owner |-> "c"], [uid |-> "j2", owner |-> ""]}
JobLook(active, ok, bad, told, end) ==
  [active |-> active, succeeded |-> ok, failed |-> bad, told |-> told, ended |-> end]
MCJobLooks ==
  {JobLook(1, 0, 0, FALSE, ""), JobLook(1, 1, 1, FALSE, ""),
   JobLook(0, 0, 0, TRUE, ""), JobLook(0, 1, 0, TRUE, "Complete")}

-----------------------------------------------------------------------------
Symmetry == Permutations(Requests)

MCInit ==
  /\ AccessInit /\ ProxyInit /\ ChainInit /\ WorkInit
  /\ part \in {"access", "proxy", "chain", "maps", "lists", "jobs"}
  /\ part # "proxy" => \A g \in 1..(Len(conv.order) - 1) : conv.order[g] = CoreGroup
  /\ part # "chain" => enabled /\ left = {Request("", "POST", "login", "", <<>>, <<>>, FALSE)}

\* (bound) Requests and changes of services: three of them.  One of the objects comes
\* and goes.
MCNext ==
  /\ part' = part
  /\ \/ part = "access" /\ AccessNext /\ turns'[1] + turns'[2] <= 3 /\ UNCHANGED <<proxyVars, chainVars, workVars>>
     \/ part = "proxy" /\ ProxyNext /\ {"a", "c"} \subseteq store' /\ UNCHANGED <<accessVars, chainVars, workVars>>
     \/ part = "chain" /\ ChainNext /\ UNCHANGED <<accessVars, proxyVars, workVars>>
     \/ part = "maps" /\ MapNext /\ UNCHANGED <<accessVars, proxyVars, chainVars, listVars>>
     \/ part = "jobs" /\ JobNext /\ UNCHANGED <<accessVars, proxyVars, chainVars, mapVars>>
     \/ part = "lists" /\ ListNext /\ UNCHANGED <<accessVars, proxyVars, chainVars, mapVars>>

MCSpec == MCInit /\ [][MCNext]_<<accessVars, proxyVars, chainVars, workVars, part>>
=============================================================================
