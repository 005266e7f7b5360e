----------------------------- MODULE MCApiServer -----------------------------
(* Model-checking instance of the API server's accounts, keys, roles and     *)
(* views: they share no state, and are explored one at a time.               *)
EXTENDS Session, AccessKeys, Authorizer, Views, TLC

VARIABLE part

MCTypes == {"normal", "github"}

-----------------------------------------------------------------------------
(* Roles: a pod, a daemon set and the log of a pod in the items.             *)

Pods == <<"pods", "">>
DaemonSets == <<"daemonsets", "">>
Logs == <<"pods", "log">>
MCItems == "i" :> <<Pods, DaemonSets>> @@ "j" :> <<Pods>>
MCPlatform == "i" :> <<Pods, DaemonSets, Logs>> @@ "k" :> <<Pods, DaemonSets>> @@ "m" :> <<DaemonSets, Logs>>
Rule(resources, groups, verbs) == [resources |-> resources, groups |-> groups, names |-> {}, verbs |-> verbs]
MCCharted ==
  {{Rule({Everything}, {"*"}, {"*"}), Rule({Pods, DaemonSets}, {"apps"}, Reads \cup Writes)},
   {Rule({Pods}, {""}, LegacyWrites), Rule({Pods, DaemonSets}, {""}, Reads)}}
MCSettings == [name : {"r1"}, scope : {"platform", "tenant", ""}, want : [{"i", "k"} -> {"read", "write"}]]
MCBindable ==
  {[kind |-> "User", name |-> "u1", role |-> "r1", ns |-> ""],
   [kind |-> "User", name |-> "u1", role |-> "r2", ns |-> "n1"],
   [kind |-> "ServiceAccount", name |-> "u1", role |-> "r2", ns |-> ""]}

-----------------------------------------------------------------------------
(* Views: a namespace of a project, and one further down, in two clusters.   *)

MCBorn == [c \in Clusters |-> 1]
MCSubs ==
  {[name |-> "s1", cluster |-> "c2", project |-> "p1", tenant |-> "t1", depth |-> 1],
   [name |-> "s2", cluster |-> "c1", project |-> "p1", tenant |-> "t1", depth |-> 0]}

-----------------------------------------------------------------------------
Symmetry == Permutations(Clients) \cup Permutations(KeyIds) \cup Permutations(Owners)

MCInit ==
  /\ part \in {"session", "keys", "authz", "views"}
  /\ Init /\ KeyInit /\ AuthzInit /\ ViewInit
  /\ part # "session" => ~generic

\* (bound) The pivot cluster can be reached.
MCNext ==
  /\ part' = part
  /\ \/ part = "session" /\ Next /\ UNCHANGED <<keyVars, authzVars, viewVars>>
     \/ part = "keys" /\ KeyNext /\ UNCHANGED <<vars, authzVars, viewVars>>
     \/ part = "authz" /\ AuthzNext /\ UNCHANGED <<vars, keyVars, viewVars>>
     \/ part = "views" /\ ViewNext /\ Reachable(Pivot)' /\ UNCHANGED <<vars, keyVars, authzVars>>

MCSpec == MCInit /\ [][MCNext]_<<vars, keyVars, authzVars, viewVars, part>>
=============================================================================
