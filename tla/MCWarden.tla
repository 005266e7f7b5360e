------------------------------ MODULE MCWarden ------------------------------
(* Model-checking instance of the warden: tenants and projects with their     *)
(* namespaces, hotplugs, and the start of the process, explored one at a time.*)
EXTENDS Tenancy, Hotplug, WardenStart, TLC

VARIABLE part

Conf(s, x, y) == [status |-> s, env |-> [v \in {"x", "y"} |-> IF v = "x" THEN x ELSE y]]
MCCommon ==
  {"a" :> Conf("enabled", 1, 0) @@ "b" :> Conf("disabled", 1, 1),
   "a" :> Conf("enabled", 1, 1) @@ "b" :> [status |-> "enabled", env |-> Bad]}
MCCluster ==
  {"a" :> [status |-> "disabled", env |-> Unset],
   "a" :> Conf("", 0, 2),
   "a" :> [status |-> "", env |-> Bad]}

MCInit ==
  /\ Init /\ HotInit /\ StartInit
  /\ part \in {"tenancy", "hotplug", "start"}
  /\ part # "start" => ~pivotUp

MCNext ==
  /\ part' = part
  /\ \/ part = "tenancy" /\ Next /\ UNCHANGED <<hotVars, startVars>>
     \/ part = "hotplug" /\ HotNext /\ UNCHANGED <<vars, startVars>>
     \/ part = "start" /\ StartNext /\ UNCHANGED <<vars, hotVars>>

OfTenancy(A) == part = "tenancy" /\ A /\ UNCHANGED <<hotVars, startVars, part>>
OfStart(A) == part = "start" /\ A /\ UNCHANGED <<vars, hotVars, part>>

\* The fairness of Spec; of the controller of hotplugs; of the start of a process
\* and of its ticker.  The pivot cluster need not take a Cluster over.
MCSpec ==
  /\ MCInit /\ [][MCNext]_<<vars, hotVars, startVars, part>>
  /\ WF_vars(OfTenancy(TenantStep)) /\ WF_vars(OfTenancy(ProjectStep))
  /\ WF_vars(OfTenancy(InformerStep)) /\ WF_vars(OfTenancy(RequestStep))
  /\ WF_hotVars(part = "hotplug" /\ HotStep /\ UNCHANGED <<vars, startVars, part>>)
  /\ WF_startVars(OfStart(Starting)) /\ WF_startVars(OfStart(Report))
=============================================================================
