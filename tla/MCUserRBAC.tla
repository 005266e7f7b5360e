----------------------------- MODULE MCUserRBAC -----------------------------
(* Model-checking instances of UserRBAC: a tenant with a project, in which  *)
(* one namespace may be created.                                            *)
EXTENDS UserRBAC

CONSTANTS t1, p1

MCScopes ==
  {[type |-> "tenant", name |-> t1, role |-> "tenant-admin"],
   [type |-> "project", name |-> p1, role |-> "project-admin"]}

MCLegacyScopes == {s \in MCScopes : s.type = "tenant"}

MCNamespaces == {[name |-> "n1", tenant |-> t1, project |-> p1]}

MCTenantOf == [p \in {p1} |-> t1]
=============================================================================
