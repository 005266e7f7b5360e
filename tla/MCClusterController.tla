------------------------ MODULE MCClusterController ------------------------
(* Model-checking instances of ClusterController.                           *)
EXTENDS ClusterController
=============================================================================
