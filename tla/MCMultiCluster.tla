--------------------------- MODULE MCMultiCluster ---------------------------
(* Model-checking instances of MultiCluster.                                *)
EXTENDS MultiCluster
=============================================================================
