---------------------------- MODULE MCSyncManager ----------------------------
(* Model-checking instances of SyncManager.  Keys are symmetric: no          *)
(* definition orders or chooses among them.                                  *)
EXTENDS SyncManager, TLC

KeySymmetry == Permutations(Keys)
=============================================================================
