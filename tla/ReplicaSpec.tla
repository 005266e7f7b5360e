----------------------------- MODULE ReplicaSpec -----------------------------
(***************************************************************************)
(* What the sync manager of a member cluster promises about the copies it  *)
(* keeps of the pivot cluster's objects.  A copy always holds a version    *)
(* the pivot cluster has already published, and the versions that are      *)
(* copied under one name only ever move forward, also across the deletion  *)
(* and re-creation of the copy.  SyncManager implements this module.       *)
(***************************************************************************)
EXTENDS Integers

CONSTANTS
  Keys,       \* the namespaced names of one synced kind
  None        \* no copy

VARIABLES
  latest,     \* the last version the pivot cluster has published
  copy,       \* copy[k]: the version of the copy of k, None when there is none
  mark        \* mark[k]: the highest version ever copied under the name k

vars == <<latest, copy, mark>>

Init ==
  /\ latest = 0
  /\ copy = [k \in Keys |-> None]
  /\ mark = [k \in Keys |-> 0]

Publish ==
  /\ latest' \in Nat
  /\ latest' > latest
  /\ UNCHANGED <<copy, mark>>

Apply(k, v) ==
  /\ mark[k] <= v
  /\ v <= latest
  /\ copy' = [copy EXCEPT ![k] = v]
  /\ mark' = [mark EXCEPT ![k] = v]
  /\ UNCHANGED latest

Drop(k) ==
  /\ copy' = [copy EXCEPT ![k] = None]
  /\ UNCHANGED <<latest, mark>>

Next ==
  \/ Publish
  \/ \E k \in Keys : Drop(k) \/ (\E v \in 0..latest : Apply(k, v))

Spec == Init /\ [][Next]_vars
==============================================================================
