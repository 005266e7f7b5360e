-------------------------- MODULE MCNamespaceQuota --------------------------
(* Model-checking instance of NamespaceQuota.                               *)
EXTENDS NamespaceQuota

\* (bound) The parent starts with 2, and is edited or deleted, not both in one behaviour.
MCInit == Init /\ parent.hard = 2
MCNext == Next /\ edits' + drops' <= 1

MCSpec == MCInit /\ [][MCNext]_vars /\ Fairness
=============================================================================
