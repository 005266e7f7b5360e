----------------------------- MODULE AccessKeys -----------------------------
(***************************************************************************)
(* The access keys of users (pkg/apiserver/cubeapi/key).  Keys are listed  *)
(* and looked up in a cache, created and deleted directly.                 *)
(***************************************************************************)
EXTENDS Integers, FiniteSets

CONSTANTS
  Owners,      \* the names of users
  KeyIds,      \* the access keys that may be drawn
  KeyLimit     \* the keys a user may have: 5

ASSUME KeyLimitAssumption == KeyLimit \in Nat \ {0}

VARIABLES
  keys,      \* the keys: [id, name]
  seenKeys,  \* the same in the cache
  exists,    \* the names that have a User
  held       \* the names tokens were given out for

keyVars == <<keys, seenKeys, exists, held>>

KeyInit ==
  /\ keys = {} /\ seenKeys = {}
  /\ exists = Owners /\ held = {}

KeysOf(found, n) == {k \in found : k.name = n}

BelowLimit(n) == Cardinality(KeysOf(seenKeys, n)) < KeyLimit

\* GetUUID draws a key that nobody has; the API server would refuse another.
Drawn(i) == \A k \in keys : k.id # i

\* The token of the request tells the name.  Nobody looks for its User.
CreateKey(n, i) ==
  /\ BelowLimit(n) /\ Drawn(i)
  /\ keys' = keys \cup {[id |-> i, name |-> n]}
  /\ UNCHANGED <<seenKeys, exists, held>>

\* The key is looked up in the cache, with its owner.
Owned(n, k) == k \in seenKeys /\ k.name = n

DeleteKey(n, k) ==
  /\ Owned(n, k) /\ k \in keys
  /\ keys' = keys \ {k}
  /\ UNCHANGED <<seenKeys, exists, held>>

\* GetTokenByKey reads the key and its User directly; the secret matches.
GetTokenByKey(k) ==
  /\ k \in keys /\ k.name \in exists
  /\ held' = held \cup {k.name}
  /\ UNCHANGED <<keys, seenKeys, exists>>

DeliverKeys ==
  /\ seenKeys # keys
  /\ seenKeys' = keys
  /\ UNCHANGED <<keys, exists, held>>

\* The User is deleted; its keys are not, and serve the next one of that name.
UserGone(n) ==
  /\ n \in exists
  /\ exists' = exists \ {n}
  /\ UNCHANGED <<keys, seenKeys, held>>

UserBack(n) ==
  /\ n \notin exists
  /\ exists' = exists \cup {n}
  /\ UNCHANGED <<keys, seenKeys, held>>

KeyNext ==
  \/ DeliverKeys
  \/ \E n \in Owners : \/ UserGone(n) \/ UserBack(n)
                       \/ \E i \in KeyIds : CreateKey(n, i)
                       \/ \E k \in seenKeys : DeleteKey(n, k)
  \/ \E k \in keys : GetTokenByKey(k)

KeySpec == KeyInit /\ [][KeyNext]_keyVars

-----------------------------------------------------------------------------
(* Properties.                                                             *)

\* Refuted.  "max key num <= 5" (key/handle.go:63), but CreateKey counts the keys
\* in a cache and creates one afterwards.
KeyLimitAlwaysKept == \A n \in Owners : Cardinality(KeysOf(keys, n)) <= KeyLimit
=============================================================================
