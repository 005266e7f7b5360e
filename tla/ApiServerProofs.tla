-------------------------- MODULE ApiServerProofs --------------------------
(***************************************************************************)
(* The API server: that a role is shown with what was asked for it and     *)
(* permits what it is shown with, that the views of tenants, projects,     *)
(* namespaces and clusters agree, that every write which a handler         *)
(* answered is reported, and that no edit of a user is lost and no login   *)
(* of a forbidden user succeeds.  These parts share no state.              *)
(***************************************************************************)
EXTENDS Authorizer, Views, RequestChain, Session, FiniteSetTheorems, WellFoundedInduction, TLAPS

-----------------------------------------------------------------------------
(* Roles.  setAuthItems merges the items that are asked for into one rule    *)
(* for each resource; getAuthItems splits the rules again, and merges the    *)
(* verbs of the resources of an item into the one it is shown with.          *)

\* The verbs that are asked for a resource, over all items that have it.
AskedFor(want, data, r) ==
  {want[i] : i \in {k \in {i \in DOMAIN want : i \in DOMAIN data /\ want[i] # "null"} :
                      \E j \in DOMAIN data[k] : data[k][j] = r}}

\* A role that was last written by setAuthItems, on the items of its own scope, has
\* the rules these make.
RoleInv ==
  /\ DOMAIN roles = Roles /\ DOMAIN asked = Roles
  /\ \A r \in Roles : roles[r] # NoRole => DOMAIN roles[r] = {"scope", "rules"}
  /\ \A r \in Roles : roles[r] # NoRole =>
       \/ asked[r] = <<>>
       \/ roles[r].rules = RoleAuthMapping(asked[r], ItemsOf(roles[r].scope))

\* A rule that RoleAuthMapping makes is read back as the verb it was made for.
LEMMA RuleReadsBack ==
  ASSUME NEW r, NEW verbs
  PROVE  VerbsAssert(RuleOf(r, verbs).verbs) = CASE verbs = {"read"} -> "read"
                                                 [] verbs = {"write"} -> "write"
                                                 [] OTHER -> "all"
<1>1. /\ Reads \cup Writes # Reads /\ ~(Reads \subseteq Writes)
      /\ LegacyWrites \subseteq Writes /\ Writes # Reads \cup Writes
  <2>1. "get" \in Reads /\ "get" \notin Writes /\ "create" \in Writes /\ "create" \notin Reads
    BY DEF Reads, Writes, LegacyWrites
  <2>2. LegacyWrites \subseteq Writes
    BY DEF Writes
  <2>. QED
    BY <2>1, <2>2
<1>2. {"read"} # {"write"}
  OBVIOUS
<1>3. CASE verbs = {"read"}
  <2>1. RuleOf(r, verbs).verbs = Reads
    BY <1>2, <1>3 DEF RuleOf
  <2>. QED
    BY <1>1, <1>2, <1>3, <2>1 DEF VerbsAssert
<1>4. CASE verbs = {"write"}
  <2>1. RuleOf(r, verbs).verbs = Writes
    BY <1>2, <1>4 DEF RuleOf
  <2>. QED
    BY <1>1, <1>2, <1>4, <2>1 DEF VerbsAssert
<1>5. CASE verbs # {"read"} /\ verbs # {"write"}
  <2>1. RuleOf(r, verbs).verbs = Reads \cup Writes
    BY <1>5 DEF RuleOf
  <2>. QED
    BY <1>5, <2>1 DEF VerbsAssert
<1>. QED
  BY <1>3, <1>4, <1>5

\* A resource of an item that is asked for has one rule, with the verbs of all items.
LEMMA OneRule ==
  ASSUME NEW want, NEW data, NEW i \in DOMAIN want \cap DOMAIN data, want[i] # "null",
         NEW j \in DOMAIN data[i]
  PROVE  LET r == data[i][j]
         IN /\ want[i] \in AskedFor(want, data, r)
            /\ {x \in RoleAuthMapping(want, data) : r \in x.resources} = {RuleOf(r, AskedFor(want, data, r))}
<1>. DEFINE r == data[i][j]
            items == {k \in DOMAIN want : k \in DOMAIN data /\ want[k] # "null"}
            granted == UNION {{data[k][l] : l \in DOMAIN data[k]} : k \in items}
<1>1. RoleAuthMapping(want, data) = {RuleOf(q, AskedFor(want, data, q)) : q \in granted}
  BY DEF RoleAuthMapping, AskedFor
<1>2. i \in items /\ r \in granted
  OBVIOUS
<1>3. want[i] \in AskedFor(want, data, r)
  BY <1>2 DEF AskedFor
<1>4. \A q, vs : RuleOf(q, vs).resources = {q}
  BY DEF RuleOf
<1>. HIDE DEF granted, r
<1>5. {x \in RoleAuthMapping(want, data) : r \in x.resources} = {RuleOf(r, AskedFor(want, data, r))}
  BY <1>1, <1>2, <1>4
<1>. QED
  BY <1>3, <1>5 DEF r

\* Such a resource is split into what its rule reads back as.
LEMMA SplitOfOne ==
  ASSUME NEW rules, NEW r, NEW rule, {x \in rules : r \in x.resources} = {rule}
  PROVE  Split(rules, r) = VerbsAssert(rule.verbs)
<1>. DEFINE found == {VerbsAssert(x.verbs) : x \in {y \in rules : r \in y.resources}}
            a == VerbsAssert(rule.verbs)
<1>1. found = {a}
  OBVIOUS
<1>. DEFINE v == CHOOSE v \in found : TRUE
            w == CHOOSE w \in found : found = {v, w}
<1>2. v = a
  BY <1>1
<1>3. w = a
  BY <1>1, <1>2
<1>4. found # {} /\ Split(rules, r) = VerbsMerge(v, w)
  BY <1>1 DEF Split
<1>. QED
  BY <1>2, <1>3, <1>4 DEF VerbsMerge

\* A set of numbers has a least one.
LEMMA LeastNumber ==
  ASSUME NEW S \in SUBSET Nat, S # {}
  PROVE  \E x \in S : \A y \in S : x <= y
<1>1. \E x \in S : \A y \in S : ~(<<y, x>> \in OpToRel(<, Nat))
  BY WFMin, NatLessThanWellFounded
<1>2. \A x, y \in Nat : y < x => <<y, x>> \in OpToRel(<, Nat)
  BY DEF OpToRel
<1>3. \A x, y \in Nat : ~(y < x) => x <= y
  OBVIOUS
<1>. QED
  BY <1>1, <1>2, <1>3

\* The positions of a list are numbers, and all but the first have one before them.
LEMMA Positions ==
  ASSUME NEW n \in Nat
  PROVE  1..n \subseteq Nat /\ \A j \in 1..n : j > 1 => j - 1 \in 1..n
  OBVIOUS

\* What stands for no verb is none.
LEMMA UnsetIsNoVerb == Unset \notin {"read", "write", "all", "null"}
  BY Zenon DEF Unset

\* An item whose resources are all split into its own verb or into "all" is shown with
\* its own verb or with "all".
LEMMA ShownVerb ==
  ASSUME NEW rules, NEW list, NEW n \in Nat, DOMAIN list = 1..n, NEW own,
         own \notin {Unset, "null"},
         \A j \in DOMAIN list : Split(rules, list[j]) \in {own, "all"}
  PROVE  Seen(rules, list) \in {own, "all"}
<1>. DEFINE verbs == [j \in DOMAIN list |-> Split(rules, list[j])]
            clash == \E j \in DOMAIN verbs :
                       \/ verbs[j] \in {Unset, "null"}
                       \/ j > 1 /\ "all" \notin {verbs[j - 1], verbs[j]} /\ verbs[j - 1] # verbs[j]
            partial == {j \in DOMAIN verbs : verbs[j] # "all"}
            first == CHOOSE j \in partial : \A k \in partial : j <= k
<1>1. DOMAIN verbs = 1..n /\ \A j \in 1..n : verbs[j] \in {own, "all"}
  OBVIOUS
<1>2. Seen(rules, list) = IF clash THEN "null" ELSE IF partial = {} THEN "all" ELSE verbs[first]
  BY DEF Seen
<1>. HIDE DEF verbs
<1>3. ~clash
  <2>. SUFFICES ASSUME NEW j \in 1..n, j > 1, "all" \notin {verbs[j - 1], verbs[j]}
                PROVE  verbs[j - 1] = verbs[j]
    BY <1>1, UnsetIsNoVerb
  <2>1. j - 1 \in 1..n
    BY Positions
  <2>. QED
    BY <1>1, <2>1
<1>4. CASE partial = {}
  BY <1>2, <1>3, <1>4
<1>5. CASE partial # {}
  <2>1. partial \in SUBSET Nat
    <3>1. partial \subseteq 1..n
      BY <1>1
    <3>2. 1..n \subseteq Nat
      BY Positions
    <3>. QED
      BY <3>1, <3>2
  <2>2. \E j \in partial : \A k \in partial : j <= k
    BY <1>5, <2>1, LeastNumber
  <2>3. first \in partial
    BY <2>2
  <2>4. verbs[first] \in {own, "all"}
    BY <1>1, <2>3
  <2>. QED
    BY <1>2, <1>3, <1>5, <2>4
<1>. QED
  BY <1>4, <1>5

\* Whatever is asked for the other items, an item is shown with what was asked for it,
\* or in full.
LEMMA MappingRoundTrip ==
  ASSUME NEW want, NEW data, NEW i \in DOMAIN want \cap DOMAIN data,
         NEW n \in Nat, DOMAIN data[i] = 1..n
  PROVE  Covers(Seen(RoleAuthMapping(want, data), data[i]), want[i])
<1>. DEFINE rules == RoleAuthMapping(want, data)
            own == IF want[i] = "read" \/ want[i] = "write" THEN want[i] ELSE "all"
<1>1. CASE want[i] = "null"
  BY <1>1 DEF Covers
<1>2. CASE want[i] # "null"
  <2>1. ASSUME NEW j \in DOMAIN data[i]
        PROVE  Split(rules, data[i][j]) \in {own, "all"}
    <3>. DEFINE r == data[i][j]
                verbs == AskedFor(want, data, r)
    <3>1. want[i] \in verbs /\ {x \in rules : r \in x.resources} = {RuleOf(r, verbs)}
      BY <1>2, OneRule
    <3>. HIDE DEF rules, verbs, r
    <3>2. Split(rules, r) = VerbsAssert(RuleOf(r, verbs).verbs)
      BY <3>1, SplitOfOne
    <3>3. Split(rules, r) = CASE verbs = {"read"} -> "read" [] verbs = {"write"} -> "write" [] OTHER -> "all"
      BY <3>2, RuleReadsBack
    <3>4. Split(rules, r) \in {own, "all"}
      BY <3>1, <3>3
    <3>. QED
      BY <3>4 DEF r
  <2>2. own \notin {Unset, "null"}
    BY UnsetIsNoVerb
  <2>. HIDE DEF own, rules
  <2>3. Seen(rules, data[i]) \in {own, "all"}
    BY <2>1, <2>2, ShownVerb
  <2>. QED
    BY <1>2, <2>3 DEF Covers, own, rules
<1>. QED
  BY <1>1, <1>2

\* setAuthItems writes the rules that the items make.
LEMMA SetKeeps ==
  ASSUME RoleInv, NEW name \in Roles, NEW scope, NEW want, SetAuthItems(name, scope, want)
  PROVE  RoleInv'
<1>. DEFINE known == seenRoles[name] # NoRole
            data == IF known THEN ItemsOf(seenRoles[name].scope)
                    ELSE IF scope = Unset THEN <<>> ELSE ItemsOf(scope)
            rules == RoleAuthMapping(want, data)
            new == IF roles[name] = NoRole THEN [scope |-> IF known THEN Unset ELSE scope, rules |-> rules]
                   ELSE [roles[name] EXCEPT !.rules = rules]
<1>1. /\ roles' = [roles EXCEPT ![name] = new]
      /\ asked' = [asked EXCEPT ![name] = IF data = ItemsOf(new.scope) THEN want ELSE <<>>]
  BY DEF SetAuthItems
<1>2. DOMAIN new = {"scope", "rules"} /\ new.rules = RoleAuthMapping(want, data)
  BY DEF RoleInv
<1>. HIDE DEF new, data
<1>3. /\ DOMAIN roles' = Roles /\ DOMAIN asked' = Roles
      /\ roles'[name] = new /\ asked'[name] = IF data = ItemsOf(new.scope) THEN want ELSE <<>>
      /\ \A r \in Roles : r # name => roles'[r] = roles[r] /\ asked'[r] = asked[r]
  BY <1>1 DEF RoleInv
<1>4. asked'[name] = <<>> \/ roles'[name].rules = RoleAuthMapping(asked'[name], ItemsOf(roles'[name].scope))
  BY <1>2, <1>3
<1>5. ASSUME NEW r \in Roles, roles'[r] # NoRole
      PROVE  /\ DOMAIN roles'[r] = {"scope", "rules"}
             /\ asked'[r] = <<>> \/ roles'[r].rules = RoleAuthMapping(asked'[r], ItemsOf(roles'[r].scope))
  <2>1. CASE r = name
    BY <1>2, <1>3, <1>4, <2>1
  <2>2. CASE r # name
    BY <1>3, <1>5, <2>2 DEF RoleInv
  <2>. QED
    BY <2>1, <2>2
<1>. QED
  BY <1>3, <1>5 DEF RoleInv

\* A role that is installed or removed by other means was not asked for.
LEMMA InstallKeeps ==
  ASSUME RoleInv, NEW name \in Roles, Uninstall(name) \/ \E rules \in Charted : Install(name, rules)
  PROVE  RoleInv'
<1>1. PICK new : /\ roles' = [roles EXCEPT ![name] = new]
                 /\ new = NoRole \/ DOMAIN new = {"scope", "rules"}
  BY DEF Install, Uninstall
<1>2. asked' = [asked EXCEPT ![name] = <<>>]
  BY DEF Install, Uninstall
<1>3. /\ DOMAIN roles' = Roles /\ DOMAIN asked' = Roles
      /\ roles'[name] = new /\ asked'[name] = <<>>
      /\ \A r \in Roles : r # name => roles'[r] = roles[r] /\ asked'[r] = asked[r]
  BY <1>1, <1>2 DEF RoleInv
<1>. QED
  BY <1>1, <1>3 DEF RoleInv

\* For any items and any calls, on however late a cache, a role is shown with what was
\* asked for it or with more: the resources that items share are merged by
\* RoleAuthMapping and split again by ClusterRoleMapping without a loss.
THEOREM RolesAreShownAsAsked == AuthzSpec => []AskedIsShown
<1>1. ASSUME AuthzInit
      PROVE  RoleInv
  BY <1>1 DEF AuthzInit, RoleInv
<1>2. ASSUME RoleInv, [AuthzNext]_authzVars
      PROVE  RoleInv'
  <2>1. CASE \E s \in Settings : SetAuthItems(s.name, s.scope, s.want)
    BY <1>2, <2>1, SetKeeps, ItemsAssumption
  <2>2. CASE \E r \in Roles : Uninstall(r) \/ \E rules \in Charted : Install(r, rules)
    BY <1>2, <2>2, InstallKeeps
  <2>3. CASE UNCHANGED <<roles, asked>>
    BY <1>2, <2>3 DEF RoleInv
  <2>. QED
    BY <1>2, <2>1, <2>2, <2>3 DEF AuthzNext, DeliverRole, DeliverBind, DeliverHolder, authzVars
<1>3. ASSUME RoleInv
      PROVE  AskedIsShown
  <2>. SUFFICES ASSUME NEW r \in Roles, roles[r] # NoRole,
                       NEW i \in DOMAIN asked[r] \cap DOMAIN ItemsOf(roles[r].scope)
                PROVE  Covers(GetAuthItems(r)[i], asked[r][i])
    BY DEF AskedIsShown
  <2>. DEFINE data == ItemsOf(roles[r].scope)
  <2>1. asked[r] # <<>>
    OBVIOUS
  <2>2. roles[r].rules = RoleAuthMapping(asked[r], data)
    BY <1>3, <2>1 DEF RoleInv
  <2>3. \E n \in Nat : DOMAIN data[i] = 1..n
    BY ItemsAssumption DEF ItemsOf
  <2>4. GetAuthItems(r)[i] = Seen(roles[r].rules, data[i])
    BY DEF GetAuthItems
  <2>. HIDE DEF data
  <2>5. i \in DOMAIN asked[r] \cap DOMAIN data
    BY DEF data
  <2>. QED
    BY <2>2, <2>3, <2>4, <2>5, MappingRoundTrip
<1>. QED
  BY <1>1, <1>2, <1>3, PTL DEF AuthzSpec

-----------------------------------------------------------------------------
(* Permissions.  getAuthItems looks at the resources and verbs of the rules  *)
(* only, while the resolver, which getPermissions asks for the core group    *)
(* and without a name, also looks at their groups and names.  The two agree  *)
(* on rules that are open in these.  Everything is read in one cache, so     *)
(* they agree in every state, whatever led to it.                            *)

\* What the verb says of a rule's verbs.
LEMMA VerbsAsserted ==
  ASSUME NEW verbs
  PROVE  /\ VerbsAssert(verbs) \in {"all", "read", "write", "null"}
         /\ VerbsAssert(verbs) \in {"all", "read"} => "get" \in verbs
         /\ VerbsAssert(verbs) \in {"all", "write"} => "create" \in verbs
<1>1. "get" \in Reads /\ "create" \in LegacyWrites /\ LegacyWrites \subseteq Writes
  BY DEF Reads, Writes, LegacyWrites
<1> QED BY <1>1 DEF VerbsAssert

\* A resource that is split into "all" may be read by one rule, and be written by one,
\* however many rules there are for it.
LEMMA AllIsBoth ==
  ASSUME NEW rules, NEW r, Split(rules, r) = "all"
  PROVE  /\ \E rule \in rules : r \in rule.resources /\ "get" \in rule.verbs
         /\ \E rule \in rules : r \in rule.resources /\ "create" \in rule.verbs
<1> DEFINE mine == {x \in rules : r \in x.resources}
           found == {VerbsAssert(rule.verbs) : rule \in mine}
           v == CHOOSE v \in found : TRUE
           w == CHOOSE w \in found : found = {v, w}
<1>1. found # {} /\ VerbsMerge(v, w) = "all"
  <2>1. Split(rules, r) = IF found = {} THEN Unset ELSE VerbsMerge(v, w)
    BY DEF Split
  <2> HIDE DEF found, v, w
  <2> QED BY <2>1, UnsetIsNoVerb
<1>2. \A x \in found : \E rule \in mine : x = VerbsAssert(rule.verbs)
  OBVIOUS
<1>3. found \subseteq {"all", "read", "write", "null"}
  BY <1>2, VerbsAsserted
<1>4. v \in found /\ ((\E x \in found : found = {v, x}) => w \in found /\ found = {v, w})
  <2>1. v \in found
    BY <1>1
  <2> HIDE DEF found, v
  <2> QED BY <2>1
<1> HIDE DEF found, v, w
<1>5. "all" \in found \/ {"read", "write"} \subseteq found
  <2>1. CASE \E x \in found : found = {v, x}
    BY <1>1, <1>3, <1>4, <2>1 DEF VerbsMerge
  <2>2. CASE ~\E x \in found : found = {v, x}
    BY <1>3, <1>4, <2>2
  <2> QED BY <2>1, <2>2
<1>6. \E rule \in mine : VerbsAssert(rule.verbs) \in {"all", "read"}
  BY <1>2, <1>5
<1>7. \E rule \in mine : VerbsAssert(rule.verbs) \in {"all", "write"}
  BY <1>2, <1>5
<1> QED BY <1>6, <1>7, VerbsAsserted

\* An item that is shown in full has resources that are.
LEMMA FullItem ==
  ASSUME NEW rules, NEW list, NEW n \in Nat, DOMAIN list = 1..n, Seen(rules, list) = "all"
  PROVE  \A i \in DOMAIN list : Split(rules, list[i]) = "all"
<1> DEFINE verbs == [i \in DOMAIN list |-> Split(rules, list[i])]
           clash == \E i \in DOMAIN verbs :
                 \/ verbs[i] \in {Unset, "null"}
                 \/ i > 1 /\ "all" \notin {verbs[i - 1], verbs[i]} /\ verbs[i - 1] # verbs[i]
           partial == {i \in DOMAIN verbs : verbs[i] # "all"}
           first == CHOOSE i \in partial : \A j \in partial : i <= j
<1>1. Seen(rules, list) = IF clash THEN "null" ELSE IF partial = {} THEN "all" ELSE verbs[first]
  BY DEF Seen
<1>2. partial \in SUBSET Nat
  OBVIOUS
<1>3. partial # {} => verbs[first] # "all"
  <2> SUFFICES ASSUME partial # {} PROVE first \in partial
    OBVIOUS
  <2> HIDE DEF partial
  <2> QED BY <1>2, LeastNumber
<1> HIDE DEF clash, first
<1>4. partial = {}
  <2> HIDE DEF partial, verbs
  <2> QED BY <1>1, <1>3
<1> QED BY <1>4

\* A binding to a role with an open rule grants what the rule says.
LEMMA BoundIsAllowed ==
  ASSUME NEW b \in binds, NEW ns, b.kind = "User", b.ns \in {Unset, ns}, seenRoles[b.role] # NoRole,
         NEW rule \in seenRoles[b.role].rules, OpenRule(rule), NEW r \in rule.resources, NEW verb \in rule.verbs
  PROVE  IsAllowedAccess(b.name, r, ns, verb)
<1> DEFINE a == [verb |-> verb, group |-> Unset, resource |-> r, sub |-> Unset, name |-> Unset]
<1>1. RuleAllows(a, rule)
  BY DEF RuleAllows, VerbMatches, APIGroupMatches, ResourceMatches, ResourceNameMatches, OpenRule
<1>2. b \in BindingsFor(b.name, ns)
  BY DEF BindingsFor, AppliesTo
<1> QED BY <1>1, <1>2 DEF IsAllowedAccess, AccessAllow, Authorize

\* What resourcesGate is asked about an item.
GateOf(u, list, op, ns) == ResourcesGate(u, [j \in DOMAIN list |-> [resource |-> list[j], op |-> op, ns |-> ns]])

\* The gate is open for a list of resources that are all allowed.
LEMMA GateOpens ==
  ASSUME NEW u, NEW list, NEW n \in Nat, DOMAIN list = 1..n, NEW ns, NEW op \in {"read", "write"},
         \A i \in 1..n : IsAllowedAccess(u, list[i], ns, "get") /\ IsAllowedAccess(u, list[i], ns, "create")
  PROVE  \A r \in DOMAIN GateOf(u, list, op, ns) : GateOf(u, list, op, ns)[r]
<1> DEFINE infos == [j \in DOMAIN list |-> [resource |-> list[j], op |-> op, ns |-> ns]]
           gate == ResourcesGate(u, infos)
           mine(r) == {i \in DOMAIN infos : infos[i].resource = r}
           last(r) == infos[CHOOSE i \in mine(r) : \A j \in mine(r) : j <= i]
<1> SUFFICES ASSUME NEW r \in DOMAIN gate PROVE gate[r]
  BY DEF GateOf
<1>1. /\ gate[r] = IsAllowedAccess(u, r, last(r).ns, IF last(r).op = "write" THEN "create" ELSE "get")
      /\ \E i \in DOMAIN infos : infos[i].resource = r
  BY DEF ResourcesGate
<1>2. PICK i \in 1..n : list[i] = r
  BY <1>1
<1>3. \E i0 \in mine(r) : \A j \in mine(r) : j <= i0
  <2> DEFINE behind == {n - j : j \in mine(r)}
  <2>1. behind \in SUBSET Nat /\ n - i \in behind
    BY <1>2
  <2> HIDE DEF behind
  <2>2. PICK x \in behind : \A y \in behind : x <= y
    BY <2>1, LeastNumber
  <2>3. PICK k \in mine(r) : x = n - k
    BY <2>2 DEF behind
  <2>4. \A j \in mine(r) : j \in Int /\ n - k <= n - j
    BY <2>2, <2>3 DEF behind
  <2>5. \A j \in mine(r) : j <= k
    BY <2>3, <2>4
  <2> QED BY <2>3, <2>5
<1>4. (CHOOSE i0 \in mine(r) : \A j \in mine(r) : j <= i0) \in mine(r)
  <2> HIDE DEF mine
  <2> QED BY <1>3
<1>5. last(r).ns = ns /\ last(r).op = op
  BY <1>4
<1> HIDE DEF last, gate
<1> QED BY <1>1, <1>2, <1>5

\* What is shown in full is permitted in full.
LEMMA FullIsPermitted == ShownInFullIsPermitted
<1> SUFFICES ASSUME NEW b \in binds, NEW ns \in Spaces,
                    b.kind = "User", b.ns \in {Unset, ns}, b.role \in RolesByLevel("platform"),
                    \A rule \in seenRoles[b.role].rules : OpenRule(rule),
                    NEW i \in DOMAIN PlatformItems, Seen(seenRoles[b.role].rules, PlatformItems[i]) = "all"
             PROVE  /\ GetPermissions(b.name, ns, i) = "all"
                    /\ \A op \in {"read", "write"} :
                         LET gate == ResourcesGate(b.name, [j \in DOMAIN PlatformItems[i] |->
                                         [resource |-> PlatformItems[i][j], op |-> op, ns |-> ns]])
                         IN \A r \in DOMAIN gate : gate[r]
                    /\ DaemonSetsResource \in Range(PlatformItems[i]) =>
                         DaemonSetsLevel(b.name, ns).tenant = "all"
  BY DEF ShownInFullIsPermitted
<1> DEFINE rules == seenRoles[b.role].rules
           list == PlatformItems[i]
           n == Len(list)
<1>1. n \in Nat /\ DOMAIN list = 1..n
  BY ItemsAssumption
<1>2. seenRoles[b.role] # NoRole /\ \A rule \in rules : OpenRule(rule)
  BY DEF RolesByLevel
<1>3. ASSUME NEW k \in 1..n
      PROVE  IsAllowedAccess(b.name, list[k], ns, "get") /\ IsAllowedAccess(b.name, list[k], ns, "create")
  <2>1. Split(rules, list[k]) = "all"
    BY <1>1, FullItem
  <2>2. /\ \E rule \in rules : list[k] \in rule.resources /\ "get" \in rule.verbs
        /\ \E rule \in rules : list[k] \in rule.resources /\ "create" \in rule.verbs
    BY <2>1, AllIsBoth
  <2> QED BY <1>2, <2>2, BoundIsAllowed
<1>4. GetPermissions(b.name, ns, i) = "all"
  BY <1>1, <1>3 DEF GetPermissions, Represent
<1>5. DaemonSetsResource \in Range(list) => DaemonSetsLevel(b.name, ns).tenant = "all"
  BY <1>1, <1>3 DEF Range, DaemonSetsLevel, Represent
<1> HIDE DEF n
<1>6. ASSUME NEW op \in {"read", "write"}
      PROVE  \A r \in DOMAIN GateOf(b.name, list, op, ns) : GateOf(b.name, list, op, ns)[r]
  <2> HIDE DEF list
  <2> QED BY <1>1, <1>3, <1>6, GateOpens
<1> QED BY <1>4, <1>5, <1>6 DEF GateOf

\* Roles and users agree, whatever the bindings and the roles.
LEMMA RolesAndUsersFit == RolesAndUsersAgree
<1> SUFFICES ASSUME NEW u \in Holders, NEW ns \in Spaces \cup {Unset}, GetRolesByUser(u, ns).ok, NEW r \in Roles
             PROVE  /\ CheckClusterRole(u, {r}) <=> r \in GetRolesByUser(u, Unset).all
                    /\ UsersFor(r, ns).ok /\ (\A b \in binds : b.kind = "User") =>
                         (r \in GetRolesByUser(u, ns).all <=> u \in UsersFor(r, ns).all)
  BY DEF RolesAndUsersAgree
<1>1. \A b \in BindingsFor(u, ns) : seenRoles[b.role] # NoRole
  BY DEF GetRolesByUser, RolesFor
<1>2. u \in holders
  BY DEF GetRolesByUser, RolesFor
<1>3. BindingsFor(u, Unset) \subseteq BindingsFor(u, ns)
  BY DEF BindingsFor
<1>4. \A x : GetRolesByUser(u, x).all = {b.role : b \in {y \in BindingsFor(u, x) : seenRoles[y.role] # NoRole}}
  BY DEF GetRolesByUser, RolesFor
<1>5. CheckClusterRole(u, {r}) <=> \E b \in BindingsFor(u, Unset) : b.role = r
  BY DEF CheckClusterRole, User2UserRole
<1>6. ASSUME \A b \in binds : b.kind = "User"
      PROVE  r \in GetRolesByUser(u, ns).all <=> u \in UsersFor(r, ns).all
  <2>1. r \in GetRolesByUser(u, ns).all <=> \E b \in BindingsFor(u, ns) : b.role = r
    BY <1>1, <1>4
  <2>2. u \in UsersFor(r, ns).all <=> \E b \in binds : b.role = r /\ b.ns \in {Unset, ns} /\ b.name = u
    BY <1>2 DEF UsersFor
  <2> QED BY <1>6, <2>1, <2>2 DEF BindingsFor, AppliesTo
<1> QED BY <1>1, <1>3, <1>4, <1>5, <1>6

\* For any items, roles, rules and bindings, however late the cache is and whatever
\* bindings dangle: an item that a role is shown with in full (getAuthItems) is permitted
\* in full to everyone bound to it (getPermissions, resourcesGate, getDaemonSetsLevel)
\* unless the role names groups or objects, and roles and users list each other
\* (getRolesByUser, getUsersByRole).
THEOREM PermissionsFit == AuthzSpec => []PermissionsAgree
<1>1. PermissionsAgree
  BY FullIsPermitted, RolesAndUsersFit DEF PermissionsAgree
<1>. QED
  BY <1>1, PTL

-----------------------------------------------------------------------------
(* Views.  They are computed from what there is, whatever led to it; that a  *)
(* cluster is on one page is a matter of counting.                           *)

ViewInv == DOMAIN clusters \subseteq Clusters

\* The order of a list of all elements of a set gives each of them one position.
LEMMA EachHasAPlace ==
  ASSUME NEW S, IsFiniteSet(S), NEW list \in SetToSeqs(S)
  PROVE  /\ list \in Seq(S) /\ Len(list) = Cardinality(S)
         /\ \A i, j \in 1..Len(list) : i # j => list[i] # list[j]
         /\ \A x \in S : \E i \in 1..Len(list) : list[i] = x
<1> DEFINE n == Cardinality(S)
<1>1. n \in Nat
  BY FS_CardinalityType
<1>2. list \in [1..n -> S] /\ \A i, j \in 1..n : i # j => list[i] # list[j]
  BY DEF SetToSeqs
<1>3. list \in Surjection(1..n, S)
  <2>1. list \in Injection(1..n, S)
    BY <1>2 DEF Injection, IsInjective
  <2>2. Cardinality(1..n) = n
    BY <1>1, FS_Interval
  <2> QED BY <2>1, <2>2, FS_Injection
<1>4. \A x \in S : \E i \in 1..n : list[i] = x
  BY <1>3 DEF Surjection
<1> HIDE DEF n
<1>5. list \in Seq(S) /\ Len(list) = n
  BY <1>1, <1>2
<1> QED BY <1>2, <1>4, <1>5 DEF n

\* What a page holds of a list without repetitions.
LEMMA PageHolds ==
  ASSUME NEW S, NEW list \in Seq(S), NEW k \in 1..Len(list), NEW size \in Nat \ {0}, NEW n \in Nat \ {0},
         \A i, j \in 1..Len(list) : i # j => list[i] # list[j]
  PROVE  Contains(Page(list, n, size), list[k]) <=> (n - 1) * size < k /\ k <= n * size
<1> DEFINE low == (n - 1) * size
           high == n * size
           last == IF high > Len(list) THEN Len(list) ELSE high
<1>1. low \in Nat /\ high \in Nat /\ high = low + size /\ Len(list) \in Nat
  OBVIOUS
<1> HIDE DEF low, high
<1>2. CASE low > Len(list)
  <2>1. Page(list, n, size) = <<>>
    BY <1>2 DEF Page, low
  <2>2. ~Contains(Page(list, n, size), list[k])
    BY <2>1 DEF Contains
  <2> QED BY <1>1, <1>2, <2>2 DEF low, high
<1>3. CASE ~(low > Len(list))
  <2>1. Page(list, n, size) = SubSeq(list, low + 1, last)
    BY <1>3 DEF Page, low, high
  <2>2. last \in Nat /\ low <= last /\ last <= Len(list)
    BY <1>1, <1>3
  <2>3. \A i \in (low + 1)..last : i \in 1..Len(list)
    BY <1>1, <2>2
  <2> HIDE DEF last
  <2>4. /\ Len(SubSeq(list, low + 1, last)) = last - low
        /\ \A i \in 1..(last - low) : SubSeq(list, low + 1, last)[i] = list[low + i]
    BY <1>1, <2>2, <2>3
  <2>5. Contains(Page(list, n, size), list[k]) <=> \E i \in 1..(last - low) : list[low + i] = list[k]
    BY <2>1, <2>4 DEF Contains
  <2>6. (\E i \in 1..(last - low) : list[low + i] = list[k]) <=> low < k /\ k <= last
    <3>1. ASSUME NEW i \in 1..(last - low), list[low + i] = list[k] PROVE low < k /\ k <= last
      <4>1. low + i \in 1..Len(list)
        BY <1>1, <2>2
      <4>2. low + i = k
        BY <3>1, <4>1
      <4> QED BY <4>2, <1>1, <2>2
    <3>2. ASSUME low < k, k <= last PROVE \E i \in 1..(last - low) : list[low + i] = list[k]
      <4>1. k - low \in 1..(last - low) /\ low + (k - low) = k
        BY <1>1, <2>2, <3>2
      <4> QED BY <4>1
    <3> QED BY <3>1, <3>2
  <2>7. k <= last <=> k <= high
    BY <1>1 DEF last
  <2> QED BY <2>5, <2>6, <2>7 DEF low, high
<1> QED BY <1>2, <1>3

\* Products grow with their first factor.
LEMMA ProductGrows ==
  ASSUME NEW a \in Nat, NEW b \in Nat, a <= b, NEW size \in Nat
  PROVE  a * size <= b * size
<1>1. (b - a) \in Nat /\ b = a + (b - a)
  OBVIOUS
<1>2. \A d \in Nat : (a + d) * size = a * size + d * size
  OBVIOUS
<1>3. \A d \in Nat : d * size \in Nat
  OBVIOUS
<1>4. a * size \in Nat
  OBVIOUS
<1>5. b * size = a * size + (b - a) * size
  BY <1>1, <1>2
<1>6. (b - a) * size \in Nat
  BY <1>1, <1>3
<1>7. \A x, y, z \in Nat : z = x + y => x <= z
  OBVIOUS
<1> QED BY <1>1, <1>3, <1>4, <1>5, <1>6, <1>7

\* Everything that is listed is on one page, whatever the size of the pages.
LEMMA OnOnePage ==
  ASSUME NEW S \in SUBSET Clusters, NEW list \in SetToSeqs(S), NEW c \in S, NEW size \in Nat \ {0}
  PROVE  \E num \in 1..Cardinality(Clusters) : OnPageOnly(list, size, c, num)
<1> DEFINE most == Cardinality(Clusters)
<1>f. IsFiniteSet(S) /\ Cardinality(S) <= most /\ Cardinality(S) \in Nat /\ most \in Nat
  BY ClustersAssumption, FS_Subset, FS_CardinalityType
<1> HIDE DEF most
<1>l. /\ list \in Seq(S) /\ Len(list) = Cardinality(S)
      /\ \A i, j \in 1..Len(list) : i # j => list[i] # list[j]
      /\ \A x \in S : \E i \in 1..Len(list) : list[i] = x
  BY <1>f, EachHasAPlace
<1>k. PICK k \in 1..Len(list) : list[k] = c
  BY <1>l
<1> DEFINE enough == {n \in Nat : k <= n * size}
<1>0. k \in Nat \ {0} /\ k <= most
  BY <1>f, <1>l, <1>k
<1>1. k \in enough
  <2>1. 1 * k <= size * k
    BY <1>0, ProductGrows
  <2> QED BY <1>0, <2>1
<1>2. PICK num \in enough : \A n \in enough : num <= n
  <2> HIDE DEF enough
  <2>1. enough \in SUBSET Nat
    BY DEF enough
  <2> QED BY <1>1, <2>1, LeastNumber
<1>3. num \in 1..most
  <2>1. num # 0
    <3>1. 0 * size = 0
      OBVIOUS
    <3> QED BY <1>0, <1>2, <3>1
  <2>2. num <= k
    BY <1>1, <1>2
  <2> QED BY <1>f, <1>0, <1>2, <2>1, <2>2
<1>4. ASSUME NEW n \in 1..most PROVE ((n - 1) * size < k /\ k <= n * size) <=> n = num
  <2>0. n \in Nat /\ n - 1 \in Nat /\ num \in Nat /\ num - 1 \in Nat
    BY <1>3
  <2>1. \A m \in Nat : m < num => m * size < k
    <3> TAKE m \in Nat
    <3> HAVE m < num
    <3>1. m \notin enough
      BY <1>2, <2>0
    <3>2. m * size \in Nat
      OBVIOUS
    <3> QED BY <1>0, <3>1, <3>2
  <2>2. \A m \in Nat : m >= num => m * size >= k
    <3> TAKE m \in Nat
    <3> HAVE m >= num
    <3>1. num * size <= m * size
      BY <2>0, ProductGrows
    <3>2. k <= num * size
      BY <1>2
    <3>3. num * size \in Nat /\ m * size \in Nat
      BY <2>0
    <3> QED BY <1>0, <3>1, <3>2, <3>3
  <2> DEFINE a == (n - 1) * size
             b == n * size
  <2>3. a \in Nat /\ b \in Nat
    BY <2>0
  <2>4. CASE n < num
    <3>1. b < k
      BY <2>0, <2>1, <2>4
    <3> HIDE DEF a, b
    <3> QED BY <1>0, <2>0, <2>3, <2>4, <3>1 DEF a, b
  <2>5. CASE n = num
    <3>1. a < k
      BY <2>0, <2>1, <2>5
    <3>2. k <= b
      BY <2>0, <2>2, <2>5
    <3> QED BY <2>5, <3>1, <3>2
  <2>6. CASE n > num
    <3>1. n - 1 >= num
      BY <2>0, <2>6
    <3>2. a >= k
      BY <2>0, <2>2, <3>1
    <3> HIDE DEF a, b
    <3> QED BY <1>0, <2>0, <2>3, <2>6, <3>2 DEF a, b
  <2> QED BY <2>0, <2>4, <2>5, <2>6
<1>5. \A n \in 1..most : Contains(Page(list, n, size), list[k]) <=> n = num
  <2> TAKE n \in 1..most
  <2>1. n \in Nat \ {0}
    OBVIOUS
  <2> HIDE DEF enough
  <2>2. Contains(Page(list, n, size), list[k]) <=> (n - 1) * size < k /\ k <= n * size
    BY <1>l, <2>1, PageHolds
  <2> QED BY <1>4, <2>2
<1> QED BY <1>3, <1>5, <1>k DEF OnPageOnly, most

\* What getSubNamespaces lists can be reached, in every state of the views.
LEMMA ListedCanBeReached ==
  ASSUME ViewInv PROVE ListedIsReachable
<1> SUFFICES ASSUME NEW s \in SubNamespaces
             PROVE  /\ RelationshipDetermine(s)
                    /\ s.cluster \in ClustersByTenant(s.tenant) \cap ClustersByProject(s.project)
                    /\ Reachable(s.cluster) /\ s.cluster \in DOMAIN clusters =>
                         \A p \in {Blank, s.project}, state \in {Blank, ShownState(s.cluster)},
                            size \in 1..Cardinality(Clusters) :
                           \A list \in ClusterInfos(ClusterList(p), state) :
                             \E num \in 1..Cardinality(Clusters) : OnPageOnly(list, size, s.cluster, num)
  BY DEF ListedIsReachable
<1>1. /\ s \in subs /\ s.cluster \in DOMAIN health /\ s.depth = 1
      /\ BelongsToTenant(s.tenant) \/ BelongsToProject(s.project)
  BY DEF SubNamespaces
<1>2. RelationshipDetermine(s)
  BY <1>1 DEF RelationshipDetermine, NamespaceJudgement
<1>3. s.cluster \in ClustersByTenant(s.tenant) \cap ClustersByProject(s.project)
  BY <1>1 DEF ClustersByTenant, ClustersByProject
<1>4. ASSUME Reachable(s.cluster), s.cluster \in DOMAIN clusters, NEW p \in {Blank, s.project},
             NEW state \in {Blank, ShownState(s.cluster)}, NEW size \in 1..Cardinality(Clusters),
             NEW list \in ClusterInfos(ClusterList(p), state)
      PROVE  \E num \in 1..Cardinality(Clusters) : OnPageOnly(list, size, s.cluster, num)
  <2> DEFINE S == {c \in ClusterList(p) : state \in {Blank, ShownState(c)}}
  <2>1. s.cluster \in DOMAIN clusters /\ DOMAIN clusters \subseteq Clusters
    BY <1>4 DEF ViewInv
  <2>2. s.cluster \in ClusterList(p) /\ ClusterList(p) \subseteq DOMAIN clusters
    BY <1>1, <1>4, <2>1 DEF ClusterList, FilterClustersByProject
  <2>3. s.cluster \in S /\ S \in SUBSET Clusters
    BY <2>1, <2>2, <1>4
  <2>4. list \in SetToSeqs(S)
    BY <1>4 DEF ClusterInfos
  <2>5. size \in Nat \ {0}
    BY <1>4, ClustersAssumption, FS_CardinalityType
  <2> HIDE DEF S
  <2> QED BY <2>3, <2>4, <2>5, OnOnePage
<1> QED BY <1>2, <1>3, <1>4

\* A visible project is found under its tenant, in every state of the views.
LEMMA ProjectsHaveTenants == ProjectsAreUnderTenants
<1> SUFFICES ASSUME status = Refreshed, VisibleTenants.ok, NEW p \in VisibleProjects, projects[p] \in tenants
             PROVE  /\ projects[p] \in VisibleTenants.all
                    /\ QuotaRows({}).ok => \A c \in DOMAIN health : <<projects[p], c>> \in QuotaRows({}).all
  BY DEF ProjectsAreUnderTenants
<1>1. projects[p] \in VisibleTenants.all
  <2>1. CASE status.admin \/ IsUserPlatformScope
    BY <2>1 DEF VisibleTenants
  <2>2. CASE ~(status.admin \/ IsUserPlatformScope) /\ BelongsToTenant(projects[p])
    BY <2>2 DEF VisibleTenants, BelongsToTenant
  <2>3. CASE ~(status.admin \/ IsUserPlatformScope) /\ BelongsToProject(p)
    <3>1. PICK i \in status.infos : i[1] = p
      BY <2>3 DEF BelongsToProject
    <3>2. p \in DOMAIN projects
      BY DEF VisibleProjects
    <3>3. i[2] = projects[p]
      <4>1. PICK q \in Projects : i = <<q, IF q \in DOMAIN projects THEN projects[q] ELSE NoTenant>>
        BY <3>1 DEF Refreshed
      <4> QED BY <3>1, <3>2, <4>1
    <3> QED BY <2>3, <3>1, <3>3 DEF VisibleTenants
  <2> QED BY <2>1, <2>2, <2>3 DEF VisibleProjects
<1>2. QuotaRows({}).all = VisibleTenants.all \X DOMAIN health
  BY DEF QuotaRows
<1> QED BY <1>1, <1>2

\* What one view of tenants, projects, namespaces and clusters shows the others lead
\* to: getProjectByUser, getTenantByUser and getCubeResourceQuota; getSubNamespaces,
\* the proxy's check of namespaces, and the pages of getClusterInfo.
THEOREM ViewsFit == ViewSpec => []ViewsAgree
<1>1. ViewInit => ViewInv
  BY ClustersAssumption DEF ViewInit, ViewInv
<1>2. ViewInv /\ [ViewNext]_viewVars => ViewInv'
  <2> SUFFICES ASSUME ViewInv, [ViewNext]_viewVars PROVE ViewInv'
    OBVIOUS
  <2>1. CASE UNCHANGED viewVars
    BY <2>1 DEF ViewInv, viewVars
  <2>2. CASE UNCHANGED clusters
    BY <2>2 DEF ViewInv
  <2>3. ASSUME NEW c \in Clusters, RegisterCluster(c) PROVE ViewInv'
    <3>1. DOMAIN clusters' \subseteq DOMAIN clusters \cup {c}
      BY <2>3 DEF RegisterCluster
    <3> QED BY <3>1 DEF ViewInv
  <2>4. ASSUME NEW c \in Clusters, DropCluster(c) PROVE ViewInv'
    <3>1. DOMAIN clusters' \subseteq DOMAIN clusters
      BY <2>4 DEF DropCluster
    <3> QED BY <3>1 DEF ViewInv
  <2>5. ASSUME NEW c \in Clusters, NEW h \in {"up", "down"}, Turn(c, h) PROVE ViewInv'
    <3>1. DOMAIN clusters' = DOMAIN clusters
      BY <2>5 DEF Turn
    <3> QED BY <3>1 DEF ViewInv
  <2> QED
    BY <2>1, <2>2, <2>3, <2>4, <2>5 DEF ViewNext, ViewScope, RefreshStatus, DropProject, PutProject, DropTenant,
                                        PutSub, DropSub, Forget
<1>3. ViewInv => ViewsAgree
  BY ListedCanBeReached, ProjectsHaveTenants DEF ViewsAgree
<1> QED BY <1>1, <1>2, <1>3, PTL DEF ViewSpec

-----------------------------------------------------------------------------
(* The chain.  A goroutine reads the context of the request it reports when  *)
(* another request may have it.  As a request arrives once, a context that   *)
(* was handed on never looks again as the first request left it: while it    *)
(* does look so, nobody has had it, and the goroutine finds its own request. *)

Fields == {"req", "status", "name", "at"}

ChainTypes ==
  /\ DOMAIN ctx = Contexts /\ DOMAIN phase = Contexts
  /\ \A c \in Contexts : DOMAIN ctx[c] = Fields
  /\ \A j \in senders : DOMAIN j = {"kind", "ctx", "own", "read"}
  /\ \A d \in done : d.ctx \in Contexts

\* A request arrives once: none that runs or has been answered will arrive, no two
\* contexts run the same one, and none that was answered runs.
OnceInv ==
  /\ \A c \in Contexts : phase[c] # "idle" => ctx[c].req \notin left
  /\ \A b, c \in Contexts : phase[b] # "idle" /\ phase[c] # "idle" /\ b # c => ctx[b].req # ctx[c].req
  /\ \A d \in done : /\ d.was.req \notin left
                     /\ \A c \in Contexts : phase[c] # "idle" => ctx[c].req # d.was.req

\* Among the goroutines ss there is one that reports the answered request d: it has
\* yet to read the context, or has read what d left there.
Awaited(d, ss) ==
  \E j \in ss : /\ j.own = d.was.req /\ j.ctx = d.ctx
                /\ j.kind = "handle" \/ (j.kind = "read" /\ j.read = d.was)

EventOf(d) == [own |-> d.was.req, url |-> d.was.req, user |-> d.was.req.user,
               status |-> d.was.status, name |-> EventName(d.was)]

WriteReported(d, cs, ss, es) ==
  cs[d.ctx] = d.was /\ EventName(d.was) # "" => Awaited(d, ss) \/ EventOf(d) \in es

\* A goroutine of ss, or an event of es, is about the object o that was created.
ObjectReported(o, ss, es) ==
  \/ \E j \in ss : /\ j.kind = "deployed" /\ j.own = o.req
                   /\ j.read.req = o.req /\ j.read.name = o.obj
  \/ \E e \in es : e.url = o.req /\ e.name = o.obj

ReportInv ==
  /\ \A d \in done : WriteReported(d, ctx, senders, sent)
  /\ \A o \in created : ObjectReported(o, senders, sent)

ChainInv == ChainTypes /\ OnceInv /\ ReportInv

\* A goroutine that is there stays, and so does an event: what is reported stays reported.
LEMMA ReportsGrow ==
  ASSUME NEW ss, NEW tt, NEW es, NEW fs, ss \subseteq tt, es \subseteq fs
  PROVE  /\ \A d : Awaited(d, ss) => Awaited(d, tt)
         /\ \A o : ObjectReported(o, ss, es) => ObjectReported(o, tt, fs)
  BY DEF Awaited, ObjectReported

\* No context is touched but c.
OnlyTurns(c) ==
  /\ DOMAIN ctx' = Contexts /\ DOMAIN ctx'[c] = Fields /\ DOMAIN phase' = Contexts
  /\ \A b \in Contexts \ {c} : ctx'[b] = ctx[b] /\ phase'[b] = phase[b]

\* The context of a request turns: the request arrives, goes on, or is answered, and
\* then its report is under way.
LEMMA ContextTurns ==
  ASSUME ChainInv, NEW c \in Contexts, OnlyTurns(c),
         left' \subseteq left, ctx'[c].req \notin left',
         \A d \in done : d.was.req # ctx'[c].req,
         \A b \in Contexts : b # c /\ phase[b] # "idle" => ctx[b].req # ctx'[c].req,
         senders \subseteq senders', sent' = sent,
         \A j \in senders' : DOMAIN j = {"kind", "ctx", "own", "read"},
         \A d \in done' : d \in done \/ /\ d = [ctx |-> c, was |-> ctx'[c]] /\ phase'[c] = "idle"
                                        /\ EventName(ctx'[c]) # "" => Awaited(d, senders'),
         \A o \in created' : ObjectReported(o, senders', sent')
  PROVE  ChainInv'
<1>1. /\ DOMAIN ctx' = Contexts /\ DOMAIN phase' = Contexts
      /\ \A b \in Contexts : DOMAIN ctx'[b] = Fields
      /\ \A b \in Contexts : b # c => ctx'[b] = ctx[b] /\ phase'[b] = phase[b]
  BY DEF OnlyTurns, ChainInv, ChainTypes
<1>2. ASSUME NEW d \in done'
      PROVE  d.ctx \in Contexts
  <2>1. CASE d \in done
    BY <2>1 DEF ChainInv, ChainTypes
  <2>2. CASE d = [ctx |-> c, was |-> ctx'[c]]
    BY <2>2
  <2>. QED
    BY <2>1, <2>2
<1>3. ChainTypes'
  BY <1>1, <1>2 DEF ChainTypes
<1>4. \A b \in Contexts : phase'[b] # "idle" => ctx'[b].req \notin left'
  BY <1>1 DEF ChainInv, OnceInv
<1>5. ASSUME NEW a \in Contexts, NEW b \in Contexts, phase'[a] # "idle", phase'[b] # "idle", a # b
      PROVE  ctx'[a].req # ctx'[b].req
  <2>1. CASE a # c /\ b # c
    <3>1. phase[a] # "idle" /\ phase[b] # "idle" /\ ctx'[a] = ctx[a] /\ ctx'[b] = ctx[b]
      BY <1>1, <1>5, <2>1
    <3>. QED
      BY <1>5, <3>1 DEF ChainInv, OnceInv
  <2>2. CASE a = c
    BY <1>1, <1>5, <2>2
  <2>3. CASE b = c
    BY <1>1, <1>5, <2>3
  <2>. QED
    BY <2>1, <2>2, <2>3
<1>6. ASSUME NEW d \in done'
      PROVE  /\ d.was.req \notin left'
             /\ \A b \in Contexts : phase'[b] # "idle" => ctx'[b].req # d.was.req
             /\ WriteReported(d, ctx', senders', sent')
  <2>1. CASE d \in done
    <3>1. ctx'[d.ctx] = d.was => ctx[d.ctx] = d.was
      BY <1>1, <1>2, <2>1
    <3>2. WriteReported(d, ctx, senders, sent)
      BY <2>1 DEF ChainInv, ReportInv
    <3>3. Awaited(d, senders) => Awaited(d, senders')
      BY ReportsGrow
    <3>. QED
      BY <1>1, <2>1, <3>1, <3>2, <3>3 DEF ChainInv, OnceInv, WriteReported
  <2>2. CASE d \notin done
    <3>1. /\ d = [ctx |-> c, was |-> ctx'[c]] /\ phase'[c] = "idle"
          /\ EventName(ctx'[c]) # "" => Awaited(d, senders')
      BY <2>2
    <3>2. d.was = ctx'[c]
      BY <3>1
    <3>. QED
      BY <1>1, <3>1, <3>2 DEF WriteReported
  <2>. QED
    BY <2>1, <2>2
<1>. QED
  BY <1>3, <1>4, <1>5, <1>6 DEF ChainInv, OnceInv, ReportInv

\* A request that runs is the only one of its kind, and has not been answered.
LEMMA RunsAlone ==
  ASSUME ChainInv, NEW c \in Contexts, phase[c] # "idle"
  PROVE  /\ ctx[c].req \notin left
         /\ \A d \in done : d.was.req # ctx[c].req
         /\ \A b \in Contexts : b # c /\ phase[b] # "idle" => ctx[b].req # ctx[c].req
  BY DEF ChainInv, ChainTypes, OnceInv

\* A request arrives on a context of the pool.
LEMMA ArriveKeeps ==
  ASSUME ChainInv, NEW r \in Calls, NEW c \in Contexts, Arrive(r, c)
  PROVE  ChainInv'
<1>1. /\ r \in left /\ left' = left \ {r} /\ senders' = senders /\ sent' = sent
      /\ done' = done /\ created' = created
      /\ ctx' = [ctx EXCEPT ![c] = [req |-> r, status |-> 200, name |-> "", at |-> 0]]
      /\ phase' = [phase EXCEPT ![c] = "chain"]
  BY DEF Arrive
<1>2. ctx'[c].req = r /\ OnlyTurns(c)
  BY <1>1 DEF OnlyTurns, ChainInv, ChainTypes, Fields
<1>3. \A d \in done : d.was.req # ctx'[c].req
  BY <1>1, <1>2 DEF ChainInv, OnceInv
<1>4. \A b \in Contexts : phase[b] # "idle" => ctx[b].req # ctx'[c].req
  BY <1>1, <1>2 DEF ChainInv, OnceInv
<1>5. /\ \A j \in senders' : DOMAIN j = {"kind", "ctx", "own", "read"}
      /\ \A o \in created' : ObjectReported(o, senders', sent')
  BY <1>1 DEF ChainInv, ChainTypes, ReportInv
<1>6. /\ left' \subseteq left /\ r \notin left' /\ senders \subseteq senders'
      /\ sent' = sent /\ \A d \in done' : d \in done
  BY DEF Arrive
<1>. QED
  BY <1>2, <1>3, <1>4, <1>5, <1>6, ContextTurns

\* A running request goes on; when it is answered its report is under way.
LEMMA RunKeeps ==
  ASSUME ChainInv, NEW c \in Contexts, phase[c] # "idle",
         OnlyTurns(c), ctx'[c].req = ctx[c].req, left' = left, sent' = sent,
         senders \subseteq senders',
         \A j \in senders' \ senders : DOMAIN j = {"kind", "ctx", "own", "read"},
         \A d \in done' : d \in done \/ /\ d = [ctx |-> c, was |-> ctx'[c]] /\ phase'[c] = "idle"
                                        /\ EventName(ctx'[c]) # "" => Awaited(d, senders'),
         \A o \in created' \ created : ObjectReported(o, senders', sent')
  PROVE  ChainInv'
<1>1. \A j \in senders' : DOMAIN j = {"kind", "ctx", "own", "read"}
  BY DEF ChainInv, ChainTypes
<1>2. ASSUME NEW o \in created'
      PROVE  ObjectReported(o, senders', sent')
  <2>1. CASE o \in created
    <3>1. ObjectReported(o, senders, sent)
      BY <2>1 DEF ChainInv, ReportInv
    <3>. QED
      BY <3>1, ReportsGrow
  <2>. QED
    BY <2>1
<1>3. /\ ctx'[c].req \notin left' /\ \A d \in done : d.was.req # ctx'[c].req
      /\ \A b \in Contexts : b # c /\ phase[b] # "idle" => ctx[b].req # ctx'[c].req
  BY RunsAlone
<1>. QED
  BY <1>1, <1>2, <1>3, ContextTurns

\* The middlewares refuse a request or let it pass.
LEMMA ChainKeeps ==
  ASSUME ChainInv, NEW c \in Contexts, Chain(c)
  PROVE  ChainInv'
<1>1. /\ phase[c] # "idle" /\ DOMAIN ctx = Contexts /\ DOMAIN ctx[c] = Fields /\ DOMAIN phase = Contexts
      /\ left' = left /\ senders' = senders /\ sent' = sent /\ done' = done /\ created' = created
  BY DEF Chain, ChainInv, ChainTypes
<1>2. CASE \E code : /\ ctx' = [ctx EXCEPT ![c].status = code]
                     /\ phase' = [phase EXCEPT ![c] = "idle"]
  <2>1. OnlyTurns(c) /\ ctx'[c].req = ctx[c].req
    BY <1>1, <1>2 DEF OnlyTurns, Fields
  <2>. QED
    BY <1>1, <2>1, RunKeeps
<1>3. CASE phase' = [phase EXCEPT ![c] = "handler"] /\ UNCHANGED ctx
  <2>1. OnlyTurns(c) /\ ctx'[c].req = ctx[c].req
    BY <1>1, <1>3 DEF OnlyTurns
  <2>. QED
    BY <1>1, <2>1, RunKeeps
<1>. QED
  BY <1>2, <1>3 DEF Chain

\* Audit sees every write that a handler has answered, whatever the answer was.
LEMMA ReturnedKeeps ==
  ASSUME ChainInv, NEW c \in Contexts, phase[c] # "idle",
         NEW code, NEW name, Returned(c, code, name),
         left' = left, sent' = sent, created' = created
  PROVE  ChainInv'
<1>. DEFINE r == ctx[c].req
            j == [kind |-> "handle", ctx |-> c, own |-> r, read |-> Nobody]
            d == [ctx |-> c, was |-> ctx'[c]]
<1>1. /\ ctx' = [ctx EXCEPT ![c].status = code, ![c].name = name]
      /\ phase' = [phase EXCEPT ![c] = "idle"]
      /\ DOMAIN ctx = Contexts /\ DOMAIN ctx[c] = Fields /\ DOMAIN phase = Contexts
  BY DEF Returned, ChainInv, ChainTypes
<1>2. OnlyTurns(c) /\ ctx'[c].req = r /\ phase'[c] = "idle"
  BY <1>1 DEF OnlyTurns, Fields
<1>3. senders' = senders \/ senders' = senders \cup {j}
  BY DEF Returned
<1>4. DOMAIN j = {"kind", "ctx", "own", "read"}
  OBVIOUS
<1>5. done' = done \/ (done' = done \cup {d} /\ j \in senders')
  BY DEF Returned, Audit, WithinWhiteList
<1>6. j \in senders' => Awaited(d, senders')
  BY <1>2 DEF Awaited
<1>7. \A e \in done' : e \in done \/ (e = d /\ Awaited(d, senders'))
  BY <1>5, <1>6
<1>8. senders \subseteq senders' /\ \A i \in senders' \ senders : DOMAIN i = {"kind", "ctx", "own", "read"}
  BY <1>3, <1>4
<1>. HIDE DEF j
<1>. QED
  BY <1>2, <1>7, <1>8, RunKeeps

\* Handlers, of the cube API and of the proxy, answer.
LEMMA ServeKeeps ==
  ASSUME ChainInv, NEW c \in Contexts, Serve(c) \/ ServeProxy(c) \/ EndDeploy(c)
  PROVE  ChainInv'
<1>1. phase[c] # "idle" /\ left' = left /\ sent' = sent /\ created' = created
  BY DEF Serve, ServeProxy, EndDeploy
<1>2. CASE Serve(c)
  <2>1. PICK code, name : Returned(c, code, name)
    BY <1>2, Zenon DEF Serve
  <2>. QED
    BY <1>1, <2>1, ReturnedKeeps
<1>3. CASE ServeProxy(c)
  <2>1. PICK code : Returned(c, code, "")
    BY <1>3, Zenon DEF ServeProxy
  <2>. QED
    BY <1>1, <2>1, ReturnedKeeps
<1>4. CASE EndDeploy(c)
  <2>1. Returned(c, ctx[c].status, "")
    BY <1>4 DEF EndDeploy
  <2>. QED
    BY <1>1, <2>1, ReturnedKeeps
<1>. QED
  BY <1>2, <1>3, <1>4

\* A deployment begins, or finds no cluster.
LEMMA StartDeployKeeps ==
  ASSUME ChainInv, NEW c \in Contexts, StartDeploy(c)
  PROVE  ChainInv'
<1>1. phase[c] # "idle" /\ left' = left /\ sent' = sent /\ created' = created
  BY DEF StartDeploy
<1>2. CASE Returned(c, 404, "")
  BY <1>1, <1>2, ReturnedKeeps
<1>3. CASE phase' = [phase EXCEPT ![c] = "deploy"] /\ UNCHANGED <<ctx, senders, done>>
  <2>1. OnlyTurns(c) /\ ctx'[c].req = ctx[c].req
    BY <1>3 DEF OnlyTurns, ChainInv, ChainTypes
  <2>2. senders \subseteq senders' /\ senders' \ senders = {} /\ done' = done /\ created' \ created = {}
    BY <1>1, <1>3
  <2>. QED
    BY <1>1, <2>1, <2>2, RunKeeps
<1>. QED
  BY <1>2, <1>3 DEF StartDeploy

\* An object is created and its goroutine started, or it fails.
LEMMA CreateKeeps ==
  ASSUME ChainInv, NEW c \in Contexts, CreateResource(c)
  PROVE  ChainInv'
<1>. DEFINE r == ctx[c].req
            o == r.objs[ctx[c].at + 1]
            j == [kind |-> "deployed", ctx |-> c, own |-> r, read |-> [ctx[c] EXCEPT !.status = 200, !.name = o]]
<1>1. /\ phase[c] # "idle" /\ left' = left /\ sent' = sent /\ done' = done /\ phase' = phase
      /\ DOMAIN ctx = Contexts /\ DOMAIN ctx[c] = Fields /\ DOMAIN phase = Contexts
  BY DEF CreateResource, ChainInv, ChainTypes
<1>2. CASE /\ ctx' = [ctx EXCEPT ![c].at = @ + 1] /\ senders' = senders \cup {j}
           /\ created' = created \/ created' = created \cup {[req |-> r, obj |-> o]}
  <2>1. OnlyTurns(c) /\ ctx'[c].req = ctx[c].req
    BY <1>1, <1>2 DEF OnlyTurns, Fields
  <2>2. /\ j.kind = "deployed" /\ j.own = r /\ j.read.req = r /\ j.read.name = o
        /\ DOMAIN j = {"kind", "ctx", "own", "read"}
    BY <1>1 DEF Fields
  <2>3. \A i \in senders' \ senders : DOMAIN i = {"kind", "ctx", "own", "read"}
    BY <1>2, <2>2
  <2>4. ASSUME NEW p \in created' \ created
        PROVE  ObjectReported(p, senders', sent')
    <3>1. p.req = r /\ p.obj = o
      BY <1>2
    <3>. QED
      BY <1>2, <2>2, <3>1 DEF ObjectReported
  <2>5. senders \subseteq senders'
    BY <1>2
  <2>. QED
    BY <1>1, <2>1, <2>3, <2>4, <2>5, RunKeeps
<1>3. CASE ctx' = [ctx EXCEPT ![c].at = @ + 1, ![c].status = 400] /\ UNCHANGED <<senders, created>>
  <2>1. OnlyTurns(c) /\ ctx'[c].req = ctx[c].req
    BY <1>1, <1>3 DEF OnlyTurns, Fields
  <2>2. senders \subseteq senders' /\ senders' \ senders = {} /\ created' \ created = {}
    BY <1>3
  <2>. QED
    BY <1>1, <2>1, <2>2, RunKeeps
<1>. QED
  BY <1>2, <1>3 DEF CreateResource, SendDeployedAuditEvent

\* Goroutines leave requests alone; what they have to report is reported.
LEMMA GoroutineKeeps ==
  ASSUME ChainInv, UNCHANGED <<left, ctx, phase, done, created>>,
         \A j \in senders' : DOMAIN j = {"kind", "ctx", "own", "read"},
         \A d \in done : WriteReported(d, ctx, senders', sent'),
         \A o \in created : ObjectReported(o, senders', sent')
  PROVE  ChainInv'
  BY DEF ChainInv, ChainTypes, OnceInv, ReportInv

\* handle reads the context.
LEMMA HandleReadKeeps ==
  ASSUME ChainInv, NEW j \in senders, HandleRead(j)
  PROVE  ChainInv'
<1>. DEFINE k == [j EXCEPT !.kind = "read", !.read = ctx[j.ctx]]
<1>1. /\ j.kind = "handle" /\ senders' = (senders \ {j}) \cup {k} /\ sent' = sent
      /\ UNCHANGED <<left, ctx, phase, done, created>>
  BY DEF HandleRead
<1>2. /\ DOMAIN k = {"kind", "ctx", "own", "read"} /\ k.kind = "read" /\ k.read = ctx[j.ctx]
      /\ k.own = j.own /\ k.ctx = j.ctx
  BY DEF ChainInv, ChainTypes
<1>. HIDE DEF k
<1>3. \A i \in senders' : DOMAIN i = {"kind", "ctx", "own", "read"}
  BY <1>1, <1>2 DEF ChainInv, ChainTypes
<1>4. ASSUME NEW d \in done
      PROVE  WriteReported(d, ctx, senders', sent')
  <2>. SUFFICES ASSUME ctx[d.ctx] = d.was, Awaited(d, senders)
                PROVE  Awaited(d, senders')
    BY <1>1 DEF WriteReported, ChainInv, ReportInv
  <2>1. PICK i \in senders : /\ i.own = d.was.req /\ i.ctx = d.ctx
                             /\ i.kind = "handle" \/ (i.kind = "read" /\ i.read = d.was)
    BY DEF Awaited
  <2>2. CASE i = j
    BY <1>1, <1>2, <2>1, <2>2 DEF Awaited
  <2>3. CASE i # j
    BY <1>1, <2>1, <2>3 DEF Awaited
  <2>. QED
    BY <2>2, <2>3
<1>5. ASSUME NEW o \in created
      PROVE  ObjectReported(o, senders', sent')
  BY <1>1 DEF ObjectReported, ChainInv, ReportInv
<1>. QED
  BY <1>1, <1>3, <1>4, <1>5, GoroutineKeeps

\* handle names the event and sends it: the one of the request, if the context is
\* still as the request left it.
LEMMA HandleNameKeeps ==
  ASSUME ChainInv, NEW j \in senders, HandleName(j)
  PROVE  ChainInv'
<1>1. /\ j.kind = "read" /\ senders' = senders \ {j} /\ sent \subseteq sent'
      /\ UNCHANGED <<left, ctx, phase, done, created>>
  BY DEF HandleName, SendEvent
<1>2. \A i \in senders' : DOMAIN i = {"kind", "ctx", "own", "read"}
  BY <1>1 DEF ChainInv, ChainTypes
<1>3. ASSUME NEW d \in done
      PROVE  WriteReported(d, ctx, senders', sent')
  <2>. SUFFICES ASSUME ctx[d.ctx] = d.was, EventName(d.was) # "", Awaited(d, senders)
                PROVE  Awaited(d, senders') \/ EventOf(d) \in sent'
    BY <1>1 DEF WriteReported, ChainInv, ReportInv
  <2>1. PICK i \in senders : /\ i.own = d.was.req /\ i.ctx = d.ctx
                             /\ i.kind = "handle" \/ (i.kind = "read" /\ i.read = d.was)
    BY DEF Awaited
  <2>2. CASE i = j
    <3>1. j.read = d.was /\ j.own = d.was.req /\ ctx[j.ctx] = d.was
      BY <1>1, <2>1, <2>2
    <3>2. SendEvent(j, j.read, EventName(d.was))
      BY <3>1 DEF HandleName, EventName
    <3>. QED
      BY <3>1, <3>2 DEF SendEvent, EventOf, Parameters, UserIdentity
  <2>3. CASE i # j
    BY <1>1, <2>1, <2>3 DEF Awaited
  <2>. QED
    BY <2>2, <2>3
<1>4. ASSUME NEW o \in created
      PROVE  ObjectReported(o, senders', sent')
  BY <1>1 DEF ObjectReported, ChainInv, ReportInv
<1>. QED
  BY <1>1, <1>2, <1>3, <1>4, GoroutineKeeps

\* The goroutine of an object sends what it was started with.
LEMMA SendDeployedKeeps ==
  ASSUME ChainInv, NEW j \in senders, SendDeployed(j)
  PROVE  ChainInv'
<1>1. /\ j.kind = "deployed" /\ senders' = senders \ {j}
      /\ sent' = sent \cup {[own |-> j.own, url |-> j.read.req, user |-> ctx[j.ctx].req.user,
                             status |-> j.read.status, name |-> j.read.name]}
      /\ UNCHANGED <<left, ctx, phase, done, created>>
  BY DEF SendDeployed, SendEvent, Parameters, UserIdentity
<1>2. \A i \in senders' : DOMAIN i = {"kind", "ctx", "own", "read"}
  BY <1>1 DEF ChainInv, ChainTypes
<1>3. ASSUME NEW d \in done
      PROVE  WriteReported(d, ctx, senders', sent')
  BY <1>1 DEF WriteReported, Awaited, ChainInv, ReportInv
<1>4. ASSUME NEW o \in created
      PROVE  ObjectReported(o, senders', sent')
  <2>1. ObjectReported(o, senders, sent)
    BY DEF ChainInv, ReportInv
  <2>2. CASE j.read.req = o.req /\ j.read.name = o.obj
    <3>. DEFINE e == [own |-> j.own, url |-> j.read.req, user |-> ctx[j.ctx].req.user,
                      status |-> j.read.status, name |-> j.read.name]
    <3>1. e \in sent' /\ e.url = o.req /\ e.name = o.obj
      BY <1>1, <2>2
    <3>. HIDE DEF e
    <3>. QED
      BY <3>1 DEF ObjectReported
  <2>3. CASE ~(j.read.req = o.req /\ j.read.name = o.obj)
    BY <1>1, <2>1, <2>3 DEF ObjectReported
  <2>. QED
    BY <2>2, <2>3
<1>. QED
  BY <1>1, <1>2, <1>3, <1>4, GoroutineKeeps

\* A process that starts again has nothing to report.
LEMMA RestartKeeps ==
  ASSUME Restarted
  PROVE  ChainInv'
<1>1. DOMAIN Nobody = Fields
  BY DEF Nobody, Fields
<1>2. ChainTypes'
  BY <1>1 DEF Restarted, ChainTypes
<1>. QED
  BY <1>2 DEF Restarted, ChainInv, OnceInv, ReportInv

\* No step of the chain, of a goroutine or of the process breaks the invariant.
LEMMA ChainStep ==
  ASSUME ChainInv, [ChainNext]_chainVars
  PROVE  ChainInv'
<1>1. CASE \E r \in Calls, c \in Contexts : Arrive(r, c)
  BY <1>1, ArriveKeeps
<1>2. CASE \E c \in Contexts : Chain(c)
  BY <1>2, ChainKeeps
<1>3. CASE \E c \in Contexts : Serve(c) \/ ServeProxy(c) \/ EndDeploy(c)
  BY <1>3, ServeKeeps
<1>4. CASE \E c \in Contexts : StartDeploy(c)
  BY <1>4, StartDeployKeeps
<1>5. CASE \E c \in Contexts : CreateResource(c)
  BY <1>5, CreateKeeps
<1>6. CASE \E j \in senders : HandleRead(j)
  BY <1>6, HandleReadKeeps
<1>7. CASE \E j \in senders : HandleName(j)
  BY <1>7, HandleNameKeeps
<1>8. CASE \E j \in senders : SendDeployed(j)
  BY <1>8, SendDeployedKeeps
<1>9. CASE Restarted
  BY <1>9, RestartKeeps
<1>10. CASE (\E c \in DOMAIN reach : ChangeHealth(c)) \/ UNCHANGED chainVars
  <2>1. UNCHANGED <<left, ctx, phase, senders, sent, done, created>>
    BY <1>10 DEF ChangeHealth, chainVars
  <2>. QED
    BY <2>1 DEF ChainInv, ChainTypes, OnceInv, ReportInv
<1>. QED
  BY <1>1, <1>2, <1>3, <1>4, <1>5, <1>6, <1>7, <1>8, <1>9, <1>10
  DEF ChainNext, HandlePanics, Shutdown

\* Every write that a handler answered, well or badly, and every object that was
\* created is reported or about to be, for any requests on any contexts, as long as
\* the context was not handed on (Audit, handle, Deploy).
THEOREM WritesAreReported == ChainSpec => []HandledIsReported
<1>1. ASSUME ChainInit
      PROVE  ChainInv
  <2>1. DOMAIN Nobody = Fields
    BY DEF Nobody, Fields
  <2>. QED
    BY <1>1, <2>1 DEF ChainInit, ChainInv, ChainTypes, OnceInv, ReportInv
<1>2. ASSUME ChainInv
      PROVE  HandledIsReported
  <2>1. ASSUME NEW d \in done, ctx[d.ctx] = d.was, EventName(d.was) # ""
        PROVE  (\E j \in senders : j.own = d.was.req /\ j.ctx = d.ctx) \/ EventOf(d) \in sent
    BY <1>2, <2>1 DEF ChainInv, ReportInv, WriteReported, Awaited
  <2>2. ASSUME NEW o \in created
        PROVE  \/ \E j \in senders : j.own = o.req /\ j.read.name = o.obj
               \/ \E e \in sent : e.url = o.req /\ e.name = o.obj
    BY <1>2 DEF ChainInv, ReportInv, ObjectReported
  <2>. QED
    BY <2>1, <2>2 DEF HandledIsReported, EventOf
<1>. QED
  BY <1>1, <1>2, ChainStep, PTL DEF ChainSpec

-----------------------------------------------------------------------------
(* Sessions, for any number of users, clients and writes, on a cache that is *)
(* late by any number of writes.  Requests decide on what they read in the   *)
(* cache; the only thing that is compared when they write is the version.    *)
(* Hence the invariant: whoever holds the version that is stored holds the   *)
(* content that is stored, but for the change it is about to make.           *)

Stored == [state : {"normal", "forbidden", "unset"},
           pwd : {"hashed", "plain"} \X (Passwords \cup {None}), ver : Nat]

\* A table of users, as it is stored or as the cache shows it, after w writes.
Table(us, w) ==
  /\ us \in [Accounts -> Stored \cup {None}]
  /\ \A a \in Accounts : us[a] # None => us[a].ver <= w

\* The cache shows what is stored when it shows the version that is stored.
SeenAgrees ==
  \A a \in Accounts :
    users[a] # None /\ seen[a] # None /\ seen[a].ver = users[a].ver => seen[a] = users[a]

\* What the request r would store is what is stored, with the one change that was
\* asked for; who may log in was not forbidden.
Faithful(r, u) ==
  /\ r.op = "state" => r.obj.pwd = u.pwd /\ r.obj.state = r.arg
  /\ r.op = "pwd" => r.obj.state = u.state /\ r.obj.pwd = Hash(r.arg)
  /\ r.op = "record" => u.state # "forbidden"

\* A request that will write has something to write, and is faithful if it is in time.
InTime(r, us, w) ==
  /\ r.op \in {"none", "create", "state", "pwd", "record"}
  /\ r.op # "none" => r.acc \in Accounts
  /\ r.op \in {"state", "pwd", "record"} =>
       /\ r.obj \in Stored /\ r.obj.ver <= w
       /\ us[r.acc] # None /\ us[r.acc].ver = r.obj.ver => Faithful(r, us[r.acc])

IInv ==
  /\ writes \in Nat /\ Table(users, writes) /\ Table(seen, writes) /\ SeenAgrees
  /\ DOMAIN req = Clients /\ DOMAIN session = Clients
  /\ \A c \in Clients : InTime(req[c], users, writes)

\* What is stored anew has a version that nobody holds.
LEMMA WriteStores ==
  ASSUME IInv, NEW a \in Accounts, NEW u \in Stored, Write(a, u)
  PROVE  /\ writes' = writes + 1 /\ writes' \in Nat
         /\ users'[a] \in Stored /\ users'[a].ver = writes + 1
         /\ users'[a].state = u.state /\ users'[a].pwd = u.pwd
         /\ \A b \in Accounts : b # a => users'[b] = users[b]
         /\ Table(users', writes')
<1>1. /\ users' = [users EXCEPT ![a] = [u EXCEPT !.ver = writes + 1]]
      /\ writes' = writes + 1 /\ writes \in Nat
      /\ users \in [Accounts -> Stored \cup {None}]
  BY DEF Write, IInv, Table
<1>2. /\ [u EXCEPT !.ver = writes + 1] \in Stored
      /\ [u EXCEPT !.ver = writes + 1].ver = writes + 1
      /\ [u EXCEPT !.ver = writes + 1].state = u.state
      /\ [u EXCEPT !.ver = writes + 1].pwd = u.pwd
  BY <1>1 DEF Stored
<1>3. users'[a] = [u EXCEPT !.ver = writes + 1] /\ \A b \in Accounts : b # a => users'[b] = users[b]
  BY <1>1
<1>4. users' \in [Accounts -> Stored \cup {None}]
  BY <1>1, <1>2
<1>5. ASSUME NEW b \in Accounts, users'[b] # None
      PROVE  users'[b].ver <= writes'
  <2>1. CASE b = a
    BY <1>1, <1>2, <1>3, <2>1
  <2>2. CASE b # a
    <3>1. users'[b] = users[b] /\ users[b].ver <= writes /\ users[b] \in Stored
      BY <1>1, <1>3, <1>5, <2>2 DEF IInv, Table
    <3>. QED
      BY <1>1, <3>1 DEF Stored
  <2>. QED
    BY <2>1, <2>2
<1>. QED
  BY <1>1, <1>2, <1>3, <1>4, <1>5 DEF Table

\* A write leaves the cache behind.
LEMMA WriteLeavesCache ==
  ASSUME IInv, NEW a \in Accounts, NEW u \in Stored, Write(a, u), seen' = seen
  PROVE  SeenAgrees' /\ Table(seen', writes')
<1>1. /\ users'[a].ver = writes + 1 /\ writes' = writes + 1 /\ writes \in Nat
      /\ \A b \in Accounts : b # a => users'[b] = users[b]
  BY WriteStores DEF IInv
<1>2. ASSUME NEW b \in Accounts, seen[b] # None
      PROVE  seen[b].ver <= writes /\ seen[b].ver \in Nat
  BY <1>2 DEF IInv, Table, Stored
<1>3. SeenAgrees'
  <2>. SUFFICES ASSUME NEW b \in Accounts, users'[b] # None, seen[b] # None, seen[b].ver = users'[b].ver
                PROVE  seen[b] = users'[b]
    BY DEF SeenAgrees
  <2>1. b # a
    BY <1>1, <1>2
  <2>. QED
    BY <1>1, <2>1 DEF IInv, SeenAgrees
<1>. QED
  BY <1>1, <1>2, <1>3 DEF IInv, Table

\* A write leaves behind everyone who has read, too.
LEMMA WriteLeavesRequests ==
  ASSUME IInv, NEW a \in Accounts, NEW u \in Stored, Write(a, u),
         NEW c \in Clients
  PROVE  InTime(req[c], users', writes')
<1>1. /\ users'[a].ver = writes + 1 /\ writes' = writes + 1 /\ writes \in Nat
      /\ \A b \in Accounts : b # a => users'[b] = users[b]
  BY WriteStores DEF IInv
<1>2. InTime(req[c], users, writes)
  BY DEF IInv
<1>3. CASE req[c].op \in {"state", "pwd", "record"}
  <2>1. req[c].acc \in Accounts /\ req[c].obj.ver \in Nat /\ req[c].obj.ver <= writes
    BY <1>2, <1>3 DEF InTime, Stored
  <2>2. req[c].acc = a => users'[req[c].acc].ver # req[c].obj.ver
    BY <1>1, <2>1
  <2>3. req[c].acc # a => users'[req[c].acc] = users[req[c].acc]
    BY <1>1, <2>1
  <2>4. req[c].obj.ver <= writes'
    BY <1>1, <2>1
  <2>. QED
    BY <1>2, <2>2, <2>3, <2>4 DEF InTime
<1>4. CASE req[c].op \notin {"state", "pwd", "record"}
  BY <1>2, <1>4 DEF InTime
<1>. QED
  BY <1>3, <1>4

\* A request goes on and nothing is stored.
LEMMA RequestMoves ==
  ASSUME IInv, UNCHANGED <<users, seen, writes>>, DOMAIN session' = Clients,
         NEW c \in Clients, NEW r, req' = [req EXCEPT ![c] = r], InTime(r, users, writes)
  PROVE  IInv'
<1>1. DOMAIN req' = Clients /\ \A d \in Clients : req'[d] = IF d = c THEN r ELSE req[d]
  BY DEF IInv
<1>2. \A d \in Clients : InTime(req'[d], users, writes)
  BY <1>1 DEF IInv
<1>. QED
  BY <1>1, <1>2 DEF IInv, SeenAgrees

\* A request goes on and something is stored.
LEMMA RequestStores ==
  ASSUME IInv, NEW a \in Accounts, NEW u \in Stored, Write(a, u), seen' = seen,
         DOMAIN session' = Clients,
         NEW c \in Clients, NEW r, req' = [req EXCEPT ![c] = r], InTime(r, users', writes')
  PROVE  IInv'
<1>1. DOMAIN req' = Clients /\ \A d \in Clients : req'[d] = IF d = c THEN r ELSE req[d]
  BY DEF IInv
<1>2. \A d \in Clients : InTime(req[d], users', writes')
  BY WriteLeavesRequests
<1>3. \A d \in Clients : InTime(req'[d], users', writes')
  BY <1>1, <1>2
<1>. QED
  BY <1>1, <1>3, WriteStores, WriteLeavesCache DEF IInv

-----------------------------------------------------------------------------
(* The actions.                                                              *)

\* The cache catches up with an account, or the account is removed.
LEMMA TablesMove ==
  ASSUME IInv, NEW a \in Accounts, Deliver(a) \/ Removed(a)
  PROVE  IInv'
<1>1. CASE Deliver(a)
  <2>1. seen' = [seen EXCEPT ![a] = users[a]] /\ UNCHANGED <<users, writes, req, session>>
    BY <1>1 DEF Deliver
  <2>2. Table(seen', writes)
    BY <2>1 DEF IInv, Table
  <2>3. SeenAgrees'
    BY <2>1 DEF IInv, Table, SeenAgrees
  <2>. QED
    BY <2>1, <2>2, <2>3 DEF IInv
<1>2. CASE Removed(a)
  <2>1. users' = [users EXCEPT ![a] = None] /\ UNCHANGED <<seen, writes, req, session>>
    BY <1>2 DEF Removed
  <2>2. /\ users' \in [Accounts -> Stored \cup {None}]
        /\ \A b \in Accounts : users'[b] # None => users'[b] = users[b]
    BY <2>1 DEF IInv, Table
  <2>3. Table(users', writes) /\ SeenAgrees'
    BY <2>1, <2>2 DEF IInv, Table, SeenAgrees
  <2>4. ASSUME NEW c \in Clients
        PROVE  InTime(req[c], users', writes)
    BY <2>2 DEF IInv, InTime
  <2>. QED
    BY <2>1, <2>3, <2>4 DEF IInv
<1>. QED
  BY <1>1, <1>2

\* A user is created or imported.
LEMMA CreationKeeps ==
  ASSUME IInv, NEW c \in Clients, NEW l \in Logins, NEW p \in Passwords, "normal" \in Types,
         CreateUser(c, l, p) \/ BatchCreateUser(c, l, p)
  PROVE  IInv'
<1>. DEFINE a == [type |-> "normal", login |-> l]
<1>1. a \in Accounts
  BY DEF Accounts
<1>2. PICK u \in Stored : Write(a, u) /\ UNCHANGED <<seen, req, session>>
  <2>1. /\ [state |-> "normal", pwd |-> Hash(p), ver |-> 0] \in Stored
        /\ [state |-> "unset", pwd |-> <<"plain", p>>, ver |-> 0] \in Stored
    BY DEF Stored, Hash
  <2>. QED
    BY <2>1 DEF CreateUser, BatchCreateUser
<1>3. \A d \in Clients : InTime(req[d], users', writes')
  BY <1>1, <1>2, WriteLeavesRequests
<1>4. SeenAgrees' /\ Table(seen', writes') /\ Table(users', writes') /\ writes' \in Nat
  BY <1>1, <1>2, WriteStores, WriteLeavesCache
<1>. QED
  BY <1>2, <1>3, <1>4 DEF IInv

\* A request reads the cache and decides on it.
LEMMA ReadingKeeps ==
  ASSUME IInv, NEW c \in Clients, NEW a \in Accounts, NEW op \in {"state", "pwd"}, NEW arg,
         seen[a] # None, UNCHANGED <<users, seen, writes, session>>,
         op = "state" => arg \in {"normal", "forbidden"}, op = "pwd" => arg \in Passwords,
         req' = [req EXCEPT ![c] = [op |-> op, acc |-> a, arg |-> arg,
                   obj |-> IF op = "state" THEN [seen[a] EXCEPT !.state = arg]
                                           ELSE [seen[a] EXCEPT !.pwd = Hash(arg)]]]
  PROVE  IInv'
<1>. DEFINE o == IF op = "state" THEN [seen[a] EXCEPT !.state = arg]
                                 ELSE [seen[a] EXCEPT !.pwd = Hash(arg)]
<1>. DEFINE r == [op |-> op, acc |-> a, arg |-> arg, obj |-> o]
<1>1. seen[a] \in Stored /\ seen[a].ver <= writes
  BY DEF IInv, Table
<1>2. /\ o \in Stored /\ o.ver = seen[a].ver
      /\ op = "state" => o.state = arg /\ o.pwd = seen[a].pwd
      /\ op = "pwd" => o.pwd = Hash(arg) /\ o.state = seen[a].state
  BY <1>1 DEF Stored, Hash
<1>3. users[a] # None /\ users[a].ver = o.ver => seen[a] = users[a]
  BY <1>2 DEF IInv, SeenAgrees
<1>4. r.op = op /\ r.acc = a /\ r.arg = arg /\ r.obj = o
  OBVIOUS
<1>5. InTime(r, users, writes)
  <2>. HIDE DEF o, r
  <2>. QED
    BY <1>1, <1>2, <1>3, <1>4 DEF InTime, Faithful
<1>6. req' = [req EXCEPT ![c] = r] /\ DOMAIN session' = Clients
  BY DEF IInv
<1>. HIDE DEF r
<1>. QED
  BY <1>5, <1>6, RequestMoves

\* A login is let pass.
LEMMA LoginKeeps ==
  ASSUME IInv, NEW c \in Clients, NEW a \in Accounts, NEW p \in Passwords, Login(c, a, p)
  PROVE  IInv'
<1>. DEFINE r == [op |-> IF seen[a] = None THEN "create" ELSE "record",
                  acc |-> a, obj |-> seen[a], arg |-> None]
<1>1. /\ req' = [req EXCEPT ![c] = r] /\ UNCHANGED <<users, seen, writes, session>>
      /\ seen[a] # None => seen[a].state # "forbidden"
  BY DEF Login, MayLogin, accounts
<1>2. seen[a] # None => seen[a] \in Stored /\ seen[a].ver <= writes
  BY DEF IInv, Table
<1>3. users[a] # None /\ seen[a] # None /\ users[a].ver = seen[a].ver => seen[a] = users[a]
  BY DEF IInv, SeenAgrees
<1>4. r.op = (IF seen[a] = None THEN "create" ELSE "record") /\ r.acc = a /\ r.obj = seen[a]
  OBVIOUS
<1>5. InTime(r, users, writes)
  <2>. HIDE DEF r
  <2>. QED
    BY <1>1, <1>2, <1>3, <1>4 DEF InTime, Faithful
<1>6. DOMAIN session' = Clients
  BY <1>1 DEF IInv
<1>. HIDE DEF r
<1>. QED
  BY <1>1, <1>5, <1>6, RequestMoves

\* A request that is over has nothing to write.
LEMMA IdleInTime ==
  ASSUME NEW us, NEW w
  PROVE  InTime(Idle, us, w)
  BY DEF InTime, Idle

\* An edit is written, or refused for its version.
LEMMA EditKeeps ==
  ASSUME IInv, NEW c \in Clients, UpdateUserSpec(c)
  PROVE  IInv'
<1>1. /\ req[c].op \in {"state", "pwd"} /\ req' = [req EXCEPT ![c] = Idle]
      /\ seen' = seen /\ session' = session
      /\ Write(req[c].acc, req[c].obj) \/ UNCHANGED <<users, writes>>
  BY DEF UpdateUserSpec
<1>2. req[c].acc \in Accounts /\ req[c].obj \in Stored /\ DOMAIN session' = Clients
  BY <1>1 DEF IInv, InTime
<1>3. InTime(Idle, users', writes') /\ InTime(Idle, users, writes)
  BY IdleInTime
<1>4. CASE Write(req[c].acc, req[c].obj)
  BY <1>1, <1>2, <1>3, <1>4, RequestStores
<1>5. CASE UNCHANGED <<users, writes>>
  BY <1>1, <1>2, <1>3, <1>5, RequestMoves
<1>. QED
  BY <1>1, <1>4, <1>5

\* A login is recorded and gets its token, or is refused for its version.
LEMMA RecordKeeps ==
  ASSUME IInv, NEW c \in Clients, RecordLogin(c)
  PROVE  IInv'
<1>1. /\ req[c].op = "record" /\ req' = [req EXCEPT ![c] = Idle] /\ seen' = seen
      /\ \/ Current(c) /\ Write(req[c].acc, users[req[c].acc])
            /\ session' = [session EXCEPT ![c] = Token(TokenName(req[c].acc))]
         \/ UNCHANGED <<users, writes, session>>
  BY DEF RecordLogin
<1>2. req[c].acc \in Accounts /\ DOMAIN session' = Clients
  BY <1>1 DEF IInv, InTime
<1>3. InTime(Idle, users', writes') /\ InTime(Idle, users, writes)
  BY IdleInTime
<1>4. CASE Current(c) /\ Write(req[c].acc, users[req[c].acc])
  <2>1. users[req[c].acc] \in Stored
    BY <1>2, <1>4 DEF Current, IInv, Table
  <2>. QED
    BY <1>1, <1>2, <1>3, <1>4, <2>1, RequestStores
<1>5. CASE UNCHANGED <<users, writes, session>>
  BY <1>1, <1>2, <1>3, <1>5, RequestMoves
<1>. QED
  BY <1>1, <1>4, <1>5

\* The user of a first login is created, and its login is recorded later.
LEMMA FirstLoginKeeps ==
  ASSUME IInv, NEW c \in Clients, FirstLogin(c)
  PROVE  IInv'
<1>. DEFINE a == req[c].acc
            u == [state |-> "unset", pwd |-> Unknown, ver |-> writes + 1]
            r == [op |-> "record", acc |-> a, obj |-> u, arg |-> None]
<1>1. /\ req[c].op = "create" /\ UNCHANGED <<seen, session>> /\ a \in Accounts
      /\ writes \in Nat /\ DOMAIN session' = Clients
  BY DEF FirstLogin, IInv, InTime
<1>2. \/ req' = [req EXCEPT ![c] = Idle] /\ UNCHANGED <<users, writes>>
      \/ Write(a, u) /\ req' = [req EXCEPT ![c] = r]
  BY DEF FirstLogin
<1>3. CASE req' = [req EXCEPT ![c] = Idle] /\ UNCHANGED <<users, writes>>
  BY <1>1, <1>3, IdleInTime, RequestMoves
<1>4. CASE Write(a, u) /\ req' = [req EXCEPT ![c] = r]
  <2>1. u \in Stored /\ u.state = "unset" /\ u.ver = writes + 1
    BY <1>1 DEF Stored, Unknown
  <2>2. r.op = "record" /\ r.acc = a /\ r.obj = u
    OBVIOUS
  <2>. HIDE DEF a, u, r
  <2>3. writes' = writes + 1 /\ users'[a].state = "unset"
    BY <1>1, <1>4, <2>1, WriteStores
  <2>4. Faithful(r, users'[a])
    BY <2>2, <2>3 DEF Faithful
  <2>5. InTime(r, users', writes')
    BY <1>1, <2>1, <2>2, <2>3, <2>4 DEF InTime
  <2>. QED
    BY <1>1, <1>4, <2>1, <2>5, RequestStores
<1>. QED
  BY <1>2, <1>3, <1>4

\* The middleware and the clock change no user and no request.
LEMMA AuthKeeps ==
  ASSUME IInv, UNCHANGED <<accounts, req>>, DOMAIN session' = Clients
  PROVE  IInv'
  BY DEF IInv, Table, SeenAgrees, accounts

\* Every step keeps the invariant.
LEMMA StepKeeps ==
  ASSUME IInv, [Next]_vars
  PROVE  IInv'
<1>1. CASE Tick
  BY <1>1, AuthKeeps DEF Tick, IInv
<1>2. ASSUME NEW a \in Accounts, Deliver(a) \/ Removed(a)
      PROVE  IInv'
  BY <1>2, TablesMove
<1>3. ASSUME NEW c \in Clients, Auth(c)
      PROVE  IInv'
  <2>1. DOMAIN session' = Clients /\ UNCHANGED <<accounts, req>>
    BY <1>3 DEF Auth, IInv
  <2>. QED
    BY <2>1, AuthKeeps
<1>4. ASSUME NEW c \in Clients, UpdateUserSpec(c) \/ FirstLogin(c) \/ RecordLogin(c)
      PROVE  IInv'
  BY <1>4, EditKeeps, FirstLoginKeeps, RecordKeeps
<1>5. ASSUME NEW c \in Clients, NEW l \in Logins, NEW p \in Passwords,
             CreateUser(c, l, p) \/ BatchCreateUser(c, l, p)
      PROVE  IInv'
  BY <1>5, CreationKeeps, LimitAssumption
<1>6. ASSUME NEW c \in Clients, NEW a \in Accounts, NEW p \in Passwords, Login(c, a, p)
      PROVE  IInv'
  BY <1>6, LoginKeeps
<1>7. ASSUME NEW c \in Clients, NEW a \in Accounts, NEW p \in Passwords, NEW q \in Passwords,
             UpdatePwd(c, a, p, q)
      PROVE  IInv'
  <2>1. /\ seen[a] # None /\ UNCHANGED <<users, seen, writes, session>>
        /\ req' = [req EXCEPT ![c] = [op |-> "pwd", acc |-> a, arg |-> q,
                     obj |-> IF "pwd" = "state" THEN [seen[a] EXCEPT !.state = q]
                                                ELSE [seen[a] EXCEPT !.pwd = Hash(q)]]]
    BY <1>7 DEF UpdatePwd, accounts
  <2>. QED
    BY <2>1, ReadingKeeps
<1>8. ASSUME NEW c \in Clients, NEW a \in Accounts, NEW op \in {"state", "pwd"}, NEW arg,
             op = "state" => arg \in {"normal", "forbidden"}, op = "pwd" => arg \in Passwords,
             UpdateUser(c, a, op, arg)
      PROVE  IInv'
  <2>1. seen[a] # None /\ UNCHANGED <<users, seen, writes, session>>
    BY <1>8 DEF UpdateUser, accounts
  <2>2. req' = [req EXCEPT ![c] = [op |-> op, acc |-> a, arg |-> arg,
                   obj |-> IF op = "state" THEN [seen[a] EXCEPT !.state = arg]
                                           ELSE [seen[a] EXCEPT !.pwd = Hash(arg)]]]
    BY <1>8 DEF UpdateUser
  <2>. QED
    BY <1>8, <2>1, <2>2, ReadingKeeps
<1>9. CASE UNCHANGED vars
  BY <1>9, AuthKeeps DEF vars, IInv
<1>. QED
  BY <1>1, <1>2, <1>3, <1>4, <1>5, <1>6, <1>7, <1>8, <1>9 DEF Next

\* The first state has it.
LEMMA InitHolds == Init => IInv
<1>. SUFFICES ASSUME Init
              PROVE  IInv
  OBVIOUS
<1>1. PICK l \in Logins, p \in Passwords :
        users = [a \in Accounts |->
                   IF a = [type |-> "normal", login |-> l]
                   THEN [state |-> "normal", pwd |-> Hash(p), ver |-> 0] ELSE None]
  BY DEF Init
<1>2. [state |-> "normal", pwd |-> Hash(p), ver |-> 0] \in Stored
  BY DEF Stored, Hash
<1>3. Table(users, 0)
  BY <1>1, <1>2 DEF Table
<1>4. seen = users /\ writes = 0 /\ req = [c \in Clients |-> Idle] /\ session = [c \in Clients |-> None]
  BY DEF Init
<1>5. \A c \in Clients : InTime(req[c], users, writes)
  BY <1>4, IdleInTime
<1>. QED
  BY <1>3, <1>4, <1>5 DEF IInv, SeenAgrees

\* Whoever holds the version that is stored holds what is stored.
THEOREM Invariance == Spec => []IInv
<1>1. Init => IInv
  BY InitHolds
<1>2. IInv /\ [Next]_vars => IInv'
  BY StepKeeps
<1>. QED
  BY <1>1, <1>2, PTL DEF Spec

-----------------------------------------------------------------------------
(* What a step may not do.                                                   *)

\* The actions that neither store a user nor give a token: what they leave alone.
LEMMA OtherSteps ==
  ASSUME [Next]_vars
  PROVE  \/ UNCHANGED <<users, session>>
         \/ \E c \in Clients : Auth(c) \/ UpdateUserSpec(c) \/ FirstLogin(c) \/ RecordLogin(c)
         \/ \E a \in Accounts : Removed(a)
         \/ \E c \in Clients, l \in Logins, p \in Passwords : CreateUser(c, l, p) \/ BatchCreateUser(c, l, p)
<1>1. CASE Tick
  BY <1>1 DEF Tick, accounts
<1>2. ASSUME NEW a \in Accounts, Deliver(a)
      PROVE  UNCHANGED <<users, session>>
  BY <1>2 DEF Deliver
<1>3. ASSUME NEW c \in Clients, NEW a \in Accounts, NEW p, NEW q, UpdatePwd(c, a, p, q)
      PROVE  UNCHANGED <<users, session>>
  BY <1>3 DEF UpdatePwd, accounts
<1>4. ASSUME NEW c \in Clients, NEW a \in Accounts, NEW p, Login(c, a, p)
      PROVE  UNCHANGED <<users, session>>
  BY <1>4 DEF Login, accounts
<1>5. ASSUME NEW c \in Clients, NEW a \in Accounts, NEW op, NEW arg, UpdateUser(c, a, op, arg)
      PROVE  UNCHANGED <<users, session>>
  BY <1>5 DEF UpdateUser, accounts
<1>6. CASE UNCHANGED vars
  BY <1>6 DEF vars, accounts
<1>. QED
  BY <1>1, <1>2, <1>3, <1>4, <1>5, <1>6 DEF Next

\* The login that ends in a session was checked on the version that is stored.
LEMMA StepRefuses ==
  ASSUME IInv, [Next]_vars, NEW c \in Clients, req[c].op = "record", session'[c] # session[c]
  PROVE  users[req[c].acc] # None /\ users[req[c].acc].state # "forbidden"
<1>. DEFINE Goal == users[req[c].acc] # None /\ users[req[c].acc].state # "forbidden"
<1>1. ASSUME NEW d \in Clients, Auth(d)
      PROVE  Goal
  <2>1. req[d].op = "none" /\ \E t : session' = [session EXCEPT ![d] = t]
    BY <1>1 DEF Auth, Idle
  <2>2. d # c
    BY <2>1
  <2>. QED
    BY <2>1, <2>2
<1>2. ASSUME NEW d \in Clients, RecordLogin(d)
      PROVE  Goal
  <2>1. Current(d) /\ session' = [session EXCEPT ![d] = Token(TokenName(req[d].acc))]
    BY <1>2 DEF RecordLogin
  <2>2. d = c
    BY <2>1
  <2>. QED
    BY <2>1, <2>2 DEF Current, IInv, InTime, Faithful
<1>3. ASSUME NEW d \in Clients, UpdateUserSpec(d) \/ FirstLogin(d)
      PROVE  session' = session
  BY <1>3 DEF UpdateUserSpec, FirstLogin
<1>4. ASSUME NEW a \in Accounts, Removed(a)
      PROVE  session' = session
  BY <1>4 DEF Removed
<1>5. ASSUME NEW d \in Clients, NEW l \in Logins, NEW p \in Passwords,
             CreateUser(d, l, p) \/ BatchCreateUser(d, l, p)
      PROVE  session' = session
  BY <1>5 DEF CreateUser, BatchCreateUser
<1>. QED
  BY <1>1, <1>2, <1>3, <1>4, <1>5, OtherSteps

\* For any clients and any delay of the cache, a login ends in a session only if
\* the user is not forbidden when the login is recorded (UpdateUserStatusImpl).
THEOREM NoSessionForForbidden == Spec => ForbiddenIsRefused
<1>1. IInv /\ [Next]_vars =>
        [\A c \in Clients :
           req[c].op = "record" /\ session'[c] # session[c] =>
             users[req[c].acc] # None /\ users[req[c].acc].state # "forbidden"]_vars
  BY StepRefuses
<1>. QED
  BY <1>1, Invariance, PTL DEF Spec, ForbiddenIsRefused

\* What a step may change in the user of an account.
Asked(a) ==
  /\ users'[a].state # users[a].state =>
       \E c \in Clients : /\ req[c].op = "state" /\ req[c].acc = a
                          /\ req[c].arg = users'[a].state
  /\ users'[a].pwd # users[a].pwd =>
       \E c \in Clients : /\ req[c].op = "pwd" /\ req[c].acc = a
                          /\ Hash(req[c].arg) = users'[a].pwd

\* A user changes as some request asked for.
LEMMA StepAsked ==
  ASSUME IInv, [Next]_vars, NEW a \in Accounts, users[a] # None, users'[a] # None
  PROVE  Asked(a)
<1>1. CASE users'[a] = users[a]
  BY <1>1 DEF Asked
<1>2. ASSUME NEW b \in Accounts, Removed(b)
      PROVE  users'[a] = users[a]
  BY <1>2 DEF Removed, IInv, Table
<1>3. ASSUME NEW c \in Clients, NEW l \in Logins, NEW p \in Passwords,
             CreateUser(c, l, p) \/ BatchCreateUser(c, l, p)
      PROVE  users'[a] = users[a]
  <2>. DEFINE b == [type |-> "normal", login |-> l]
  <2>1. users[b] = None /\ \E u : users' = [users EXCEPT ![b] = u]
    BY <1>3 DEF CreateUser, BatchCreateUser, Write
  <2>. HIDE DEF b
  <2>. QED
    BY <2>1 DEF IInv, Table
<1>4. ASSUME NEW c \in Clients, FirstLogin(c)
      PROVE  users'[a] = users[a]
  <2>1. \/ users' = users
        \/ users[req[c].acc] = None /\ \E u : users' = [users EXCEPT ![req[c].acc] = u]
    BY <1>4 DEF FirstLogin, Write
  <2>. QED
    BY <2>1 DEF IInv, Table
<1>5. ASSUME NEW c \in Clients, Auth(c)
      PROVE  users' = users
  BY <1>5 DEF Auth, accounts
<1>6. ASSUME NEW c \in Clients, RecordLogin(c)
      PROVE  Asked(a)
  <2>. SUFFICES ASSUME Current(c), Write(req[c].acc, users[req[c].acc])
                PROVE  Asked(a)
    BY <1>1, <1>6 DEF RecordLogin
  <2>1. req[c].acc \in Accounts /\ users[req[c].acc] \in Stored
    BY <1>6 DEF RecordLogin, Current, IInv, InTime, Table
  <2>2. /\ users'[req[c].acc].state = users[req[c].acc].state
        /\ users'[req[c].acc].pwd = users[req[c].acc].pwd
        /\ \A b \in Accounts : b # req[c].acc => users'[b] = users[b]
    BY <2>1, WriteStores
  <2>. QED
    BY <2>2 DEF Asked
<1>7. ASSUME NEW c \in Clients, UpdateUserSpec(c)
      PROVE  Asked(a)
  <2>. SUFFICES ASSUME Current(c), Write(req[c].acc, req[c].obj)
                PROVE  Asked(a)
    BY <1>1, <1>7 DEF UpdateUserSpec
  <2>1. req[c].op \in {"state", "pwd"} /\ req[c].acc \in Accounts /\ req[c].obj \in Stored
    BY <1>7 DEF UpdateUserSpec, IInv, InTime
  <2>2. /\ users'[req[c].acc].state = req[c].obj.state
        /\ users'[req[c].acc].pwd = req[c].obj.pwd
        /\ \A b \in Accounts : b # req[c].acc => users'[b] = users[b]
    BY <2>1, WriteStores
  <2>3. Faithful(req[c], users[req[c].acc])
    BY <2>1 DEF Current, IInv, InTime
  <2>. QED
    BY <2>1, <2>2, <2>3 DEF Asked, Faithful
<1>. QED
  BY <1>1, <1>2, <1>3, <1>4, <1>5, <1>6, <1>7, OtherSteps

\* For any clients and any delay of the cache, a write changes in a user what its
\* request asked for, and undoes nothing stored in the meantime (UpdateUserSpecImpl).
THEOREM NoEditIsLost == Spec => NoLostUpdate
<1>1. IInv /\ [Next]_vars =>
        [\A a \in Accounts : users[a] # None /\ users'[a] # None =>
           /\ users'[a].state # users[a].state =>
                \E c \in Clients : /\ req[c].op = "state" /\ req[c].acc = a
                                   /\ req[c].arg = users'[a].state
           /\ users'[a].pwd # users[a].pwd =>
                \E c \in Clients : /\ req[c].op = "pwd" /\ req[c].acc = a
                                   /\ Hash(req[c].arg) = users'[a].pwd]_vars
  BY StepAsked DEF Asked
<1>. QED
  BY <1>1, Invariance, PTL DEF Spec, NoLostUpdate

=============================================================================
