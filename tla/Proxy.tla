------------------------------- MODULE Proxy -------------------------------
(***************************************************************************)
(* The proxy to the clusters: conversion of versions (pkg/conversion,      *)
(* pkg/multicluster/convert.go), requests                                  *)
(* (pkg/apiserver/cubeapi/resourcemanage/handle/proxy.go) and selection,   *)
(* sorting and paging of what comes back (pkg/utils/filter).               *)
(*                                                                         *)
(* One kind, served in versions <<group, version>>; one client that goes   *)
(* through the pages of its list, or makes other requests, while the       *)
(* cluster is upgraded, is added again and gets other objects.             *)
(***************************************************************************)
EXTENDS Naturals, Sequences, FiniteSets, SequencesExt

CONSTANTS
  Layouts,    \* the versions a cluster may serve, in the order of its discovery
  Registered, \* the versions the scheme of a converter has; a cluster may serve others of the kind
  Objects,    \* Objects[n]: [label, key] of the objects that may exist; key 0: missing
  Lists,      \* the requests for lists: [via, gv, ns, watch, cond]; cond is [label, texts, order, func, limit]
  Singles,    \* the requests for one object: [via, gv, name, method, body]
  AnyLabel,   \* (a condition without a label)
  MaxPage,    \* (bound) pages asked for
  Nil

Versions == UNION {Range(l) : l \in Layouts}
Names == DOMAIN Objects

\* What may stand for a group or a version in a path: "namespaces" is taken.
Word == STRING \ {"namespaces"}

ASSUME LayoutsAssumption ==
  /\ Layouts # {} /\ Nil \notin Layouts /\ Nil \notin Versions /\ Nil \notin Names
  /\ \A l \in Layouts : l \in Seq(Word \X Word)
  /\ Registered \subseteq Word \X Word /\ Nil \notin Registered
  /\ \A r \in Lists : r.ns \in BOOLEAN /\ r.watch \in BOOLEAN /\ r.cond.limit \in Nat
  /\ \A r \in Singles : r.name \in Names
  /\ \A r \in Lists \cup Singles : r.via \in {"proxy", "handler"} /\ r.gv \in (Word \X Word) \ {Nil}
  /\ MaxPage \in Nat /\ IsFiniteSet(Names) /\ \A n \in Names : Objects[n].key \in Nat

VARIABLES
  served,   \* the layout of the cluster
  known,    \* the cached discovery of its client; Nil before it is used
  ticked,   \* the timer that empties it has fired
  conv,     \* the converter of the proxy: the client it is of ("none", "current" or "former"), the
            \* discovery of a former client, and the order of its groups: [of, known, order]
  store,    \* the names of the objects of the cluster
  call,     \* the request being handled, or Nil
  reply,    \* the last answer, or Nil
  got,      \* history: the pages read so far: [cond, num, names], or Nil
  calm      \* history: no object came or went since the first page

\* PrioritizedVersionsAllGroups goes through a map: the order of the groups is any, and
\* stays for the life of a converter.
GroupOrders == SetToSeqs({gv[1] : gv \in Registered})

proxyVars == <<served, known, ticked, conv, store, call, reply, got, calm>>

ProxyInit ==
  /\ served = (CHOOSE l \in Layouts : TRUE) /\ known = Nil /\ ticked = FALSE
  /\ \E order \in GroupOrders : conv = [of |-> "none", known |-> Nil, order |-> order]
  /\ store = Names /\ call = Nil /\ reply = Nil /\ got = Nil /\ calm = TRUE

-----------------------------------------------------------------------------
(* Paths.  A path is the sequence of its segments.                         *)

\* The name of the group of the core API.
CoreGroup == ""

\* The paths of Kubernetes, for the kind "events": the version, and what is asked for.
Root(gv) == IF gv[1] = CoreGroup THEN <<"api", gv[2]>> ELSE <<"apis", gv[1], gv[2]>>
Rest(u) ==
  (IF u.watch THEN <<"watch">> ELSE <<>>)
  \o (IF u.ns THEN <<"namespaces", "n1">> ELSE <<>>)
  \o <<"events">> \o (IF u.name = Nil THEN <<>> ELSE <<u.name>>)
Path(u) == Root(u.gv) \o Rest(u)

Paths == [gv : Versions, ns : BOOLEAN, name : Names \cup {Nil}, watch : BOOLEAN]
Meaning(ss) == {u \in Paths : Path(u) = ss}

IsNamespaced(ss) == Len(ss) > 4 /\ \E i \in 1..(Len(ss) - 1) : ss[i] = "namespaces"

\* ParseURL, path.Parse: where the resource and the name stand; 0 for a path that
\* is refused.
At(ss) ==
  LET core == ss[1] = "api"
      i == (IF core THEN 3 ELSE 4) + (IF IsNamespaced(ss) THEN 2 ELSE 0)
  IN IF Len(ss) >= i THEN i ELSE 0

ParseURL(ss) ==
  [gv |-> IF ss[1] = "api" THEN <<CoreGroup, ss[2]>> ELSE <<ss[2], ss[3]>>, resource |-> ss[At(ss)]]

\* path.Parse, which RelationshipDetermine goes by.
Parse(ss) ==
  [resource |-> ss[At(ss)], name |-> IF Len(ss) > At(ss) THEN ss[At(ss) + 1] ELSE Nil]

ConvertURL(ss, gv) == Root(gv) \o SubSeq(ss, IF ss[1] = "api" THEN 3 ELSE 4, Len(ss))

\* needModifyResponse; a watch may be asked for in the query as well.
NeedModifyResponse(ss, watch) == ~watch /\ ss[IF ss[1] = "api" THEN 3 ELSE 4] # "watch"

-----------------------------------------------------------------------------
(* Versions.                                                               *)

\* KindsFor: the registered versions a path may be about.  The group of the core API
\* is the empty one, which is taken for none: any group will do.
ReadAs(gv) == {r \in Registered : r = gv \/ (gv[1] = CoreGroup /\ r[2] = gv[2])}

\* Gvr2Gvk: the one whose group comes first; Nil when there is none.
Before(order, g, h) == \E i, j \in DOMAIN order : i < j /\ order[i] = g /\ order[j] = h
Gvr2Gvk(gv, order) ==
  LET first == {r \in ReadAs(gv) : \A q \in ReadAs(gv) \ {r} : Before(order, r[1], q[1])}
  IN IF first = {} THEN Nil ELSE CHOOSE r \in first : TRUE

\* (mutant of GvkGreeting: a group that is served passes for the version)
GvkGreetingInGroup(layout, gv) ==
  IF \E v \in Range(layout) : v[1] = gv[1] THEN "IsPassThrough"
  ELSE IF layout = <<>> THEN "IsNotSupport" ELSE "IsNeedConvert"

\* GvkGreeting: is a version served, or is there another of the kind?  The first of
\* them is the one recommended.
GvkGreeting(layout, gv) ==
  IF gv \in Range(layout) THEN "IsPassThrough"
  ELSE IF layout = <<>> THEN "IsNotSupport" ELSE "IsNeedConvert"

\* The discovery a request goes by.  The proxy keeps its converter (GetVersionConvert),
\* and with it the client it was made of; the other handlers make theirs for every request.
Kept(via) == IF via = "proxy" /\ conv.of = "former" THEN conv.known ELSE known

\* What is found there: what was read before, what is served, or nothing when it
\* cannot be read.
Discovered(via) == IF Kept(via) = Nil THEN {served, <<>>} ELSE {Kept(via)}

-----------------------------------------------------------------------------
(* Lists.                                                                  *)

\* GetDeepValue and GetDeepFloat64: the value of the field that is asked about, 0
\* when it is missing.
DeepValue(n) == Objects[n].key

\* ExactFilter and FuzzyFilter: an object without the field does not match.
ExactFilter(names, cond) == {n \in names : cond.label \in {AnyLabel, Objects[n].label}}
FuzzyFilter(names, cond) == {n \in names : cond.texts = {} \/ DeepValue(n) \in cond.texts}

\* SortHandler: "number" takes 0 for what is missing.  Otherwise what is missing
\* compares as neither before nor after, and any order may come out.
Ordered(s, cond) ==
  \A i, j \in DOMAIN s : i < j =>
    LET a == DeepValue(s[i])
        b == DeepValue(s[j])
    IN IF cond.order = "asc" THEN a <= b ELSE a >= b

SortHandler(names, cond) ==
  {s \in SetToSeqs(names) :
     \/ Ordered(s, cond)
     \/ cond.func # "number" /\ \E n \in names : DeepValue(n) = 0}

\* ParsePage.
Offset(cond, num) == IF num < 1 THEN 0 ELSE (num - 1) * cond.limit

\* (mutant of PageHandler: one past the end of a page)
PageHandlerLong(s, limit, offset) ==
  IF limit = 0 THEN s
  ELSE SubSeq(s, offset + 1, IF offset + limit + 1 > Len(s) THEN Len(s) ELSE offset + limit + 1)

PageHandler(s, limit, offset) ==
  IF limit = 0 THEN s
  ELSE SubSeq(s, offset + 1, IF offset + limit > Len(s) THEN Len(s) ELSE offset + limit)

\* convertsLabelSelectorForReq: the conditions on labels are the cluster's to check.
PushedDown(names, cond) == {n \in names : cond.label \in {AnyLabel, Objects[n].label}}

\* What is made of a list: the names that may come out, and their number.
Filter(names, cond, num) ==
  LET found == FuzzyFilter(ExactFilter(names, cond), cond)
  IN [names : {PageHandler(s, cond.limit, Offset(cond, num)) : s \in SortHandler(found, cond)},
      total : {Cardinality(found)}]

-----------------------------------------------------------------------------
(* Requests.                                                               *)

Answered(status, gv, names, total) ==
  /\ reply' = [status |-> status, gv |-> gv, names |-> names, total |-> total, via |-> call.via,
               want |-> call.want, greet |-> call.greet, stale |-> call.stale]
  /\ call' = Nil

\* tryVersionConvert and tryConvert.  The discovery is read, and kept; a request goes as
\* it is unless it needs to be converted.
Greet(via, u, method, body, cond, num) ==
  \E seen \in Discovered(via) :
    LET ss == Path(u)
        url == ParseURL(ss)
        kind == IF via = "handler" THEN u.gv
                ELSE IF url.resource = "events" THEN Gvr2Gvk(url.gv, conv.order) ELSE Nil
        greet == IF kind = Nil THEN "IsUnknown" ELSE GvkGreeting(seen, kind)
        read == IF Kept(via) = Nil /\ seen # served THEN Nil ELSE seen
        former == via = "proxy" /\ conv.of = "former"
    IN /\ call = Nil
       /\ call' = [via |-> via, want |-> u, method |-> method, greet |-> greet, num |-> num, cond |-> cond,
                   path |-> IF greet = "IsNeedConvert" THEN ConvertURL(ss, seen[1]) ELSE ss,
                   target |-> IF greet = "IsNeedConvert" THEN seen[1] ELSE u.gv,
                   body |-> body, stale |-> seen # served]
       /\ known' = IF former THEN known ELSE read
       /\ conv' = [conv EXCEPT !.of = IF via = "proxy" /\ @ = "none" THEN "current" ELSE @,
                               !.known = IF former THEN read ELSE @]
       /\ reply' = Nil
       /\ UNCHANGED <<served, ticked, store>>

\* The pages are asked for in their order, as long as the answers are lists; without
\* a limit there is one.
GetList(via, gv, ns, watch, cond, num) ==
  /\ num = 1 \/ (cond.limit > 0 /\ got # Nil /\ got.cond = cond /\ got.num = num - 1)
  /\ Greet(via, [gv |-> gv, ns |-> ns, name |-> Nil, watch |-> watch], "GET", gv, cond, num)
  /\ got' = IF num = 1 THEN [cond |-> cond, num |-> 0, names |-> <<>>] ELSE got
  /\ calm' = (calm \/ num = 1)

OneObject == [label |-> AnyLabel, texts |-> {}, order |-> "asc", func |-> "string", limit |-> 0]

\* Through the proxy, or a client of WrapClient, which goes by the version of the
\* object it is given.
AtOne(via, gv, n, method, body) ==
  /\ via = "handler" => body = gv
  /\ Greet(via, [gv |-> gv, ns |-> TRUE, name |-> n, watch |-> FALSE], method, body, OneObject, 0)
  /\ got' = Nil /\ calm' = TRUE

\* Convert goes from one version that is registered to another.
Convertible(gv, to) == {gv, to} \subseteq Registered

\* (mutant of Back: the answer is not converted)
BackAsIs(c, gv) == gv

\* The version of an answer that the cluster gives in version gv (ModifyResponse,
\* doFilter, tryConvertBack): a watch is passed on, and what cannot be converted, too.
Back(c, gv) ==
  IF /\ c.greet = "IsNeedConvert" /\ NeedModifyResponse(Path(c.want), c.want.watch)
     /\ Convertible(gv, c.want.gv)
  THEN c.want.gv ELSE gv

\* Objects must be converted before they are sent, and are in the version of the path;
\* a client of WrapClient converts the object that it asks with, too.
Unsendable(c) ==
  /\ c.greet = "IsNeedConvert" /\ (c.via = "handler" \/ c.method = "PUT")
  /\ c.body # c.want.gv \/ ~Convertible(c.want.gv, c.target)

\* The cluster answers and the answer is filtered (ModifyResponse, doFilter,
\* FilterObjectList).  A list without objects is passed on as it is by the proxy.
ForwardList(gv) ==
  LET sent == IF call.via = "proxy" THEN PushedDown(store, call.cond) ELSE store
  IN IF call.want.watch \/ (call.via = "proxy" /\ sent = {})
     THEN Answered("as is", gv, <<>>, Nil) /\ got' = Nil
     ELSE \E out \in Filter(sent, call.cond, call.num) :
            /\ Answered("list", Back(call, gv), out.names, out.total)
            /\ got' = [got EXCEPT !.num = call.num, !.names = @ \o out.names]

\* One object.  The cluster takes a body in the version of the path only; fields of
\* a patch it does not know are lost.
ForwardOne(gv, n) ==
  LET body == IF call.method = "PUT" /\ call.greet = "IsNeedConvert" THEN call.target ELSE call.body
  IN /\ IF n \notin store \/ (call.method = "PUT" /\ body # gv)
        THEN Answered("bad", Nil, <<>>, Nil)
        ELSE Answered(IF call.method = "PATCH" /\ body # gv THEN "lost" ELSE "object", Back(call, gv), <<n>>, Nil)
     /\ UNCHANGED got

\* The cluster goes by the path.
Forward ==
  LET asked == {u \in Meaning(call.path) : u.gv \in Range(served)}
  IN /\ call # Nil
     /\ \/ Unsendable(call) /\ Answered("bad", Nil, <<>>, Nil) /\ got' = Nil
        \/ /\ ~Unsendable(call) /\ asked = {}
           /\ Answered(IF served = <<>> THEN "nokind" ELSE "notfound", Nil, <<>>, Nil) /\ got' = Nil
        \/ /\ ~Unsendable(call)
           /\ \E u \in asked : IF u.name = Nil THEN ForwardList(u.gv) ELSE ForwardOne(u.gv, u.name)
     /\ UNCHANGED <<served, known, ticked, conv, store, calm>>

-----------------------------------------------------------------------------
(* What happens meanwhile.                                                 *)

Late(c) == IF c = Nil THEN Nil ELSE [c EXCEPT !.stale = TRUE]

Upgrade(l) ==
  /\ l # served /\ served' = l /\ call' = Late(call)
  /\ UNCHANGED <<known, ticked, conv, store, reply, got, calm>>

\* RefreshCacheDiscovery: the timer is not set again.
RefreshCacheDiscovery ==
  /\ ~ticked /\ ticked' = TRUE /\ known' = Nil
  /\ UNCHANGED <<served, conv, store, call, reply, got, calm>>

\* The cluster is removed and added: a new client, with a discovery and a timer of
\* its own.  The converter of the proxy stays, and is of the old client.
AddAgain ==
  /\ known' = Nil /\ ticked' = FALSE
  /\ conv' = IF conv.of = "current" THEN [conv EXCEPT !.of = "former", !.known = known] ELSE conv
  /\ UNCHANGED <<served, call, store, reply, got, calm>>

Toggle(n) ==
  /\ store' = IF n \in store THEN store \ {n} ELSE store \cup {n}
  /\ calm' = FALSE
  /\ UNCHANGED <<served, known, ticked, conv, call, reply, got>>

ProxyNext ==
  \/ \E r \in Lists, num \in 1..MaxPage : GetList(r.via, r.gv, r.ns, r.watch, r.cond, num)
  \/ \E r \in Singles : AtOne(r.via, r.gv, r.name, r.method, r.body)
  \/ Forward
  \/ \E l \in Layouts : Upgrade(l)
  \/ RefreshCacheDiscovery \/ AddAgain
  \/ \E n \in Names : Toggle(n)

ProxySpec == ProxyInit /\ [][ProxyNext]_proxyVars

-----------------------------------------------------------------------------
(* Properties.                                                             *)

\* Whatever version the cluster serves, objects come back in the version they were
\* asked for in: the conversion of the path, the choice of the version and the way
\* back fit together (ProxyHandle, ConvertHandler, tryConvertBack).  What the proxy was
\* told to convert and cannot comes back as the cluster has it, in a version that
\* is not registered.  An object that comes back is the one RelationshipDetermine was
\* asked about.
AnswersAsAsked ==
  reply # Nil /\ reply.names # <<>> /\ ~reply.want.watch =>
    /\ \/ reply.gv = reply.want.gv
       \/ reply.via = "proxy" /\ reply.greet = "IsNeedConvert" /\ ~Convertible(reply.gv, reply.want.gv)
    /\ reply.status = "object" => Parse(Path(reply.want)) = [resource |-> "events", name |-> reply.names[1]]

\* A request for a kind that is there fails for its version only when the discovery
\* was out of date or could not be read, the path is the one of a watch, or the path is
\* one that the proxy reads as of no version or of another than it names (Gvr2Gvk).
NotFoundIsStale ==
  reply # Nil /\ reply.status = "notfound" =>
    \/ reply.stale \/ reply.want.watch
    \/ reply.via = "proxy" /\ ReadAs(reply.want.gv) # {reply.want.gv}

\* Refuted.  "found match group/version/kind in target cluster.  so the object is
\* available in target cluster." (conversion.go:189): a path of the core API may have
\* been read as one of another group, and is not converted.
AvailableIsFound ==
  reply # Nil /\ reply.greet = "IsPassThrough" /\ ~reply.stale => reply.status # "notfound"

\* Refuted.  "add a timed task, call RefreshCacheDiscovery method, refresh the cache"
\* (client.go:144): once a cluster stays as it is, what is kept of its discovery
\* is not out of date for good.
DiscoveryIsRefreshed ==
  \A l \in Layouts : <>[](served = l) => []<>(known \in {Nil, l})

\* The objects a condition is about.
Selected(cond) ==
  {n \in store : /\ cond.label \in {AnyLabel, Objects[n].label}
                 /\ cond.texts = {} \/ Objects[n].key \in cond.texts}

\* The condition says which of any two objects comes first.
Decides(cond) ==
  /\ \A m, n \in Selected(cond) : m # n => Objects[m].key # Objects[n].key
  /\ cond.func = "number" \/ \A n \in Selected(cond) : Objects[n].key # 0

\* A list is in the order that the condition asks for.
InOrder(s, cond) ==
  \A i, j \in DOMAIN s : i < j =>
    IF cond.order = "asc" THEN Objects[s[i]].key < Objects[s[j]].key
    ELSE Objects[s[i]].key > Objects[s[j]].key

\* How many objects the first pages have.
UpTo(cond, num) ==
  LET size == Cardinality(Selected(cond))
  IN IF cond.limit = 0 \/ num * cond.limit > size THEN size ELSE num * cond.limit

\* Names are those of the first pages of the selection.
FirstPages(names, cond, num) ==
  \E s \in SetToSeqs(Selected(cond)) : InOrder(s, cond) /\ names = SubSeq(s, 1, UpTo(cond, num))

\* As long as no object comes or goes, the pages that have been read are the first
\* pages of the selection in its order, and its size is right: whatever the labels
\* the cluster was left to check, and if the version is converted in between.
PagesAreTheSelection ==
  reply # Nil /\ got # Nil /\ calm =>
    /\ reply.total = Cardinality(Selected(got.cond))
    /\ Decides(got.cond) => FirstPages(got.names, got.cond, got.num)

\* Refuted.  Every list comes with its size (doFilter, filter.go:138): not the empty
\* one, and whether a selection is empty upstream depends on its conditions.
EmptyHasTotal == reply # Nil /\ reply.status = "as is" => reply.want.watch

\* Refuted.  "we do not need convert body if request not create and update"
\* (proxy.go:97): the body of a patch is in the version of its path, too.
PatchIsTaken == reply # Nil => reply.status # "lost"
=============================================================================
