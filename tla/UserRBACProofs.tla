--------------------------- MODULE UserRBACProofs ---------------------------
(***************************************************************************)
(* The bindings of a user follow its scopes, for any scopes, namespaces    *)
(* and namespace labels, and any number of edits, legacy bindings and      *)
(* failing calls.  Two things carry the proof.  The controller has nothing *)
(* to learn from the moment its queue is empty and its informer has the    *)
(* last user, hence the reconciliation it is in has read the user as it    *)
(* is.  And what the clean-up deletes has the name of no binding the user  *)
(* needs, unless two scopes share it.                                      *)
(***************************************************************************)
EXTENDS UserRBAC, TLAPS

-----------------------------------------------------------------------------
(* The invariant.                                                          *)

Steps == {"idle", "status", "bind", "gen", "clean", "gc"}

IsWork(w) ==
  /\ w = [pc |-> w.pc, spec |-> w.spec, status |-> w.status, todo |-> w.todo, err |-> w.err]
  /\ w.pc \in Steps /\ w.spec \in SUBSET Scopes /\ w.status \in Statuses /\ w.err \in BOOLEAN

Known ==
  /\ user \in Users \cup {None} /\ seen \in Users \cup {None}
  /\ view \in (SUBSET Scopes) \cup {None}
  /\ binder # None => binder.scope \in LegacyScopes
  /\ nss \subseteq Namespaces /\ seenNs \subseteq Namespaces
  /\ late \in BOOLEAN /\ queue \in BOOLEAN /\ slip \in BOOLEAN
  /\ IsWork(worker)

\* The bindings there may be: of a scope, of a member, and the ones made by others.
IsBinding(b) ==
  \/ \E s \in Scopes : b \in BindingsOf(s, Namespaces)
  \/ \E type \in Types : b = GenBinding(type)
  \/ \E s \in LegacyScopes, l \in BOOLEAN : b = Legacy(s, l)

\* The clean-up deletes bindings that the scopes it has read do not account for.
Deletable(b, spec, status) ==
  IsBinding(b) /\ b \in Orphans({b}, spec, status)

BindingsKnown ==
  /\ \A b \in binds \cup seenB : IsBinding(b)
  /\ worker.pc = "clean" => \A b \in worker.todo : Deletable(b, worker.spec, worker.status)

\* A user that is being deleted stays so, and has its finalizer.  The controller has
\* listed every binding that is left, or has passed one over.
Ending ==
  /\ user # None /\ user.del => user.fin
  /\ seen # None /\ seen.del => user = None \/ user.del
  /\ worker.pc = "gc" => /\ user = None \/ user.del
                         /\ slip \/ Labelled(binds) \subseteq worker.todo

\* The scopes have their bindings in the namespaces that are known.
Granted(spec) ==
  \A s \in spec : Alone(s) => Ids(BindingsOf(s, Counted(seenNs))) \subseteq Ids(binds)

Quiet == ~late /\ ~queue

\* The reconciliation works on the user as it is.
UpToDate ==
  /\ Live /\ worker.spec = user.spec /\ Tells(worker.status, user.spec)
  /\ worker.pc # "status" => user.status = worker.status

\* The bindings of the scopes it has handled are there.
Handled == Granted(IF worker.pc = "bind" THEN user.spec \ worker.todo ELSE user.spec)

GenGranted == Ids(GenBindingsOf(user.spec)) \subseteq Ids(binds)

Following ==
  /\ ~late => seen = user
  /\ Quiet /\ worker.pc \in {"status", "bind", "gen", "clean"} => UpToDate
  /\ Quiet /\ worker.pc \in {"bind", "gen"} /\ ~worker.err => Handled
  /\ Quiet /\ worker.pc = "clean" =>
       /\ Granted(user.spec) /\ GenGranted
       /\ slip \/ Orphans(binds, user.spec, user.status) \subseteq worker.todo
  /\ RestIsRight

UserInv == Known /\ BindingsKnown /\ Ending /\ Following

-----------------------------------------------------------------------------
(* Bindings.                                                               *)

\* A binding is created unless its name is taken; either way the name is there.
LEMMA CreatedNames ==
  ASSUME NEW found, NEW new
  PROVE  /\ Ids(found) \subseteq Ids(Created(found, new))
         /\ Ids(new) \subseteq Ids(Created(found, new))
         /\ found \subseteq Created(found, new)
         /\ Created(found, new) \subseteq found \cup new
<1>1. ASSUME NEW b \in new
      PROVE  b.id \in Ids(Created(found, new))
  BY DEF Ids, Created
<1>2. Ids(new) \subseteq Ids(Created(found, new))
  BY <1>1 DEF Ids
<1>3. found \subseteq Created(found, new) /\ Created(found, new) \subseteq found \cup new
  BY DEF Created
<1>4. Ids(found) \subseteq Ids(Created(found, new))
  BY <1>3 DEF Ids
<1>. QED
  BY <1>2, <1>3, <1>4

\* A deletion takes away one name.
LEMMA DroppedName ==
  ASSUME NEW found, NEW b, NEW i \in Ids(found), i # b.id
  PROVE  i \in Ids(Dropped(found, b))
<1>1. PICK x \in found : x.id = i
  BY DEF Ids
<1>2. x \in Dropped(found, b)
  BY <1>1 DEF Dropped
<1>. QED
  BY <1>1, <1>2 DEF Ids

\* A status made of scopes tells them, whatever projects could be read.
LEMMA RefreshTells ==
  ASSUME NEW spec, NEW known
  PROVE  Tells(RefreshUserStatus(spec, known), spec)
<1>. DEFINE projects == RefreshUserStatus(spec, known).projects
<1>1. ASSUME NEW s \in spec, s.type = "project"
      PROVE  s.name \in {p[1] : p \in projects}
  <2>1. PICK t : <<s.name, t>> \in projects
    BY <1>1 DEF RefreshUserStatus
  <2>. HIDE DEF projects
  <2>. QED
    BY <2>1
<1>2. ASSUME NEW p \in projects
      PROVE  p[1] \in ProjectsIn(spec)
  BY DEF RefreshUserStatus, ProjectsIn
<1>3. {p[1] : p \in projects} = ProjectsIn(spec)
  BY <1>1, <1>2 DEF ProjectsIn
<1>4. RefreshUserStatus(spec, known).tenants = RefreshUserStatus(spec, {}).tenants
  BY DEF RefreshUserStatus
<1>. QED
  BY <1>3, <1>4 DEF Tells

LEMMA RefreshIsStatus ==
  ASSUME NEW spec \in SUBSET Scopes, NEW known \in SUBSET ProjectsIn(spec)
  PROVE  RefreshUserStatus(spec, known) \in Statuses
<1>1. known \in SUBSET ProjectsIn(Scopes)
  BY DEF ProjectsIn
<1>. QED
  BY <1>1 DEF Statuses

\* A user with a scope of a tenant or of a project is a member of something.
LEMMA MemberOf ==
  ASSUME NEW spec \in SUBSET Scopes, NEW status, Tells(status, spec),
         GenBindingsOf(spec) # {}
  PROVE  Member(status)
<1>1. PICK s \in spec : s.type # "platform"
  BY DEF GenBindingsOf
<1>2. s.type = "tenant" \/ s.type = "project"
  BY <1>1, ScopeAssumption DEF Types
<1>3. CASE s.type = "tenant"
  <2>1. s.name \in RefreshUserStatus(spec, {}).tenants
    BY <1>3 DEF RefreshUserStatus
  <2>. QED
    BY <2>1 DEF Tells, Member
<1>4. CASE s.type = "project"
  <2>1. s.name \in {p[1] : p \in status.projects}
    BY <1>4 DEF Tells, ProjectsIn
  <2>. QED
    BY <2>1 DEF Member
<1>. QED
  BY <1>2, <1>3, <1>4

\* The kinds of bindings never share a name.
LEMMA Kinds ==
  /\ \A s \in Scopes : \A found : \A b \in BindingsOf(s, found) :
       b.scope = s /\ b.label = TRUE /\ b.id.kind \in {"cluster", "role"}
  /\ \A type : GenBinding(type).id.kind = "gen"
  /\ \A s, l : Legacy(s, l).id.kind = "legacy" /\ Legacy(s, l).label = l /\ Legacy(s, l).scope = s
<1>1. ASSUME NEW s \in Scopes, NEW found, NEW b \in BindingsOf(s, found)
      PROVE  b.scope = s /\ b.label = TRUE /\ b.id.kind \in {"cluster", "role"}
  BY <1>1 DEF BindingsOf, BindingId
<1>. QED
  BY <1>1 DEF GenBinding, Legacy

LEMMA MoreNamespaces ==
  ASSUME NEW s, NEW more, NEW found \in SUBSET more
  PROVE  BindingsOf(s, found) \subseteq BindingsOf(s, more)
<1>1. NamespacesOf(s, found) \subseteq NamespacesOf(s, more)
  BY DEF NamespacesOf
<1>. QED
  BY <1>1 DEF BindingsOf

\* What the clean-up deletes has no name that the user needs.
LEMMA OrphansAreSpared ==
  ASSUME NEW spec \in SUBSET Scopes, NEW status, Tells(status, spec),
         NEW b, Deletable(b, spec, status)
  PROVE  /\ \A s \in spec, found \in SUBSET Namespaces :
              Alone(s) => b.id \notin Ids(BindingsOf(s, found))
         /\ b.id \notin Ids(GenBindingsOf(spec))
<1>1. b.scope \notin spec /\ ~(b.id.kind = "gen" /\ Member(status))
  BY DEF Deletable, Orphans
<1>2. ASSUME NEW s \in spec, NEW found \in SUBSET Namespaces, Alone(s),
             b.id \in Ids(BindingsOf(s, found))
      PROVE  FALSE
  <2>1. b.id \in Ids(BindingsOf(s, Namespaces))
    BY <1>2, MoreNamespaces DEF Ids
  <2>2. b.id.kind \in {"cluster", "role"}
    BY <1>2, Kinds DEF Ids
  <2>3. PICK t \in Scopes : b \in BindingsOf(t, Namespaces)
    BY <2>2, Kinds DEF Deletable, IsBinding
  <2>4. t # s /\ b.id \in Ids(BindingsOf(t, Namespaces))
    BY <1>1, <2>3, Kinds DEF Ids
  <2>. QED
    BY <1>2, <2>1, <2>4 DEF Alone
<1>3. ASSUME b.id \in Ids(GenBindingsOf(spec))
      PROVE  FALSE
  <2>1. b.id.kind = "gen" /\ GenBindingsOf(spec) # {}
    BY <1>3, Kinds DEF Ids, GenBindingsOf
  <2>. QED
    BY <1>1, <2>1, MemberOf
<1>. QED
  BY <1>2, <1>3

\* Only what a set has can be an orphan of it, one by one.
LEMMA OrphanOf ==
  ASSUME NEW found, NEW spec, NEW status
  PROVE  \A b : b \in Orphans(found, spec, status)
                  <=> b \in found /\ b \in Orphans({b}, spec, status)
BY DEF Orphans

\* A namespace that is not counted, or that concerns no tenant and no project of the
\* user, brings no binding.
LEMMA UnrelatedNamespace ==
  ASSUME NEW spec \in SUBSET Scopes, NEW status, Tells(status, spec),
         NEW found, NEW n,
         ~(n.tenant # None /\ n.project # None
             /\ (n.tenant \in status.tenants \/ n.project \in {p[1] : p \in status.projects}))
  PROVE  \A s \in spec : BindingsOf(s, Counted(found \cup {n})) = BindingsOf(s, Counted(found))
<1>. SUFFICES ASSUME NEW s \in spec
              PROVE  BindingsOf(s, Counted(found \cup {n})) = BindingsOf(s, Counted(found))
  OBVIOUS
<1>1. CASE s.type = "platform"
  BY <1>1 DEF BindingsOf
<1>2. CASE s.type # "platform"
  <2>1. s.type = "tenant" => s.name \in status.tenants
    BY DEF Tells, RefreshUserStatus
  <2>2. s.type = "project" => s.name \in {p[1] : p \in status.projects}
    BY DEF Tells, ProjectsIn
  <2>3. NamespacesOf(s, Counted(found \cup {n})) = NamespacesOf(s, Counted(found))
    BY <2>1, <2>2 DEF NamespacesOf, Counted
  <2>. QED
    BY <1>2, <2>3 DEF BindingsOf
<1>. QED
  BY <1>1, <1>2

-----------------------------------------------------------------------------
(* The requests.  Whoever changes the user leaves the informer behind.     *)

LEMMA UserPut ==
  ASSUME UserInv, NEW u \in Users \cup {None}, Put(u),
         user = None => u = None,
         u # None /\ user # None /\ user.del => u.del,
         u # None /\ u.del => u.fin,
         UNCHANGED <<seen, binds, seenB, seenNs, queue, worker, slip>>
  PROVE  /\ user' \in Users \cup {None} /\ late' \in BOOLEAN
         /\ BindingsKnown' /\ Ending' /\ Following'
<1>1. user' = u /\ late' = (late \/ u # user) /\ late \in BOOLEAN
  BY DEF Put, UserInv, Known
<1>2. BindingsKnown'
  BY DEF UserInv, BindingsKnown
<1>3. Ending'
  BY <1>1 DEF UserInv, Ending
<1>4. ASSUME late'
      PROVE  Following'
  BY <1>4 DEF Following, Quiet, RestIsRight
<1>5. ASSUME ~late'
      PROVE  Following'
  <2>1. user' = user /\ ~late
    BY <1>1, <1>5
  <2>. QED
    BY <1>5, <2>1 DEF UserInv, Following, Quiet, RestIsRight, UpToDate, Live, Handled,
                      GenGranted, Granted
<1>. QED
  BY <1>1, <1>2, <1>3, <1>4, <1>5

LEMMA EditedSpec ==
  ASSUME NEW u \in Users, NEW spec \in SUBSET Scopes
  PROVE  /\ [u EXCEPT !.spec = spec] \in Users
         /\ [u EXCEPT !.spec = spec].del = u.del /\ [u EXCEPT !.spec = spec].fin = u.fin
BY DEF Users

LEMMA NoUser ==
  \A u \in Users : u # None
BY NoneAssumption

\* A grant or a revocation.
LEMMA EditKeeps ==
  ASSUME UserInv, NEW spec \in SUBSET Scopes, UpdateUserSpec(spec),
         UNCHANGED <<seen, view, binder, cluster, informer, queue, worker, slip>>
  PROVE  UserInv'
<1>. DEFINE u == IF user = None THEN user ELSE [user EXCEPT !.spec = spec]
<1>1. user \in Users \cup {None}
  BY DEF UserInv, Known
<1>2. /\ u \in Users \cup {None} /\ (user = None => u = None)
      /\ user # None => u.del = user.del /\ u.fin = user.fin
  BY <1>1, EditedSpec
<1>3. Put(u)
  BY DEF UpdateUserSpec, Put, UserInv, Known
<1>. HIDE DEF u
<1>4. user # None /\ user.del => user.fin
  BY DEF UserInv, Ending
<1>5. UNCHANGED <<seen, binds, seenB, seenNs, nss, queue, worker, slip, view, binder>>
  BY DEF cluster, informer
<1>6. /\ user' \in Users \cup {None} /\ late' \in BOOLEAN
      /\ BindingsKnown' /\ Ending' /\ Following'
  BY <1>2, <1>3, <1>4, <1>5, UserPut
<1>7. Known'
  BY <1>5, <1>6 DEF UserInv, Known
<1>. QED
  BY <1>6, <1>7 DEF UserInv

LEMMA CreateBindsKeeps ==
  ASSUME UserInv, NEW s \in Scopes, CreateBinds(s)
  PROVE  UserInv'
<1>1. view \cup {s} \in SUBSET Scopes
  BY DEF CreateBinds, UserInv, Known
<1>. QED
  BY <1>1, EditKeeps DEF CreateBinds

LEMMA DeleteBindsKeeps ==
  ASSUME UserInv, NEW b \in binds, DeleteBinds(b)
  PROVE  UserInv'
<1>1. view \ {b.scope} \in SUBSET Scopes
  BY DEF DeleteBinds, UserInv, Known
<1>. QED
  BY <1>1, EditKeeps DEF DeleteBinds

LEMMA DeleteUserKeeps ==
  ASSUME UserInv, DeleteUser
  PROVE  UserInv'
<1>. DEFINE u == IF user.fin THEN [user EXCEPT !.del = TRUE] ELSE None
<1>1. user \in Users /\ ~user.del /\ Put(u)
  BY DEF DeleteUser, UserInv, Known
<1>2. u \in Users \cup {None} /\ (u # None => u.fin /\ u.del)
  BY <1>1 DEF Users
<1>. HIDE DEF u
<1>3. UNCHANGED <<seen, binds, seenB, seenNs, nss, queue, worker, slip, view, binder>>
  BY DEF DeleteUser, cluster, informer
<1>4. user # None
  BY <1>1, NoUser
<1>5. /\ user' \in Users \cup {None} /\ late' \in BOOLEAN
      /\ BindingsKnown' /\ Ending' /\ Following'
  BY <1>1, <1>2, <1>3, <1>4, UserPut
<1>6. Known'
  BY <1>3, <1>5 DEF UserInv, Known
<1>. QED
  BY <1>5, <1>6 DEF UserInv

\* The binding controllers edit the user when they have read it as it is.
LEMMA SyncUserOnCreateKeeps ==
  ASSUME UserInv, SyncUserOnCreate
  PROVE  UserInv'
<1>1. UNCHANGED <<seen, binds, seenB, seenNs, nss, queue, worker, slip, view>>
  BY DEF SyncUserOnCreate, cluster, informer
<1>2. CASE view = None
  <2>1. binder' = None /\ UNCHANGED <<user, late>>
    BY <1>2 DEF SyncUserOnCreate
  <2>2. Known'
    BY <1>1, <2>1 DEF UserInv, Known
  <2>. QED
    BY <1>1, <2>1, <2>2 DEF UserInv, BindingsKnown, Ending, Following, Quiet, RestIsRight,
                            UpToDate, Live, Handled, GenGranted, Granted
<1>3. CASE view # None
  <2>. DEFINE spec == view \cup {binder.scope}
              u == [user EXCEPT !.spec = spec]
  <2>1. view = Current /\ Put(u) /\ binder # None /\ binder' = [binder EXCEPT !.pc = "label"]
    BY <1>3 DEF SyncUserOnCreate
  <2>2. user # None /\ user \in Users
    BY <1>3, <2>1 DEF Current, UserInv, Known
  <2>3. spec \in SUBSET Scopes
    BY <1>3, <2>1, ScopeAssumption DEF UserInv, Known
  <2>4. u \in Users /\ u.del = user.del /\ u.fin = user.fin
    BY <2>2, <2>3, EditedSpec
  <2>. HIDE DEF u, spec
  <2>5. user.del => user.fin
    BY <2>2 DEF UserInv, Ending
  <2>6. /\ user' \in Users \cup {None} /\ late' \in BOOLEAN
        /\ BindingsKnown' /\ Ending' /\ Following'
    BY <1>1, <2>1, <2>2, <2>4, <2>5, UserPut
  <2>7. binder'.scope \in LegacyScopes
    BY <2>1 DEF UserInv, Known
  <2>8. Known'
    BY <1>1, <2>6, <2>7 DEF UserInv, Known
  <2>. QED
    BY <2>6, <2>8 DEF UserInv
<1>. QED
  BY <1>2, <1>3

-----------------------------------------------------------------------------
(* The cluster and the informers.                                          *)

\* Bindings that appear disturb nothing, as long as they are no orphans of a user that
\* lives and are not labelled when it does not.
LEMMA MoreBindings ==
  ASSUME UserInv, UNCHANGED <<user, late, seen, seenNs, queue, worker>>,
         Ids(binds) \subseteq Ids(binds'), slip => slip', slip' \in BOOLEAN,
         slip' \/ (Live => Orphans(binds', user.spec, user.status)
                             \subseteq Orphans(binds, user.spec, user.status)),
         slip' \/ (~Live => Labelled(binds') \subseteq Labelled(binds))
  PROVE  Ending' /\ Following'
<1>1. Ending'
  BY DEF UserInv, Ending, Live
<1>2. \A spec : Granted(spec) => Granted(spec)'
  BY DEF Granted
<1>3. GenGranted => GenGranted'
  BY DEF GenGranted
<1>4. UpToDate' = UpToDate /\ Quiet' = Quiet
  BY DEF UpToDate, Quiet, Live
<1>5. Handled => Handled'
  BY <1>2 DEF Handled
<1>6. RestIsRight'
  <2>. SUFFICES ASSUME Quiet, worker.pc = "idle", user # None
                PROVE  RestIsRight'
    BY DEF RestIsRight, Quiet
  <2>1. /\ ~user.del /\ Tells(user.status, user.spec) /\ Granted(user.spec) /\ GenGranted
        /\ slip \/ Orphans(binds, user.spec, user.status) = {}
    BY DEF UserInv, Following, RestIsRight, Quiet, Granted, GenGranted
  <2>2. slip' \/ Orphans(binds', user.spec, user.status) = {}
    BY <2>1 DEF Live
  <2>3. Granted(user.spec)' /\ GenGranted'
    BY <1>2, <1>3, <2>1
  <2>. QED
    BY <2>1, <2>2, <2>3 DEF RestIsRight, Granted, GenGranted
<1>7. ASSUME Quiet, worker.pc = "clean"
      PROVE  /\ Granted(user.spec)' /\ GenGranted'
             /\ slip' \/ Orphans(binds', user.spec, user.status) \subseteq worker.todo
  <2>1. /\ Granted(user.spec) /\ GenGranted /\ Live
        /\ slip \/ Orphans(binds, user.spec, user.status) \subseteq worker.todo
    BY <1>7 DEF UserInv, Following, UpToDate
  <2>. QED
    BY <1>2, <1>3, <2>1
<1>8. Following'
  BY <1>4, <1>5, <1>6, <1>7 DEF UserInv, Following
<1>. QED
  BY <1>1, <1>8

LEMMA LegacyBindingKeeps ==
  ASSUME UserInv, NEW s \in LegacyScopes, LegacyBinding(s)
  PROVE  UserInv'
<1>1. /\ binds' = binds \cup {Legacy(s, FALSE)} /\ binder' = [scope |-> s, pc |-> "user"]
      /\ UNCHANGED <<user, late, seen, view, nss, seenNs, seenB, queue, worker, slip>>
  BY DEF LegacyBinding, informer
<1>2. Legacy(s, FALSE).label = FALSE
  BY DEF Legacy
<1>3. Known' /\ slip \in BOOLEAN
  BY <1>1 DEF UserInv, Known
<1>4. IsBinding(Legacy(s, FALSE))
  BY DEF IsBinding
<1>5. BindingsKnown'
  BY <1>1, <1>4 DEF UserInv, BindingsKnown
<1>6. Ids(binds) \subseteq Ids(binds')
  BY <1>1 DEF Ids
<1>7. \A spec, status : Orphans(binds', spec, status) = Orphans(binds, spec, status)
  BY <1>1, <1>2 DEF Orphans
<1>8. Labelled(binds') = Labelled(binds)
  BY <1>1, <1>2 DEF Labelled
<1>9. Ending' /\ Following'
  BY <1>1, <1>3, <1>6, <1>7, <1>8, MoreBindings
<1>. QED
  BY <1>3, <1>5, <1>9 DEF UserInv

\* A legacy binding that is labelled for a scope the user has lost meanwhile is an orphan
\* that nobody looks for: slip records it.
LEMMA LabelBindingKeeps ==
  ASSUME UserInv, LabelBinding
  PROVE  UserInv'
<1>. DEFINE s == binder.scope
            old == Legacy(s, FALSE)
            new == Legacy(s, TRUE)
<1>1. /\ s \in LegacyScopes /\ binds' = Relabelled(binds, s)
      /\ slip' = (slip \/ (old \in binds /\ ~(user # None /\ ~user.del /\ s \in user.spec)))
      /\ binder' = None
      /\ UNCHANGED <<user, late, seen, view, nss, seenNs, seenB, queue, worker>>
  BY DEF LabelBinding, informer, UserInv, Known
<1>2. /\ old.id = new.id /\ old.label = FALSE /\ new.label = TRUE /\ new.scope = s
      /\ IsBinding(new)
  BY <1>1 DEF Legacy, IsBinding
<1>3. binds' = IF old \in binds THEN (binds \ {old}) \cup {new} ELSE binds
  BY <1>1 DEF Relabelled
<1>. HIDE DEF old, new, s
<1>4. Known' /\ slip \in BOOLEAN /\ slip' \in BOOLEAN
  BY <1>1 DEF UserInv, Known
<1>5. BindingsKnown'
  BY <1>1, <1>2, <1>3 DEF UserInv, BindingsKnown
<1>6. Ids(binds) \subseteq Ids(binds')
  <2>. SUFFICES ASSUME NEW b \in binds
                PROVE  \E x \in binds' : x.id = b.id
    BY DEF Ids
  <2>. QED
    BY <1>2, <1>3
<1>7. slip' \/ (Live => Orphans(binds', user.spec, user.status)
                          \subseteq Orphans(binds, user.spec, user.status))
  BY <1>1, <1>2, <1>3 DEF Orphans, Live
<1>8. slip' \/ (~Live => Labelled(binds') \subseteq Labelled(binds))
  BY <1>1, <1>2, <1>3 DEF Labelled, Live
<1>9. Ending' /\ Following'
  BY <1>1, <1>4, <1>6, <1>7, <1>8, MoreBindings
<1>. QED
  BY <1>4, <1>5, <1>9 DEF UserInv

\* What neither the worker nor the user is about.
LEMMA SameBindings ==
  ASSUME UserInv, UNCHANGED <<user, late, seen, seenNs, binds, queue, worker, slip>>
  PROVE  Ending' /\ Following'
<1>1. slip \in BOOLEAN
  BY DEF UserInv, Known
<1>. QED
  BY <1>1, MoreBindings

LEMMA NamespaceAddedKeeps ==
  ASSUME UserInv, NEW n \in Namespaces, NamespaceAdded(n)
  PROVE  UserInv'
<1>1. /\ nss' = nss \cup {n}
      /\ UNCHANGED <<user, late, seen, view, binder, seenNs, binds, seenB, queue, worker, slip>>
  BY DEF NamespaceAdded, pivot, informer
<1>2. Known' /\ BindingsKnown'
  BY <1>1 DEF UserInv, Known, BindingsKnown
<1>. QED
  BY <1>1, <1>2, SameBindings DEF UserInv

LEMMA DeliverBindingsKeeps ==
  ASSUME UserInv, DeliverBindings
  PROVE  UserInv'
<1>1. /\ seenB' = binds
      /\ UNCHANGED <<user, late, seen, view, binder, nss, seenNs, binds, queue, worker, slip>>
  BY DEF DeliverBindings, pivot, cluster
<1>2. Known' /\ BindingsKnown'
  BY <1>1 DEF UserInv, Known, BindingsKnown
<1>. QED
  BY <1>1, <1>2, SameBindings DEF UserInv

LEMMA DeliverPivotKeeps ==
  ASSUME UserInv, DeliverPivot
  PROVE  UserInv'
<1>1. /\ view' = Current
      /\ UNCHANGED <<user, late, seen, binder, nss, seenNs, binds, seenB, queue, worker, slip>>
  BY DEF DeliverPivot, cluster, informer
<1>2. Current \in (SUBSET Scopes) \cup {None}
  BY DEF Current, UserInv, Known, Users
<1>3. Known' /\ BindingsKnown'
  BY <1>1, <1>2 DEF UserInv, Known, BindingsKnown
<1>. QED
  BY <1>1, <1>3, SameBindings DEF UserInv

\* The event of the user starts the controller anew.
LEMMA DeliverWardenKeeps ==
  ASSUME UserInv, DeliverWarden
  PROVE  UserInv'
<1>1. /\ late' = FALSE /\ seen' = user /\ queue' = TRUE
      /\ UNCHANGED <<user, view, binder, nss, seenNs, binds, seenB, worker, slip>>
  BY DEF DeliverWarden, pivot, cluster, informer
<1>2. Known' /\ BindingsKnown'
  BY <1>1 DEF UserInv, Known, BindingsKnown
<1>3. Ending'
  BY <1>1 DEF UserInv, Ending
<1>4. Following'
  BY <1>1 DEF Following, Quiet, RestIsRight
<1>. QED
  BY <1>2, <1>3, <1>4 DEF UserInv

\* The event of a namespace starts it when the namespace concerns the user: otherwise
\* nothing is to be granted there (namespaceHandleFunc and toFindRelatedUsers).
LEMMA DeliverNamespaceKeeps ==
  ASSUME UserInv, NEW n \in Namespaces, DeliverNamespace(n)
  PROVE  UserInv'
<1>1. /\ seenNs' = seenNs \cup {n}
      /\ queue' = (queue \/ (n.tenant # None /\ n.project # None /\ RelatedUser(n)))
      /\ UNCHANGED <<user, late, seen, view, binder, nss, binds, seenB, worker, slip>>
  BY DEF DeliverNamespace, pivot, cluster
<1>2. Known' /\ BindingsKnown'
  BY <1>1 DEF UserInv, Known, BindingsKnown
<1>3. Ending'
  BY <1>1 DEF UserInv, Ending
<1>4. ASSUME Quiet', user # None, Tells(user.status, user.spec)
      PROVE  \A spec \in SUBSET user.spec : Granted(spec) => Granted(spec)'
  <2>1. Quiet /\ seen = user /\ ~(n.tenant # None /\ n.project # None /\ RelatedUser(n))
    BY <1>1, <1>4 DEF Quiet, UserInv, Following, Known
  <2>2. user.spec \in SUBSET Scopes
    BY <1>4 DEF UserInv, Known, Users
  <2>3. \A s \in user.spec : BindingsOf(s, Counted(seenNs \cup {n})) = BindingsOf(s, Counted(seenNs))
    BY <1>4, <2>1, <2>2, UnrelatedNamespace DEF RelatedUser
  <2>. QED
    BY <1>1, <2>3 DEF Granted
<1>5. Quiet' => Quiet
  BY <1>1 DEF Quiet, UserInv, Known
<1>6. UpToDate' = UpToDate /\ GenGranted' = GenGranted
  BY <1>1 DEF UpToDate, GenGranted, Live
<1>7. ASSUME Quiet', worker.pc \in {"bind", "gen"}, ~worker.err
      PROVE  Handled'
  <2>1. UpToDate /\ Handled
    BY <1>5, <1>7 DEF UserInv, Following
  <2>2. user # None /\ Tells(user.status, user.spec)
    BY <1>7, <2>1 DEF UpToDate, Live
  <2>3. user.spec \ worker.todo \in SUBSET user.spec /\ user.spec \in SUBSET user.spec
    OBVIOUS
  <2>. QED
    BY <1>1, <1>4, <1>7, <2>1, <2>2, <2>3 DEF Handled
<1>8. ASSUME Quiet', worker.pc = "clean"
      PROVE  Granted(user.spec)' /\ GenGranted'
  <2>1. UpToDate /\ Granted(user.spec) /\ GenGranted
    BY <1>5, <1>8 DEF UserInv, Following
  <2>2. user # None /\ Tells(user.status, user.spec)
    BY <1>8, <2>1 DEF UpToDate, Live
  <2>3. Granted(user.spec)'
    BY <1>1, <1>4, <1>8, <2>1, <2>2
  <2>. QED
    BY <1>6, <2>1, <2>3
<1>9. RestIsRight'
  <2>. SUFFICES ASSUME Quiet', worker.pc = "idle", user # None
                PROVE  RestIsRight'
    BY <1>1 DEF RestIsRight, Quiet
  <2>1. /\ ~user.del /\ Tells(user.status, user.spec) /\ Granted(user.spec) /\ GenGranted
        /\ slip \/ Orphans(binds, user.spec, user.status) = {}
    BY <1>5 DEF UserInv, Following, RestIsRight, Quiet, Granted, GenGranted
  <2>2. Granted(user.spec)'
    BY <1>1, <1>4, <2>1
  <2>. QED
    BY <1>1, <2>1, <2>2 DEF RestIsRight, Granted, GenGranted
<1>10. Following'
  BY <1>1, <1>5, <1>6, <1>7, <1>8, <1>9 DEF UserInv, Following
<1>. QED
  BY <1>2, <1>3, <1>10 DEF UserInv

-----------------------------------------------------------------------------
(* The user controller.                                                    *)

LEMMA RestIsWork ==
  IsWork(AtRest) /\ AtRest.pc = "idle" /\ NoStatus \in Statuses
<1>1. NoStatus \in Statuses
  BY DEF Statuses
<1>. QED
  BY <1>1 DEF AtRest, IsWork, Steps

\* A reconciliation that ends with an error starts again.
LEMMA RequeueKeeps ==
  ASSUME UserInv, Requeue, user' = user, UNCHANGED <<late, seen, seenB>>,
         \A b \in binds' : IsBinding(b)
  PROVE  BindingsKnown' /\ Ending' /\ Following' /\ IsWork(worker')
<1>1. queue' = TRUE /\ worker' = AtRest
  BY DEF Requeue
<1>2. BindingsKnown'
  BY <1>1, RestIsWork DEF BindingsKnown, UserInv
<1>3. Ending'
  BY <1>1, RestIsWork DEF Ending, UserInv
<1>4. Following'
  BY <1>1 DEF Following, Quiet, RestIsRight, UserInv
<1>. QED
  BY <1>1, <1>2, <1>3, <1>4, RestIsWork

\* A reconciliation starts on the user the informer has.
LEMMA ReconcileKeeps ==
  ASSUME UserInv, Reconcile
  PROVE  UserInv'
<1>1. /\ worker.pc = "idle" /\ queue
      /\ UNCHANGED <<seen, view, binder, nss, binds, seenNs, seenB>>
  BY DEF Reconcile, pivot, cluster, informer
<1>2. CASE /\ ~(seen # None /\ (seen.del => seen.fin))
           /\ queue' = FALSE /\ UNCHANGED <<user, late, worker, slip>>
  <2>1. Known' /\ BindingsKnown' /\ Ending'
    BY <1>1, <1>2 DEF UserInv, Known, BindingsKnown, Ending
  <2>2. ~late => user = None
    BY <1>2 DEF UserInv, Following, Ending
  <2>3. RestIsRight'
    BY <1>2, <2>2 DEF RestIsRight
  <2>4. Following'
    BY <1>1, <1>2, <2>3 DEF UserInv, Following
  <2>. QED
    BY <2>1, <2>4 DEF UserInv
<1>3. CASE /\ seen # None /\ seen.del /\ queue' = FALSE
           /\ worker' = [AtRest EXCEPT !.pc = "gc", !.todo = Labelled(seenB)]
           /\ slip' = (slip \/ ~(Labelled(binds) \subseteq seenB))
           /\ UNCHANGED <<user, late>>
  <2>1. worker'.pc = "gc" /\ worker'.todo = Labelled(seenB) /\ IsWork(worker')
    BY <1>3, RestIsWork DEF AtRest, IsWork, Steps
  <2>2. Known' /\ BindingsKnown'
    BY <1>1, <1>3, <2>1 DEF UserInv, Known, BindingsKnown
  <2>3. slip' \/ Labelled(binds') \subseteq worker'.todo
    BY <1>1, <1>3, <2>1 DEF Labelled
  <2>4. Ending'
    BY <1>1, <1>3, <2>1, <2>3 DEF UserInv, Ending
  <2>5. Following'
    BY <1>1, <1>3, <2>1 DEF UserInv, Following, RestIsRight
  <2>. QED
    BY <2>2, <2>4, <2>5 DEF UserInv
<1>4. ASSUME seen # None, ~seen.del, seen.fin \/ Fresh, queue' = FALSE, slip' = slip,
             IF seen.fin THEN UNCHANGED <<user, late>> ELSE Put([user EXCEPT !.fin = TRUE]),
             NEW known \in SUBSET ProjectsIn(seen.spec),
             worker' = [AtRest EXCEPT !.pc = "status", !.spec = seen.spec,
                                      !.status = RefreshUserStatus(seen.spec, known)]
      PROVE  UserInv'
  <2>1. seen \in Users /\ user \in Users \cup {None} /\ late \in BOOLEAN
    BY <1>4 DEF UserInv, Known
  <2>2. seen.spec \in SUBSET Scopes
    BY <2>1 DEF Users
  <2>3. RefreshUserStatus(seen.spec, known) \in Statuses
    BY <1>4, <2>2, RefreshIsStatus
  <2>4. /\ worker'.pc = "status" /\ worker'.spec = seen.spec /\ IsWork(worker')
        /\ worker'.status = RefreshUserStatus(seen.spec, known)
    BY <1>4, <2>2, <2>3 DEF AtRest, IsWork, Steps
  <2>5. Tells(worker'.status, seen.spec)
    BY <2>4, RefreshTells
  <2>6. ASSUME ~seen.fin
        PROVE  /\ user = seen /\ ~late /\ user' = [user EXCEPT !.fin = TRUE]
               /\ late' = (user' # user)
    BY <1>4, <2>6 DEF Put, Fresh, UserInv, Following
  <2>7. /\ user' \in Users \cup {None} /\ late' \in BOOLEAN
        /\ user' = None <=> user = None
        /\ user' # None => user'.del = user.del
        /\ user' # None /\ user'.del => user'.fin
        /\ ~late' => user' = seen /\ user = user'
    <3>1. CASE seen.fin
      BY <1>4, <2>1, <3>1 DEF UserInv, Ending, Following
    <3>2. CASE ~seen.fin
      <4>1. [seen EXCEPT !.fin = TRUE] \in Users
        BY <2>1 DEF Users
      <4>2. [seen EXCEPT !.fin = TRUE].del = seen.del /\ [seen EXCEPT !.fin = TRUE].fin = TRUE
        BY <2>1 DEF Users
      <4>. QED
        BY <1>4, <2>6, <3>2, <4>1, <4>2, NoUser
    <3>. QED
      BY <3>1, <3>2
  <2>8. Known' /\ BindingsKnown'
    BY <1>1, <1>4, <2>4, <2>7 DEF UserInv, Known, BindingsKnown
  <2>9. Ending'
    BY <1>1, <1>4, <2>4, <2>7 DEF UserInv, Ending
  <2>10. Quiet' => UpToDate'
    BY <1>4, <2>4, <2>5, <2>7 DEF UpToDate, Live, Quiet
  <2>11. RestIsRight'
    BY <2>4 DEF RestIsRight
  <2>12. Following'
    BY <1>1, <2>4, <2>7, <2>10, <2>11 DEF Following
  <2>. QED
    BY <2>8, <2>9, <2>12 DEF UserInv
<1>. QED
  BY <1>1, <1>2, <1>3, <1>4 DEF Reconcile

\* The status is written on the version the informer has.
LEMMA UpdateUserStatusKeeps ==
  ASSUME UserInv, UpdateUserStatus
  PROVE  UserInv'
<1>1. /\ worker.pc = "status"
      /\ UNCHANGED <<seen, view, binder, nss, binds, seenNs, seenB, slip>>
  BY DEF UpdateUserStatus, pivot, cluster, informer
<1>2. CASE Requeue /\ UNCHANGED <<user, late>>
  <2>1. BindingsKnown' /\ Ending' /\ Following' /\ IsWork(worker')
    BY <1>1, <1>2, RequeueKeeps DEF UserInv, BindingsKnown
  <2>2. Known'
    BY <1>1, <1>2, <2>1 DEF Requeue, UserInv, Known
  <2>. QED
    BY <2>1, <2>2 DEF UserInv
<1>3. CASE /\ Fresh /\ user # None /\ Put([user EXCEPT !.status = worker.status])
           /\ worker' = [worker EXCEPT !.pc = "bind", !.todo = worker.spec]
           /\ UNCHANGED queue
  <2>1. user \in Users /\ ~late /\ IsWork(worker)
    BY <1>3 DEF UserInv, Known, Fresh
  <2>2. /\ worker'.pc = "bind" /\ worker'.todo = worker.spec /\ worker'.spec = worker.spec
        /\ worker'.status = worker.status /\ worker'.err = worker.err /\ IsWork(worker')
    BY <1>3, <2>1 DEF IsWork, Steps
  <2>3. /\ user' \in Users /\ user'.status = worker.status
        /\ user'.del = user.del /\ user'.fin = user.fin /\ user'.spec = user.spec
    BY <1>3, <2>1 DEF Put, Users, IsWork
  <2>4. late' \in BOOLEAN /\ (~late' => user' = user)
    BY <1>3, <2>1 DEF Put
  <2>5. user' # None
    BY <2>3, NoUser
  <2>6. Known' /\ BindingsKnown'
    BY <1>1, <1>3, <2>2, <2>3, <2>4 DEF UserInv, Known, BindingsKnown
  <2>7. Ending'
    BY <1>1, <1>3, <2>2, <2>3 DEF UserInv, Ending
  <2>8. Quiet' => UpToDate'
    <3>. SUFFICES ASSUME Quiet'
                  PROVE  UpToDate'
      OBVIOUS
    <3>1. Quiet
      BY <1>3, <2>1 DEF Quiet
    <3>2. Live /\ worker.spec = user.spec /\ Tells(worker.status, user.spec)
      BY <1>1, <3>1 DEF UserInv, Following, UpToDate
    <3>. QED
      BY <2>2, <2>3, <2>5, <3>2 DEF UpToDate, Live
  <2>9. Quiet' => Handled'
    <3>. SUFFICES ASSUME Quiet'
                  PROVE  Handled'
      OBVIOUS
    <3>1. user'.spec \ worker'.todo = {}
      BY <2>2, <2>8 DEF UpToDate
    <3>. QED
      BY <2>2, <3>1 DEF Handled, Granted
  <2>10. RestIsRight' /\ (~late' => seen' = user')
    BY <1>1, <2>1, <2>2, <2>4 DEF RestIsRight, UserInv, Following
  <2>11. Following'
    BY <2>2, <2>8, <2>9, <2>10 DEF Following
  <2>. QED
    BY <2>6, <2>7, <2>11 DEF UserInv
<1>. QED
  BY <1>2, <1>3 DEF UpdateUserStatus

\* What the controller creates are bindings of scopes, and those of a member.
LEMMA CreatedAreBindings ==
  ASSUME NEW found, \A b \in found : IsBinding(b), NEW new,
         \/ \E s \in Scopes : \E known \in SUBSET Namespaces : new \subseteq BindingsOf(s, known)
         \/ \E spec \in SUBSET Scopes : new = GenBindingsOf(spec)
  PROVE  \A b \in Created(found, new) : IsBinding(b)
<1>1. ASSUME NEW s \in Scopes, NEW known \in SUBSET Namespaces,
             new \subseteq BindingsOf(s, known), NEW b \in new
      PROVE  IsBinding(b)
  <2>1. b \in BindingsOf(s, Namespaces)
    BY <1>1, MoreNamespaces
  <2>. QED
    BY <2>1 DEF IsBinding
<1>2. ASSUME NEW spec \in SUBSET Scopes, new = GenBindingsOf(spec), NEW b \in new
      PROVE  IsBinding(b)
  <2>1. \A s \in spec : s.type \in Types
    BY ScopeAssumption
  <2>2. PICK type \in Types : b = GenBinding(type)
    BY <1>2, <2>1 DEF GenBindingsOf
  <2>. QED
    BY <2>2 DEF IsBinding
<1>. QED
  BY <1>1, <1>2, CreatedNames

LEMMA RefreshBindingsKeeps ==
  ASSUME UserInv, NEW s \in Scopes, RefreshBindings(s)
  PROVE  UserInv'
<1>. DEFINE new == BindingsOf(s, seenNs)
            rest == worker.todo \ {s}
<1>1. /\ worker.pc = "bind" /\ s \in worker.todo
      /\ UNCHANGED <<user, late, seen, view, binder, nss, seenNs, seenB, queue, slip>>
  BY DEF RefreshBindings, pivot, informer
<1>2. PICK err \in BOOLEAN :
         /\ worker' = [worker EXCEPT !.pc = IF rest = {} THEN "gen" ELSE "bind",
                                     !.todo = rest, !.err = err]
         /\ \/ err = worker.err /\ binds' = Created(binds, new)
            \/ err = TRUE /\ \E b \in new : binds' = Created(binds, new \ {b})
  <2>1. worker.err \in BOOLEAN
    BY DEF UserInv, Known, IsWork
  <2>. QED
    BY <2>1 DEF RefreshBindings
<1>3. /\ worker'.pc = (IF rest = {} THEN "gen" ELSE "bind") /\ worker'.todo = rest
      /\ worker'.err = err /\ worker'.spec = worker.spec /\ worker'.status = worker.status
      /\ IsWork(worker')
  BY <1>2 DEF UserInv, Known, IsWork, Steps
<1>4. worker'.pc \in {"gen", "bind"}
  BY <1>3
<1>5. Known'
  BY <1>1, <1>3 DEF UserInv, Known
<1>6. \A b \in binds' : IsBinding(b)
  <2>1. \A part \in SUBSET new : \A b \in Created(binds, part) : IsBinding(b)
    BY CreatedAreBindings DEF UserInv, Known, BindingsKnown
  <2>2. PICK part \in SUBSET new : binds' = Created(binds, part)
    BY <1>2
  <2>. QED
    BY <2>1, <2>2
<1>7. BindingsKnown' /\ Ending'
  BY <1>1, <1>4, <1>6 DEF UserInv, BindingsKnown, Ending
<1>8. Quiet' => Quiet /\ UpToDate'
  BY <1>1, <1>3, <1>4 DEF UserInv, Following, Quiet, UpToDate, Live
<1>9. ASSUME Quiet', ~worker'.err
      PROVE  Handled'
  <2>1. ~worker.err /\ binds' = Created(binds, new)
    BY <1>2, <1>3, <1>9
  <2>2. Granted(user.spec \ worker.todo)
    BY <1>1, <1>8, <1>9, <2>1 DEF UserInv, Following, Handled
  <2>3. Ids(binds) \subseteq Ids(binds') /\ Ids(new) \subseteq Ids(binds')
    BY <2>1, CreatedNames
  <2>4. Ids(BindingsOf(s, Counted(seenNs))) \subseteq Ids(new)
    <3>1. Counted(seenNs) \subseteq seenNs
      BY DEF Counted
    <3>. QED
      BY <3>1, MoreNamespaces DEF Ids
  <2>5. \A t \in user.spec \ rest : t = s \/ t \in user.spec \ worker.todo
    OBVIOUS
  <2>6. \A t \in user.spec \ rest : Alone(t) => Ids(BindingsOf(t, Counted(seenNs))) \subseteq Ids(binds')
    BY <2>2, <2>3, <2>4, <2>5 DEF Granted
  <2>7. rest = {} => user.spec \ rest = user.spec
    OBVIOUS
  <2>. HIDE DEF rest, new
  <2>. QED
    BY <1>1, <1>3, <2>6, <2>7 DEF Handled, Granted
<1>10. RestIsRight' /\ (~late' => seen' = user')
  BY <1>1, <1>4 DEF RestIsRight, UserInv, Following
<1>11. Following'
  BY <1>4, <1>8, <1>9, <1>10 DEF Following
<1>. QED
  BY <1>5, <1>7, <1>11 DEF UserInv

LEMMA GenerateBindingsKeeps ==
  ASSUME UserInv, GenerateBindings
  PROVE  UserInv'
<1>1. /\ worker.pc = "gen" \/ (worker.pc = "bind" /\ worker.todo = {})
      /\ binds' = Created(binds, GenBindingsOf(worker.spec))
      /\ UNCHANGED <<user, late, seen, view, binder, nss, seenNs, seenB>>
  BY DEF GenerateBindings, pivot, informer
<1>2. IsWork(worker) /\ slip \in BOOLEAN
  BY DEF UserInv, Known
<1>3. \A b \in binds' : IsBinding(b)
  BY <1>1, <1>2, CreatedAreBindings DEF UserInv, BindingsKnown, IsWork
<1>4. CASE Requeue /\ UNCHANGED slip
  <2>1. BindingsKnown' /\ Ending' /\ Following' /\ IsWork(worker')
    BY <1>1, <1>3, <1>4, RequeueKeeps
  <2>2. Known'
    BY <1>1, <1>4, <2>1 DEF Requeue, UserInv, Known
  <2>. QED
    BY <2>1, <2>2 DEF UserInv
<1>5. CASE /\ ~worker.err /\ worker' = [worker EXCEPT !.pc = "clean", !.todo = Clean]
           /\ slip' = (slip \/ Missed(worker.spec, worker.status))
           /\ UNCHANGED queue
  <2>1. /\ worker'.pc = "clean" /\ worker'.todo = Clean /\ worker'.spec = worker.spec
        /\ worker'.status = worker.status /\ IsWork(worker')
    BY <1>2, <1>5 DEF IsWork, Steps
  <2>2. Known'
    BY <1>1, <1>2, <1>5, <2>1 DEF UserInv, Known
  <2>3. \A b \in Clean : Deletable(b, worker.spec, worker.status)
    BY OrphanOf DEF Clean, Deletable, UserInv, BindingsKnown
  <2>4. BindingsKnown' /\ Ending'
    BY <1>1, <1>3, <2>1, <2>3 DEF UserInv, BindingsKnown, Ending
  <2>5. ASSUME Quiet'
        PROVE  /\ UpToDate' /\ Granted(user.spec)' /\ GenGranted'
               /\ slip' \/ Orphans(binds', user'.spec, user'.status) \subseteq worker'.todo
    <3>1. Quiet /\ UpToDate /\ Handled
      BY <1>1, <1>5, <2>5 DEF Quiet, UserInv, Following
    <3>2. /\ Live /\ worker.spec = user.spec /\ user.status = worker.status
          /\ Tells(user.status, user.spec)
      BY <1>1, <3>1 DEF UpToDate
    <3>3. UpToDate'
      BY <1>1, <2>1, <3>1, <3>2 DEF UpToDate, Live
    <3>4. Granted(user.spec)
      <4>1. worker.pc = "bind" => user.spec \ worker.todo = user.spec
        BY <1>1
      <4>. QED
        BY <3>1, <4>1 DEF Handled
    <3>5. Granted(user.spec)' /\ GenGranted'
      BY <1>1, <3>2, <3>4, CreatedNames DEF Granted, GenGranted
    <3>6. ASSUME ~slip', NEW b \in Orphans(binds', user.spec, user.status)
          PROVE  b \in Clean
      <4>1. b \in binds \/ b \in GenBindingsOf(user.spec)
        BY <1>1, <3>2, CreatedNames DEF Orphans
      <4>2. CASE b \in binds
        <5>1. b \in Orphans(binds, worker.spec, worker.status)
          BY <3>2, <3>6, <4>2 DEF Orphans
        <5>2. ~Missed(worker.spec, worker.status)
          BY <1>2, <1>5, <3>6
        <5>. QED
          BY <5>1, <5>2 DEF Missed, Clean
      <4>3. CASE b \in GenBindingsOf(user.spec)
        <5>1. user.spec \in SUBSET Scopes
          BY <1>2, <3>2 DEF IsWork
        <5>2. GenBindingsOf(user.spec) # {} /\ \E type : b = GenBinding(type)
          BY <4>3 DEF GenBindingsOf
        <5>3. Member(user.status)
          BY <3>2, <5>1, <5>2, MemberOf
        <5>4. b.id.kind = "gen"
          BY <5>2, Kinds
        <5>. QED
          BY <3>6, <5>3, <5>4 DEF Orphans
      <4>. QED
        BY <4>1, <4>2, <4>3
    <3>. QED
      BY <1>1, <2>1, <3>3, <3>5, <3>6
  <2>6. RestIsRight' /\ (~late' => seen' = user')
    BY <1>1, <2>1 DEF RestIsRight, UserInv, Following
  <2>7. Following'
    BY <2>1, <2>5, <2>6 DEF Following
  <2>. QED
    BY <2>2, <2>4, <2>7 DEF UserInv
<1>. QED
  BY <1>4, <1>5 DEF GenerateBindings

\* A binding that is cleaned up is not one the user needs; one whose deletion fails is
\* recorded in slip.
LEMMA CleanOrphanKeeps ==
  ASSUME UserInv, NEW b \in worker.todo, CleanOrphan(b)
  PROVE  UserInv'
<1>1. /\ worker.pc = "clean"
      /\ UNCHANGED <<user, late, seen, view, binder, nss, seenNs, seenB>>
  BY DEF CleanOrphan, pivot, informer
<1>2. Deletable(b, worker.spec, worker.status)
  BY <1>1 DEF UserInv, BindingsKnown
<1>3. CASE Requeue /\ UNCHANGED <<binds, slip>>
  <2>1. BindingsKnown' /\ Ending' /\ Following' /\ IsWork(worker')
    BY <1>1, <1>3, RequeueKeeps DEF UserInv, BindingsKnown
  <2>2. Known'
    BY <1>1, <1>3, <2>1 DEF Requeue, UserInv, Known
  <2>. QED
    BY <2>1, <2>2 DEF UserInv
<1>4. CASE /\ worker' = [worker EXCEPT !.todo = @ \ {b}] /\ UNCHANGED queue
           /\ \/ binds' = Dropped(binds, b) /\ UNCHANGED slip
              \/ slip' = TRUE /\ UNCHANGED binds
  <2>1. /\ worker'.pc = "clean" /\ worker'.todo = worker.todo \ {b}
        /\ worker'.spec = worker.spec /\ worker'.status = worker.status /\ IsWork(worker')
    BY <1>1, <1>4 DEF UserInv, Known, IsWork
  <2>2. Known'
    BY <1>1, <1>4, <2>1 DEF UserInv, Known
  <2>3. binds' \subseteq binds
    BY <1>4 DEF Dropped
  <2>4. BindingsKnown' /\ Ending'
    BY <1>1, <1>4, <2>1, <2>3 DEF UserInv, BindingsKnown, Ending
  <2>5. \A i \in Ids(binds) : i # b.id => i \in Ids(binds')
    BY <1>4, DroppedName
  <2>6. ASSUME Quiet'
        PROVE  /\ UpToDate' /\ Granted(user.spec)' /\ GenGranted'
               /\ slip' \/ Orphans(binds', user'.spec, user'.status) \subseteq worker'.todo
    <3>1. /\ Quiet /\ UpToDate /\ Granted(user.spec) /\ GenGranted
          /\ slip \/ Orphans(binds, user.spec, user.status) \subseteq worker.todo
      BY <1>1, <1>4, <2>6 DEF Quiet, UserInv, Following
    <3>2. UpToDate'
      BY <1>1, <2>1, <3>1 DEF UpToDate, Live
    <3>3. /\ worker.spec = user.spec /\ Tells(worker.status, user.spec)
          /\ user.spec \in SUBSET Scopes /\ Counted(seenNs) \in SUBSET Namespaces
      BY <3>1 DEF UpToDate, UserInv, Known, IsWork, Counted
    <3>4. /\ \A s \in user.spec : Alone(s) => b.id \notin Ids(BindingsOf(s, Counted(seenNs)))
          /\ b.id \notin Ids(GenBindingsOf(user.spec))
      BY <1>2, <3>3, OrphansAreSpared
    <3>5. Granted(user.spec)'
      <4>. SUFFICES ASSUME NEW s \in user.spec, Alone(s),
                           NEW i \in Ids(BindingsOf(s, Counted(seenNs)))
                    PROVE  i \in Ids(binds')
        BY <1>1 DEF Granted
      <4>. QED
        BY <2>5, <3>1, <3>4 DEF Granted
    <3>6. GenGranted'
      <4>. SUFFICES ASSUME NEW i \in Ids(GenBindingsOf(user.spec))
                    PROVE  i \in Ids(binds')
        BY <1>1 DEF GenGranted
      <4>. QED
        BY <2>5, <3>1, <3>4 DEF GenGranted
    <3>7. slip' \/ Orphans(binds', user.spec, user.status) \subseteq worker'.todo
      BY <1>4, <2>1, <3>1 DEF Orphans, Dropped
    <3>. QED
      BY <1>1, <3>2, <3>5, <3>6, <3>7
  <2>7. RestIsRight' /\ (~late' => seen' = user')
    BY <1>1, <2>1 DEF RestIsRight, UserInv, Following
  <2>8. Following'
    BY <2>1, <2>6, <2>7 DEF Following
  <2>. QED
    BY <2>2, <2>4, <2>8 DEF UserInv
<1>. QED
  BY <1>3, <1>4 DEF CleanOrphan

\* What was made good stays so when the reconciliation ends.
LEMMA SyncedKeeps ==
  ASSUME UserInv, Synced
  PROVE  UserInv'
<1>1. /\ worker.pc = "clean" /\ worker.todo = {} /\ worker' = AtRest
      /\ UNCHANGED <<user, late, seen, view, binder, nss, seenNs, binds, seenB, queue, slip>>
  BY DEF Synced, Finish, pivot, cluster, informer
<1>2. worker'.pc = "idle" /\ IsWork(worker')
  BY <1>1, RestIsWork
<1>3. Known' /\ BindingsKnown' /\ Ending'
  BY <1>1, <1>2 DEF UserInv, Known, BindingsKnown, Ending
<1>4. RestIsRight'
  <2>. SUFFICES ASSUME Quiet
                PROVE  RestIsRight'
    BY <1>1 DEF RestIsRight, Quiet
  <2>1. /\ UpToDate /\ Granted(user.spec) /\ GenGranted
        /\ slip \/ Orphans(binds, user.spec, user.status) \subseteq worker.todo
    BY <1>1 DEF UserInv, Following
  <2>2. ~user.del /\ Tells(user.status, user.spec)
    BY <1>1, <2>1 DEF UpToDate, Live
  <2>. QED
    BY <1>1, <2>1, <2>2 DEF RestIsRight, Granted, GenGranted
<1>5. Following'
  BY <1>1, <1>2, <1>4 DEF UserInv, Following
<1>. QED
  BY <1>3, <1>5 DEF UserInv

LEMMA BindingsGcKeeps ==
  ASSUME UserInv, NEW b \in worker.todo, BindingsGc(b)
  PROVE  UserInv'
<1>1. /\ worker.pc = "gc"
      /\ UNCHANGED <<user, late, seen, view, binder, nss, seenNs, seenB, slip>>
  BY DEF BindingsGc, pivot, informer
<1>2. CASE Requeue /\ UNCHANGED binds
  <2>1. BindingsKnown' /\ Ending' /\ Following' /\ IsWork(worker')
    BY <1>1, <1>2, RequeueKeeps DEF UserInv, BindingsKnown
  <2>2. Known'
    BY <1>1, <1>2, <2>1 DEF Requeue, UserInv, Known
  <2>. QED
    BY <2>1, <2>2 DEF UserInv
<1>3. CASE /\ worker' = [worker EXCEPT !.todo = @ \ {b}] /\ UNCHANGED queue
           /\ binds' = Dropped(binds, b)
  <2>1. worker'.pc = "gc" /\ worker'.todo = worker.todo \ {b} /\ IsWork(worker')
    BY <1>1, <1>3 DEF UserInv, Known, IsWork
  <2>2. Known'
    BY <1>1, <1>3, <2>1 DEF UserInv, Known
  <2>3. BindingsKnown'
    BY <1>1, <1>3, <2>1 DEF UserInv, BindingsKnown, Dropped
  <2>4. slip \/ Labelled(binds') \subseteq worker'.todo
    BY <1>1, <1>3, <2>1 DEF UserInv, Ending, Labelled, Dropped
  <2>5. Ending'
    BY <1>1, <2>1, <2>4 DEF UserInv, Ending
  <2>6. Following'
    BY <1>1, <2>1 DEF UserInv, Following, RestIsRight
  <2>. QED
    BY <2>2, <2>3, <2>5, <2>6 DEF UserInv
<1>. QED
  BY <1>2, <1>3 DEF BindingsGc

\* The user goes when all that was listed is gone.
LEMMA RemoveFinalizerKeeps ==
  ASSUME UserInv, RemoveFinalizer
  PROVE  UserInv'
<1>1. /\ worker.pc = "gc" /\ worker.todo = {}
      /\ UNCHANGED <<seen, view, binder, nss, seenNs, binds, seenB, slip>>
  BY DEF RemoveFinalizer, pivot, cluster, informer
<1>2. CASE Requeue /\ UNCHANGED <<user, late>>
  <2>1. BindingsKnown' /\ Ending' /\ Following' /\ IsWork(worker')
    BY <1>1, <1>2, RequeueKeeps DEF UserInv, BindingsKnown
  <2>2. Known'
    BY <1>1, <1>2, <2>1 DEF Requeue, UserInv, Known
  <2>. QED
    BY <2>1, <2>2 DEF UserInv
<1>3. CASE /\ user # None /\ Put(IF user.del THEN None ELSE [user EXCEPT !.fin = FALSE])
           /\ Finish
  <2>1. user.del
    BY <1>1, <1>3 DEF UserInv, Ending
  <2>2. user' = None /\ late' = TRUE /\ worker' = AtRest /\ queue' = queue
    BY <1>3, <2>1 DEF Put, Finish
  <2>3. worker'.pc = "idle" /\ IsWork(worker')
    BY <2>2, RestIsWork
  <2>4. Known' /\ BindingsKnown' /\ Ending'
    BY <1>1, <2>2, <2>3 DEF UserInv, Known, BindingsKnown, Ending
  <2>5. Following'
    BY <2>2 DEF Following, Quiet, RestIsRight
  <2>. QED
    BY <2>4, <2>5 DEF UserInv
<1>. QED
  BY <1>2, <1>3 DEF RemoveFinalizer

-----------------------------------------------------------------------------
(* The theorems.                                                           *)

LEMMA UserStart == Init => UserInv
<1>. SUFFICES ASSUME Init
              PROVE  UserInv
  OBVIOUS
<1>. DEFINE u == [spec |-> {}, status |-> NoStatus, fin |-> FALSE, del |-> FALSE]
<1>1. /\ user = u /\ seen = u /\ late = FALSE /\ view = {} /\ nss = {} /\ seenNs = {}
      /\ binds = {} /\ seenB = {} /\ queue = TRUE /\ worker = AtRest /\ binder = None
      /\ slip = FALSE
  BY DEF Init
<1>2. u \in Users /\ u.del = FALSE
  BY RestIsWork DEF Users
<1>. HIDE DEF u
<1>3. Known /\ BindingsKnown
  BY <1>1, <1>2, RestIsWork DEF Known, BindingsKnown
<1>4. Ending /\ Following
  BY <1>1, <1>2, RestIsWork DEF Ending, Following, Quiet, RestIsRight
<1>. QED
  BY <1>3, <1>4 DEF UserInv

LEMMA UserStep ==
  ASSUME UserInv, [Next]_vars
  PROVE  UserInv'
<1>1. CASE ReconcileStep
  BY <1>1, ReconcileKeeps, UpdateUserStatusKeeps, GenerateBindingsKeeps, SyncedKeeps,
     RemoveFinalizerKeeps, RefreshBindingsKeeps, CleanOrphanKeeps, BindingsGcKeeps
     DEF ReconcileStep
<1>2. CASE InformerStep
  BY <1>2, DeliverWardenKeeps, DeliverPivotKeeps, DeliverBindingsKeeps, DeliverNamespaceKeeps
     DEF InformerStep
<1>3. CASE PivotStep
  BY <1>3, SyncUserOnCreateKeeps, LabelBindingKeeps DEF PivotStep
<1>4. CASE RequestStep
  BY <1>4, CreateBindsKeeps, DeleteBindsKeeps, DeleteUserKeeps, LegacyBindingKeeps,
     NamespaceAddedKeeps DEF RequestStep
<1>5. CASE UNCHANGED vars
  <2>1. UNCHANGED <<user, late, seen, view, binder, nss, seenNs, binds, seenB, queue, worker, slip>>
    BY <1>5 DEF vars, pivot, cluster, informer
  <2>2. Known' /\ BindingsKnown'
    BY <2>1 DEF UserInv, Known, BindingsKnown
  <2>. QED
    BY <2>1, <2>2, SameBindings DEF UserInv
<1>. QED
  BY <1>1, <1>2, <1>3, <1>4, <1>5 DEF Next

\* When the controller has caught up with a user that is left alone, the user has its
\* bindings and no others (the reconciliation of the user controller).
THEOREM UserIsServed == Spec => []RestIsRight
<1>1. UserInv => RestIsRight
  BY DEF UserInv, Following
<1>. QED
  BY <1>1, UserStart, UserStep, PTL DEF Spec

\* Only the removal of the finalizer makes a user go that is being deleted, and it comes
\* after the deletion of all labelled bindings (bindingsGc, removeFinalizer).
LEMMA GoneStep ==
  ASSUME UserInv, Next
  PROVE  user # None /\ user.del /\ user' = None => slip \/ Labelled(binds) = {}
<1>. SUFFICES ASSUME user # None, user.del, user' = None
              PROVE  slip \/ Labelled(binds) = {}
  OBVIOUS
<1>1. user \in Users
  BY DEF UserInv, Known
<1>2. CASE RemoveFinalizer
  BY <1>2 DEF RemoveFinalizer, UserInv, Ending
<1>3. ASSUME NEW u \in Users, Put(u)
      PROVE  FALSE
  BY <1>3, NoUser DEF Put
<1>4. user' # user
  OBVIOUS
<1>5. CASE Reconcile
  <2>1. PICK fin \in BOOLEAN : Put([user EXCEPT !.fin = fin])
    BY <1>4, <1>5 DEF Reconcile
  <2>2. [user EXCEPT !.fin = fin] \in Users
    BY <1>1 DEF Users
  <2>. QED
    BY <1>3, <2>1, <2>2
<1>6. CASE UpdateUserStatus
  <2>1. Put([user EXCEPT !.status = worker.status])
    BY <1>4, <1>6 DEF UpdateUserStatus
  <2>2. [user EXCEPT !.status = worker.status] \in Users
    BY <1>1 DEF Users, UserInv, Known, IsWork
  <2>. QED
    BY <1>3, <2>1, <2>2
<1>7. ASSUME NEW spec \in SUBSET Scopes, UpdateUserSpec(spec)
      PROVE  FALSE
  BY <1>1, <1>3, <1>7, EditedSpec DEF UpdateUserSpec
<1>8. CASE SyncUserOnCreate
  <2>1. /\ view # None /\ binder.scope \in Scopes
        /\ Put([user EXCEPT !.spec = view \cup {binder.scope}])
    BY <1>4, <1>8, ScopeAssumption DEF SyncUserOnCreate, UserInv, Known
  <2>2. view \cup {binder.scope} \in SUBSET Scopes
    BY <2>1 DEF UserInv, Known
  <2>. QED
    BY <1>1, <1>3, <2>1, <2>2, EditedSpec
<1>9. ASSUME NEW s \in Scopes, CreateBinds(s)
      PROVE  FALSE
  <2>1. view \cup {s} \in SUBSET Scopes /\ UpdateUserSpec(view \cup {s})
    BY <1>9 DEF CreateBinds, UserInv, Known
  <2>. QED
    BY <1>7, <2>1
<1>10. ASSUME NEW b \in binds, DeleteBinds(b)
       PROVE  FALSE
  <2>1. view \ {b.scope} \in SUBSET Scopes /\ UpdateUserSpec(view \ {b.scope})
    BY <1>10 DEF DeleteBinds, UserInv, Known
  <2>. QED
    BY <1>7, <2>1
<1>11. ~DeleteUser
  BY DEF DeleteUser
<1>12. ReconcileStep => Reconcile \/ UpdateUserStatus \/ RemoveFinalizer
  BY <1>4 DEF ReconcileStep, GenerateBindings, Synced, RefreshBindings, CleanOrphan, BindingsGc
<1>13. ~InformerStep
  BY <1>4 DEF InformerStep, DeliverWarden, DeliverPivot, DeliverBindings, DeliverNamespace
<1>14. PivotStep => SyncUserOnCreate
  BY <1>4 DEF PivotStep, LabelBinding
<1>15. ~RequestStep
  BY <1>4, <1>9, <1>10, <1>11 DEF RequestStep, LegacyBinding, NamespaceAdded
<1>. QED
  BY <1>2, <1>5, <1>6, <1>8, <1>12, <1>13, <1>14, <1>15 DEF Next

\* The last step of a deletion leaves no binding behind that nobody accounts for.
THEOREM UsersGoLast == Spec => BindingsGoFirst
<1>1. UserInv /\ [Next]_vars
        => [user # None /\ user.del /\ user' = None => slip \/ Labelled(binds) = {}]_vars
  BY GoneStep
<1>. QED
  BY <1>1, UserStart, UserStep, PTL DEF Spec, BindingsGoFirst
=============================================================================
