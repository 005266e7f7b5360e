------------------------------- MODULE Session -------------------------------
(***************************************************************************)
(* Accounts, logins and sessions of the API server                         *)
(* (pkg/apiserver/cubeapi/user, pkg/apiserver/middlewares/auth,            *)
(* pkg/authentication).                                                    *)
(*                                                                         *)
(* A User is read from the cache of the pivot cluster and written directly:*)
(* the API server refuses a write on another version than the last.  An    *)
(* account is [type, login]: the User's name is the login itself, or the   *)
(* login in hex behind the prefix of an identity provider.  The answers of *)
(* LDAP, of GitHub and of a generic provider are any.                      *)
(***************************************************************************)
EXTENDS Integers, FiniteSets

CONSTANTS
  None,
  Types,         \* the kinds of login: normal, ldap, github
  Logins, Passwords, Clients,
  TokenLife,     \* DefaultTokenExpireDuration
  CookieLife,    \* the option token-expire-duration
  MaxTime,       \* bound of the clock
  MaxWrites      \* bound: writes of users

ASSUME LimitAssumption ==
  /\ TokenLife \in Nat \ {0} /\ CookieLife \in Nat \ {0}
  /\ MaxTime \in Nat /\ MaxWrites \in Nat
  /\ "normal" \in Types /\ Types \subseteq {"normal", "ldap", "github"}

Accounts == [type : Types, login : Logins]

\* A password is stored hashed, by all but the import: <<"plain", p>>.
Hash(p) == <<"hashed", p>>

\* The password a first login from outside makes up: nobody knows it.
Unknown == <<"hashed", None>>

VARIABLES
  users,     \* users[a]: the User of the account a: [state, pwd, ver]
  seen,      \* the same in the cache
  req,       \* req[c]: the request of the client c being handled
  session,   \* session[c]: the token c holds: [name, exp, until]
  generic,   \* GenericAuthIsEnable
  now, writes

accounts == <<users, seen, writes>>
vars == <<accounts, req, session, generic, now>>

Idle == [op |-> "none", acc |-> None, obj |-> None, arg |-> None]

\* What a token names: the login as it was typed, for a login by LDAP too; the
\* bare hex of it for one by GitHub.
TokenName(a) == IF a.type = "github" THEN <<"hex", a.login>> ELSE <<"normal", a.login>>

\* The platform comes with one user, its administrator.
Init ==
  /\ \E l \in Logins, p \in Passwords :
       users = [a \in Accounts |->
                  IF a = [type |-> "normal", login |-> l]
                  THEN [state |-> "normal", pwd |-> Hash(p), ver |-> 0] ELSE None]
  /\ seen = users
  /\ req = [c \in Clients |-> Idle]
  /\ session = [c \in Clients |-> None]
  /\ generic \in BOOLEAN
  /\ now = 0 /\ writes = 0

-----------------------------------------------------------------------------
(* Tokens.                                                                 *)

\* GenerateToken always names the default duration, which goes before the
\* option; SetCookie takes the option.
Token(name) == [name |-> name, exp |-> now + TokenLife, until |-> now + CookieLife]

\* The browser sends what it still keeps.
Sends(c) == session[c] # None /\ now < session[c].until

\* Authentication of a token.
Authentic(c) == Sends(c) /\ now < session[c].exp

\* defaultAuth: each request renews the session, whatever became of the user.
\* genericAuth: the provider tells the name, for each request again.
Auth(c) ==
  /\ req[c] = Idle
  /\ \/ ~generic /\ Authentic(c) /\ session' = [session EXCEPT ![c] = Token(@.name)]
     \/ /\ generic
        /\ \E n \in {TokenName(a) : a \in Accounts} : session' = [session EXCEPT ![c] = Token(n)]
  /\ UNCHANGED <<accounts, req, generic, now>>

\* A request a handler is entered for: the middleware has let it pass.
Acting(c) == req[c] = Idle /\ Authentic(c)

Tick ==
  /\ now < MaxTime
  /\ now' = now + 1
  /\ UNCHANGED <<accounts, req, session, generic>>

-----------------------------------------------------------------------------
(* Users.                                                                  *)

\* The versions of users are numbered in the order of the writes.
Write(a, u) ==
  /\ writes < MaxWrites
  /\ writes' = writes + 1
  /\ users' = [users EXCEPT ![a] = [u EXCEPT !.ver = writes + 1]]

Deliver(a) ==
  /\ seen[a] # users[a]
  /\ seen' = [seen EXCEPT ![a] = users[a]]
  /\ UNCHANGED <<users, writes, req, session, generic, now>>

\* CreateUser, after CheckAndCompleteCreateParam has looked for the name in the
\* cache.  A name that is taken after all is refused.
CreateUser(c, l, p) ==
  LET a == [type |-> "normal", login |-> l] IN
  /\ Acting(c) /\ seen[a] = None /\ users[a] = None
  /\ Write(a, [state |-> "normal", pwd |-> Hash(p), ver |-> 0])
  /\ UNCHANGED <<seen, req, session, generic, now>>

\* BatchCreateUser stores what the file says: no check, no hash, no state.
BatchCreateUser(c, l, p) ==
  LET a == [type |-> "normal", login |-> l] IN
  /\ Acting(c) /\ users[a] = None
  /\ Write(a, [state |-> "unset", pwd |-> <<"plain", p>>, ver |-> 0])
  /\ UNCHANGED <<seen, req, session, generic, now>>

\* UpdateUser up to the write: the change is made to the cached user.  In a user
\* from outside only its state is looked at, if one is given.
UpdateUser(c, a, op, arg) ==
  /\ Acting(c) /\ seen[a] # None
  /\ req' = [req EXCEPT ![c] = [op |-> op, acc |-> a, arg |-> arg,
       obj |-> IF op = "state" THEN [seen[a] EXCEPT !.state = arg]
                               ELSE [seen[a] EXCEPT !.pwd = Hash(arg)]]]
  /\ UNCHANGED <<accounts, session, generic, now>>

\* UpdatePwd needs no session but the old password.
UpdatePwd(c, a, old, new) ==
  /\ req[c] = Idle /\ seen[a] # None
  /\ seen[a].pwd = Hash(old)
  /\ req' = [req EXCEPT ![c] = [op |-> "pwd", acc |-> a, arg |-> new,
                                obj |-> [seen[a] EXCEPT !.pwd = Hash(new)]]]
  /\ UNCHANGED <<accounts, session, generic, now>>

\* (mutant of Current: the version is not compared)
CurrentAny(c) == users[req[c].acc] # None

\* The API server accepts the write.
Current(c) == users[req[c].acc] # None /\ users[req[c].acc].ver = req[c].obj.ver

\* UpdateUserSpecImpl: the request fails on a conflict, and is over.
UpdateUserSpec(c) ==
  /\ req[c].op \in {"state", "pwd"}
  /\ IF Current(c) THEN Write(req[c].acc, req[c].obj) ELSE UNCHANGED <<users, writes>>
  /\ req' = [req EXCEPT ![c] = Idle]
  /\ UNCHANGED <<seen, session, generic, now>>

\* Somebody removes the user in the cluster.
Removed(a) ==
  /\ users[a] # None
  /\ users' = [users EXCEPT ![a] = None]
  /\ UNCHANGED <<seen, writes, req, session, generic, now>>

-----------------------------------------------------------------------------
(* Login.                                                                  *)

\* normalLogin compares the password.  ldapLogin and GitHubLogin ask the
\* provider, and let a login pass that has no user yet.
MayLogin(a, p) ==
  IF a.type = "normal"
  THEN seen[a] # None /\ seen[a].pwd = Hash(p) /\ seen[a].state # "forbidden"
  ELSE seen[a] # None => seen[a].state # "forbidden"

Login(c, a, p) ==
  /\ req[c] = Idle
  /\ MayLogin(a, p)
  /\ req' = [req EXCEPT ![c] = [op |-> IF seen[a] = None THEN "create" ELSE "record",
                                acc |-> a, obj |-> seen[a], arg |-> None]]
  /\ UNCHANGED <<accounts, session, generic, now>>

\* The first login from outside creates the user; the request fails when it is
\* there by now.
FirstLogin(c) ==
  /\ req[c].op = "create"
  /\ LET a == req[c].acc IN
     IF users[a] # None
     THEN req' = [req EXCEPT ![c] = Idle] /\ UNCHANGED <<users, writes>>
     ELSE LET u == [state |-> "unset", pwd |-> Unknown, ver |-> writes + 1]
          IN  /\ Write(a, u)
              /\ req' = [req EXCEPT ![c] = [op |-> "record", acc |-> a, obj |-> u, arg |-> None]]
  /\ UNCHANGED <<seen, session, generic, now>>

\* UpdateUserStatusImpl writes the time of the login on the version that was
\* checked, and only then is there a token.
RecordLogin(c) ==
  /\ req[c].op = "record"
  /\ IF Current(c)
     THEN /\ Write(req[c].acc, users[req[c].acc])
          /\ session' = [session EXCEPT ![c] = Token(TokenName(req[c].acc))]
     ELSE UNCHANGED <<users, writes, session>>
  /\ req' = [req EXCEPT ![c] = Idle]
  /\ UNCHANGED <<seen, generic, now>>

-----------------------------------------------------------------------------
Next ==
  \/ Tick
  \/ \E a \in Accounts : Deliver(a) \/ Removed(a)
  \/ \E c \in Clients :
       \/ Auth(c) \/ UpdateUserSpec(c) \/ FirstLogin(c) \/ RecordLogin(c)
       \/ \E l \in Logins, p \in Passwords : CreateUser(c, l, p) \/ BatchCreateUser(c, l, p)
       \/ \E a \in Accounts, p \in Passwords :
            \/ Login(c, a, p)
            \/ \E q \in Passwords : UpdatePwd(c, a, p, q)
       \/ \E a \in Accounts :
            \/ \E s \in {"normal", "forbidden"} : UpdateUser(c, a, "state", s)
            \/ \E p \in Passwords : UpdateUser(c, a, "pwd", p)

Spec == Init /\ [][Next]_vars

-----------------------------------------------------------------------------
(* Properties.                                                             *)

\* A login ends in a session only if the user is not forbidden when the login is
\* recorded, however late the cache was that the state was read from (normalLogin,
\* ldapLogin and GitHubLogin, with UpdateUserStatusImpl).  Nothing is claimed of a
\* session that a forbidden user has already and each request renews (defaultAuth),
\* nor of a token given out for an access key (GetTokenByKey): neither looks at the
\* state.
ForbiddenIsRefused ==
  [][\A c \in Clients :
       req[c].op = "record" /\ session'[c] # session[c] =>
         users[req[c].acc] # None /\ users[req[c].acc].state # "forbidden"]_vars

\* A write changes what its request asked for and nothing else: what another
\* request has stored in the meantime is not undone (UpdateUserSpecImpl).
NoLostUpdate ==
  [][\A a \in Accounts : users[a] # None /\ users'[a] # None =>
       /\ users'[a].state # users[a].state =>
            \E c \in Clients : /\ req[c].op = "state" /\ req[c].acc = a
                               /\ req[c].arg = users'[a].state
       /\ users'[a].pwd # users[a].pwd =>
            \E c \in Clients : /\ req[c].op = "pwd" /\ req[c].acc = a
                               /\ Hash(req[c].arg) = users'[a].pwd]_vars

\* Refuted.  "import and create users": a user that is there can log in with
\* some password, or change it (user.go).  An imported one can do neither.
StoredIsHashed ==
  \A a \in Accounts : users[a] # None => users[a].pwd[1] = "hashed"
=============================================================================
