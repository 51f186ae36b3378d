------------------------------- MODULE KeyCache -------------------------------
(***************************************************************************)
(* API keys: the rows of controlplane.api_keys and role_bindings, the      *)
(* owners' commands that change them (agentctl auth ...), and the four     *)
(* planes that resolve a key to a principal: the Go gateway with its       *)
(* 15-second cache, the Python proxy's interceptor, the HTTP dependency    *)
(* and the command line.  A query reads the rows at one time and its       *)
(* result is stored and used at a later one.                               *)
(*                                                                         *)
(* Time is kept as ages and remaining ticks, so it needs no bound.         *)
(***************************************************************************)
EXTENDS Integers

CONSTANTS Keys, NoKey,          \* key secrets; the request without one
          Users, NoUser,
          Projects, Home,       \* Home: the gateway's and the bootstrap owner's project
          KeyProject, KeyUser,  \* what a key's row says (user_id may be NULL)
          Issued,               \* keys that exist at first, as owners
          Grants,               \* roles the commands give
          MinRole,              \* AGENTCTL_MIN_ROLE and principal_dep's min_role
          RequireKey,           \* AGENTCTL_REQUIRE_KEY=1
          Callers,              \* requests in flight
          TTL,                  \* ticks a cached result is used
          MaxQuery              \* bound on the ticks from a read to its use

Rank == [viewer |-> 0, developer |-> 1, admin |-> 2, owner |-> 3]
Roles == DOMAIN Rank
NoRole == "none"

ASSUME KeyTypes ==
  /\ Home \in Projects /\ NoKey \notin Keys /\ NoUser \notin Users
  /\ KeyProject \in [Keys -> Projects]
  /\ KeyUser \in [Keys -> Users \cup {NoUser}]
  /\ Issued \subseteq Keys /\ Grants \subseteq Roles /\ MinRole \in Roles
  /\ RequireKey \in BOOLEAN
ASSUME ClockTypes == TTL \in Nat \ {0} /\ MaxQuery \in Nat

VARIABLES row,      \* api_keys: the key's own role, "absent" or "revoked"
          binding,  \* role_bindings: role of a user on a project
          cache,    \* the Go gateway's cache: a result and the ticks it is still used
          call,     \* the requests
          age       \* history: ticks since a key's principal changed, up to Stale

tables == <<row, binding>>
vars == <<tables, cache, call, age>>

Stale == TTL + MaxQuery

Nobody == [project |-> Home, role |-> NoRole]
Bootstrap == [project |-> Home, role |-> "owner"]
Principals == [project : Projects, role : Roles] \cup {Nobody}

Planes == {"go", "python", "http", "cli"}
Entry(p, left) == [who |-> p, left |-> left]
Call(pc, plane, k, p) == [pc |-> pc, plane |-> plane, key |-> k, who |-> p, age |-> 0]
IdleCall == Call("idle", "go", NoKey, Nobody)
Served == Call("served", "go", NoKey, Nobody)

Entries == [who : Principals, left : 0..TTL]
Requests == [pc : {"idle", "read", "granted", "served"}, plane : Planes,
             key : Keys \cup {NoKey}, who : Principals, age : 0..MaxQuery]

TypeOK ==
  /\ row \in [Keys -> Roles \cup {"absent", "revoked"}]
  /\ binding \in [Users \X Projects -> Roles \cup {NoRole}]
  /\ cache \in [Keys -> Entries]
  /\ call \in [Callers -> Requests]
  /\ age \in [Keys -> 0..Stale]

Init ==
  /\ row = [k \in Keys |-> IF k \in Issued THEN "owner" ELSE "absent"]
  /\ binding = [b \in Users \X Projects |-> NoRole]
  /\ cache = [k \in Keys |-> Entry(Nobody, 0)]
  /\ call = [c \in Callers |-> IdleCall]
  /\ age = [k \in Keys |-> Stale]

-----------------------------------------------------------------------------
(* The principal of a key. *)

\* Mutant of RoleOf: a key of no user loses its own role.
RoleOfBinding(k, rs, bs) ==
  IF KeyUser[k] = NoUser THEN NoRole ELSE bs[<<KeyUser[k], KeyProject[k]>>]

\* COALESCE(rb.role, k.role): the user's binding on the key's project, else the
\* key's own role.
RoleOf(k, rs, bs) ==
  IF KeyUser[k] = NoUser \/ bs[<<KeyUser[k], KeyProject[k]>>] = NoRole
  THEN rs[k] ELSE bs[<<KeyUser[k], KeyProject[k]>>]

\* The SELECT of resolve and resolve_principal: unknown and revoked keys find no row.
Resolve(k, rs, bs) ==
  IF rs[k] \notin Roles THEN Nobody
  ELSE [project |-> KeyProject[k], role |-> RoleOf(k, rs, bs)]

Current(k) == Resolve(k, row, binding)

AtLeast(p, role) == p # Nobody /\ Rank[p.role] >= Rank[role]

\* decide, the interceptor, principal_dep and require("owner"): only the Go gateway
\* looks at the project, and the Python interceptor at nothing but the key.
Allows(plane, p) ==
  CASE plane = "go"     -> AtLeast(p, MinRole) /\ p.project = Home
    [] plane = "python" -> p # Nobody
    [] plane = "http"   -> AtLeast(p, MinRole)
    [] plane = "cli"    -> AtLeast(p, "owner")

-----------------------------------------------------------------------------
(* Requests.  A served one is not looked at again until it ends. *)

Waiting(c) == call[c].pc \in {"read", "granted"}

Tick ==
  /\ \A c \in Callers : Waiting(c) => call[c].age < MaxQuery
  /\ cache' = [k \in Keys |-> IF cache[k].left <= 1 THEN Entry(Nobody, 0)
                              ELSE [cache[k] EXCEPT !.left = @ - 1]]
  /\ call' = [c \in Callers |-> IF Waiting(c) THEN [call[c] EXCEPT !.age = @ + 1] ELSE call[c]]
  /\ age' = [k \in Keys |-> IF age[k] < Stale THEN age[k] + 1 ELSE Stale]
  /\ UNCHANGED tables

\* The verdict: a refused request ends; the command line goes on to its command.
Verdict(c, plane, k, p, a) ==
  call' = [call EXCEPT ![c] = IF ~Allows(plane, p) THEN IdleCall
                              ELSE IF plane # "cli" THEN Served
                              ELSE [Call("granted", plane, k, p) EXCEPT !.age = a]]

\* No key: refused where one is required; else the gateways let it pass, and HTTP
\* and the command line, which never asks for one, make it the bootstrap owner.
Keyless(c, plane) ==
  /\ call[c].pc = "idle"
  /\ plane = "cli" \/ ~RequireKey
  /\ Verdict(c, plane, NoKey, Bootstrap, 0)
  /\ UNCHANGED <<tables, cache, age>>

Fresh(k) == cache[k].left > 0

\* Mutant of Hit: a hit renews the entry.
HitRenews(c, k) ==
  /\ call[c].pc = "idle" /\ Fresh(k)
  /\ cache' = [cache EXCEPT ![k].left = TTL]
  /\ Verdict(c, "go", k, cache[k].who, 0)
  /\ UNCHANGED <<tables, age>>

\* A found or not-found result in the cache answers until it expires.
Hit(c, k) ==
  /\ call[c].pc = "idle" /\ Fresh(k)
  /\ Verdict(c, "go", k, cache[k].who, 0)
  /\ UNCHANGED <<tables, cache, age>>

\* The query is run; its result is on the way.
Query(c, plane, k) ==
  /\ call[c].pc = "idle"
  /\ plane = "go" => ~Fresh(k)
  /\ call' = [call EXCEPT ![c] = Call("read", plane, k, Current(k))]
  /\ UNCHANGED <<tables, cache, age>>

\* The result arrives: Go stores it for a full TTL, whatever is in the cache by then.
Answer(c) ==
  /\ call[c].pc = "read"
  /\ IF call[c].plane = "go"
     THEN cache' = [cache EXCEPT ![call[c].key] = Entry(call[c].who, TTL)]
     ELSE UNCHANGED cache
  /\ Verdict(c, call[c].plane, call[c].key, call[c].who, call[c].age)
  /\ UNCHANGED <<tables, age>>

\* The store cannot be read: both gateways fail open, the others report the error.
StoreFails(c) ==
  /\ call[c].pc = "read"
  /\ call' = [call EXCEPT ![c] = IF call[c].plane \in {"go", "python"} THEN Served ELSE IdleCall]
  /\ UNCHANGED <<tables, cache, age>>

End(c) ==
  /\ call[c].pc = "served"
  /\ call' = [call EXCEPT ![c] = IdleCall]
  /\ UNCHANGED <<tables, cache, age>>

-----------------------------------------------------------------------------
(* The owners' commands: one transaction after the caller was resolved. *)

\* The command commits new rows; the history notes whose principal they change.
Commit(c, rs, bs) ==
  /\ call[c].pc = "granted"
  /\ row' = rs /\ binding' = bs
  /\ age' = [k \in Keys |-> IF Resolve(k, rs, bs) # Current(k) THEN 0 ELSE age[k]]
  /\ call' = [call EXCEPT ![c] = IdleCall]
  /\ UNCHANGED cache

\* bind_role, create_api_key: the rows with the user bound, the key inserted.
Bound(u, project, role) == [binding EXCEPT ![<<u, project>>] = role]
Inserted(k, role) == [row EXCEPT ![k] = role]

\* create-user binds the user on the caller's project.
CreateUser(c, u, role) ==
  Commit(c, row, Bound(u, call[c].who.project, role))

\* create-key inserts a key of the caller's project; with --user it first sets the
\* user's binding, which is the role of all their keys there.
CreateKey(c, k, role) ==
  /\ row[k] = "absent" /\ KeyProject[k] = call[c].who.project
  /\ Commit(c, Inserted(k, role),
            IF KeyUser[k] = NoUser THEN binding ELSE Bound(KeyUser[k], KeyProject[k], role))

\* Mutant of RevokeKey: the prefix is looked for in every project.
RevokeAnywhere(c, k) ==
  /\ row[k] \in Roles
  /\ Commit(c, [row EXCEPT ![k] = "revoked"], binding)

\* revoke-key by prefix, within the caller's project.
RevokeKey(c, k) ==
  /\ row[k] \in Roles /\ KeyProject[k] = call[c].who.project
  /\ Commit(c, [row EXCEPT ![k] = "revoked"], binding)

\* No such prefix, or the transaction is lost: nothing is written.
NoCommand(c) == Commit(c, row, binding)

-----------------------------------------------------------------------------
Next ==
  \/ Tick
  \/ \E c \in Callers :
       \/ \E plane \in Planes : \/ Keyless(c, plane)
                                \/ \E k \in Keys : Query(c, plane, k)
       \/ \E k \in Keys : Hit(c, k) \/ RevokeKey(c, k)
       \/ Answer(c) \/ StoreFails(c) \/ End(c) \/ NoCommand(c)
       \/ \E role \in Grants : \/ \E u \in Users : CreateUser(c, u, role)
                               \/ \E k \in Keys : CreateKey(c, k, role)

Spec == Init /\ [][Next]_vars

-----------------------------------------------------------------------------
(* Properties. *)

\* GO_GATEWAY_RBAC.md: "revocations take effect within the TTL".  What the Go cache
\* answers for a key is what the rows say, unless they changed within the TTL and the
\* time a result may be under way, since an old result is stored for a full TTL too; a
\* result on its way to any plane is no older than that time.
AnswersAreRecent ==
  /\ \A k \in Keys : Fresh(k) => cache[k].who = Current(k) \/ age[k] < Stale
  /\ \A c \in Callers : Waiting(c) /\ call[c].key # NoKey
       => call[c].who = Current(call[c].key) \/ age[call[c].key] <= MaxQuery

\* Tenants are kept apart and only owners act: a key's principal changes only by a
\* command of someone who was an owner of the key's own project, by the rows of at
\* most MaxQuery ago.
OwnersOnly ==
  [][\A k \in Keys :
       Resolve(k, row, binding)' # Current(k) =>
         \E c \in Callers :
           LET by == call[c].key IN
           /\ call[c].pc = "granted" /\ call'[c].pc = "idle"
           /\ \/ by = NoKey /\ KeyProject[k] = Home
              \/ /\ by \in Keys /\ KeyProject[by] = KeyProject[k]
                 /\ AtLeast(Current(by), "owner") \/ age[by] <= MaxQuery]_vars

-----------------------------------------------------------------------------
(* The inductive invariant of KeyCacheProofs. *)

\* What a request was told was so when its query ran, call.age ticks ago; one that was
\* granted a command is of an owner.
Told(c) ==
  /\ call[c].key # NoKey =>
       /\ call[c].who = Current(call[c].key) \/ age[call[c].key] <= call[c].age
       /\ call[c].who = Nobody \/ call[c].who.project = KeyProject[call[c].key]
  /\ call[c].key = NoKey => call[c].who = Bootstrap
  /\ call[c].pc = "granted" => AtLeast(call[c].who, "owner")
ReadWasCurrent == \A c \in Callers : Waiting(c) => Told(c)

\* A cached result was read at most MaxQuery ticks before it was stored, and it was
\* stored TTL - left ticks ago.
StoredWasCurrent ==
  \A k \in Keys : Fresh(k) =>
    cache[k].who = Current(k) \/ age[k] <= MaxQuery + (TTL - cache[k].left)

IInv == TypeOK /\ ReadWasCurrent /\ StoredWasCurrent
=============================================================================
