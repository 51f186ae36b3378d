------------------------------ MODULE RouteCache ------------------------------
(***************************************************************************)
(* A gateway's copy of the live routing table and the three watchers that  *)
(* keep it fresh: PgRouteCache's thread and its asyncio task, and the Go   *)
(* PgRouteTable.  The database is AtomicRouting; notifications reach only  *)
(* connected listeners, connections drop before anybody notices, queries   *)
(* fail, and a result may break off in the middle.                         *)
(***************************************************************************)
EXTENDS RoutingTables, Sequences

CONSTANTS Gateways,     \* gateway processes
          Kinds,        \* how a gateway may watch
          CanaryPct,    \* the canary weight asked for
          MaxVersions,  \* bound on routing tables
          MaxFailures   \* bound on drops, failed queries and broken results

ASSUME WatchAssumption ==
  /\ Kinds \subseteq {"thread", "async", "go"}
  /\ CanaryPct \in 1..99999
  /\ MaxVersions \in Nat /\ MaxFailures \in Nat

VARIABLES version, table, status,  \* routing: AtomicRouting's variables
          tables,   \* every table installed; the index is the version
          kind,     \* how each gateway watches, for ever
          conn,     \* its LISTEN connection; "lost" is down without its knowing
          notes,    \* whether a notification waits to be read
          pc,       \* what its watcher does next
          got,      \* the table it has read and not yet stored
          cache,    \* the table new sessions are routed by
          last,     \* the version its poll compares the live one with
          broken,   \* (not in the code) whether rows are missing from cache
          failures  \* failures so far

Routing == INSTANCE AtomicRouting

routing == <<version, table, status, tables>>
watcher == <<conn, notes, pc, got, cache, last, broken>>
vars == <<routing, kind, watcher, failures>>

Snapshot == [version : Nat, table : Table \cup {NoTable}]
Live == [version |-> version, table |-> table]

TypeOK ==
  /\ Routing!TypeOK
  /\ tables \in Seq(Table)
  /\ kind \in [Gateways -> Kinds]
  /\ conn \in [Gateways -> {"down", "up", "lost"}]
  /\ notes \in [Gateways -> BOOLEAN]
  /\ pc \in [Gateways -> {"start", "connect", "wait", "poll", "fetch", "store"}]
  /\ got \in [Gateways -> Snapshot]
  /\ cache \in [Gateways -> Snapshot]
  /\ last \in [Gateways -> Nat]
  /\ broken \in [Gateways -> BOOLEAN]
  /\ failures \in Nat

\* The constructor loads the table before anything listens.
Init ==
  /\ Routing!Init
  /\ status = [d \in Deps |-> "ready"]
  /\ tables = <<>>
  /\ kind \in [Gateways -> Kinds]
  /\ conn = [g \in Gateways |-> "down"]
  /\ notes = [g \in Gateways |-> FALSE]
  /\ pc = [g \in Gateways |-> "start"]
  /\ got = [g \in Gateways |-> Live]
  /\ cache = [g \in Gateways |-> Live]
  /\ last = [g \in Gateways |-> 0]
  /\ broken = [g \in Gateways |-> FALSE]
  /\ failures = 0

-----------------------------------------------------------------------------
(* Routing changes.  pg_notify reaches the listeners of every project. *)

Notify == notes' = [g \in Gateways |-> notes[g] \/ conn[g] = "up"]

Changed ==
  /\ tables' = Append(tables, table')
  /\ Notify
  /\ UNCHANGED <<kind, conn, pc, got, cache, last, broken, failures>>

Deploy(d) == version < MaxVersions /\ Routing!Flip(d) /\ Changed

Canary(d) ==
  /\ version \in 1..MaxVersions - 1
  /\ Primaries(table, d) # {}
  /\ table' \in CanaryRules(table, d, Bps(CanaryPct))
  /\ Routing!InstallCanary(d)
  /\ Changed

OtherProject == Notify /\ UNCHANGED <<routing, kind, conn, pc, got, cache, last, broken, failures>>

-----------------------------------------------------------------------------
(* The watchers. *)

Go(g, label) == pc' = [pc EXCEPT ![g] = label]

\* Where a watcher goes once it listens: the thread reloads, the task polls when it
\* has reconnected, and the first LISTEN of the task and of Go is not followed by a read.
Listening(g) == IF kind[g] = "thread" THEN "fetch"
                ELSE IF pc[g] = "connect" THEN "poll"
                ELSE "wait"

\* Mutant of Listen: the thread does not reload after it has reconnected.
ListenOnly(g) ==
  /\ pc[g] \in {"start", "connect"}
  /\ conn' = [conn EXCEPT ![g] = "up"]
  /\ Go(g, "wait")
  /\ UNCHANGED <<routing, kind, notes, got, cache, last, broken, failures>>

Listen(g) ==
  /\ pc[g] \in {"start", "connect"}
  /\ conn' = [conn EXCEPT ![g] = "up"]
  /\ Go(g, Listening(g))
  /\ UNCHANGED <<routing, kind, notes, got, cache, last, broken, failures>>

\* A notification is read: the task polls first, the others load at once.
Wake(g) ==
  /\ pc[g] = "wait"
  /\ notes[g]
  /\ notes' = [notes EXCEPT ![g] = FALSE]
  /\ Go(g, IF kind[g] = "async" THEN "poll" ELSE "fetch")
  /\ UNCHANGED <<routing, kind, conn, got, cache, last, broken, failures>>

\* Half a second without one.  The thread only looks again.
Tick(g) ==
  /\ pc[g] = "wait"
  /\ kind[g] # "thread"
  /\ Go(g, "poll")
  /\ UNCHANGED <<routing, kind, conn, notes, got, cache, last, broken, failures>>

Poll(g) ==
  /\ pc[g] = "poll"
  /\ Go(g, IF version # last[g] THEN "fetch" ELSE "wait")
  /\ UNCHANGED <<routing, kind, conn, notes, got, cache, last, broken, failures>>

\* Mutant of Fetch: the query has lost its filter on is_live.
FetchAny(g) ==
  /\ pc[g] = "fetch"
  /\ \E v \in 0..version :
       got' = [got EXCEPT ![g] = [version |-> v, table |-> IF v = 0 THEN NoTable ELSE tables[v]]]
  /\ Go(g, "store")
  /\ UNCHANGED <<routing, kind, conn, notes, cache, last, broken, failures>>

\* Mutant of Fetch: the version is read from the first row of a result without rows.
FetchUnguarded(g) ==
  /\ pc[g] = "fetch"
  /\ got' = [got EXCEPT ![g] = [version |-> IF table = NoTable THEN NoTable ELSE version,
                                table |-> table]]
  /\ Go(g, "store")
  /\ UNCHANGED <<routing, kind, conn, notes, cache, last, broken, failures>>

\* One SELECT over table, rules and deployments sees one committed table.
Fetch(g) ==
  /\ pc[g] = "fetch"
  /\ got' = [got EXCEPT ![g] = Live]
  /\ Go(g, "store")
  /\ UNCHANGED <<routing, kind, conn, notes, cache, last, broken, failures>>

\* Mutant of Store: the version is taken from the database again.
StoreRelabelled(g) ==
  /\ pc[g] = "store"
  /\ cache' = [cache EXCEPT ![g] = [got[g] EXCEPT !.version = version]]
  /\ last' = [last EXCEPT ![g] = version]
  /\ broken' = [broken EXCEPT ![g] = FALSE]
  /\ Go(g, "wait")
  /\ UNCHANGED <<routing, kind, conn, notes, got, failures>>

\* The swap of the reference.
Store(g) ==
  /\ pc[g] = "store"
  /\ cache' = [cache EXCEPT ![g] = got[g]]
  /\ last' = [last EXCEPT ![g] = got[g].version]
  /\ broken' = [broken EXCEPT ![g] = FALSE]
  /\ Go(g, "wait")
  /\ UNCHANGED <<routing, kind, conn, notes, got, failures>>

-----------------------------------------------------------------------------
(* Failures. *)

Failure == failures < MaxFailures /\ failures' = failures + 1

\* The Python watchers close their LISTEN connection on any error and start over.
StartOver(g) ==
  /\ conn' = [conn EXCEPT ![g] = "down"]
  /\ notes' = [notes EXCEPT ![g] = FALSE]
  /\ Go(g, "connect")

QueryFails(g) ==
  /\ pc[g] \in {"poll", "fetch"}
  /\ Failure
  /\ IF kind[g] = "go" THEN Go(g, "wait") /\ UNCHANGED <<conn, notes>> ELSE StartOver(g)
  /\ UNCHANGED <<routing, kind, got, cache, last, broken>>

\* The rows of a table, and the table that a heaviest-first part of them makes.
Rows(t) == {d \in Deps : t.weight[d] > 0} \cup t.shadow
Kept(t, S) == [weight |-> [d \in Deps |-> IF d \in S THEN t.weight[d] ELSE 0],
               shadow |-> t.shadow \cap S]

\* Go's load stores what it has when the rows break off, and only then returns the error.
BreakOff(g) ==
  /\ pc[g] = "store"
  /\ kind[g] = "go"
  /\ got[g].version > 0
  /\ Failure
  /\ LET t == got[g].table
     IN  \E S \in SUBSET Rows(t) :
           /\ \A d \in S, e \in Rows(t) \ S : t.weight[d] >= t.weight[e]
           /\ cache' = [cache EXCEPT ![g] = [version |-> IF S = {} THEN 0 ELSE got[g].version,
                                             table |-> Kept(t, S)]]
  /\ broken' = [broken EXCEPT ![g] = cache'[g] # got[g]]
  /\ Go(g, "wait")
  /\ UNCHANGED <<routing, kind, conn, notes, got, last>>

Drop(g) ==
  /\ conn[g] = "up"
  /\ Failure
  /\ conn' = [conn EXCEPT ![g] = "lost"]
  /\ UNCHANGED <<routing, kind, notes, pc, got, cache, last, broken>>

\* A Python watcher notices while it waits for notifications; pq's listener reconnects
\* by itself and then sends an empty notification.
Notice(g) ==
  /\ conn[g] = "lost"
  /\ IF kind[g] = "go"
     THEN /\ conn' = [conn EXCEPT ![g] = "up"]
          /\ notes' = [notes EXCEPT ![g] = TRUE]
          /\ UNCHANGED pc
     ELSE pc[g] = "wait" /\ StartOver(g)
  /\ UNCHANGED <<routing, kind, got, cache, last, broken, failures>>

-----------------------------------------------------------------------------
Step(g) == Listen(g) \/ Wake(g) \/ Tick(g) \/ Poll(g) \/ Fetch(g) \/ Store(g)

Next ==
  \/ \E d \in Deps : Deploy(d) \/ Canary(d)
  \/ OtherProject
  \/ \E g \in Gateways : Step(g) \/ QueryFails(g) \/ BreakOff(g) \/ Drop(g) \/ Notice(g)

Spec == Init /\ [][Next]_vars

\* A watcher is a loop that is never stopped, Go's select does not pass over a waiting
\* notification for ever, and a lost connection is noticed in the end (an error, or
\* TCP's keepalive); nothing else has to happen.
FairSpec ==
  Spec /\ \A g \in Gateways : WF_vars(Step(g)) /\ SF_vars(Wake(g)) /\ WF_vars(Notice(g))

-----------------------------------------------------------------------------
TableAt(v) == IF v = 0 THEN NoTable ELSE tables[v]

\* A gateway never routes by a mixture of two tables, nor by a table under another's
\* version: unless a result broke off, its copy is one that was installed.
NeverTorn == \A g \in Gateways : ~ broken[g] => cache[g].table = TableAt(cache[g].version)

\* Reloads that race with flips, reconnections and each other's causes never take a
\* gateway back to an older table.
NeverGoesBack ==
  [][\A g \in Gateways : ~ broken'[g] => cache'[g].version >= cache[g].version]_vars

Current(g) == cache[g] = Live

\* When routing comes to rest, every gateway comes to serve the live table, whatever
\* notifications were lost; except a Go gateway whose result broke off when its poll
\* already knew the version.
CatchesUp ==
  \A g \in Gateways : <>[](Current(g) \/ (broken[g] /\ last[g] = version))

-----------------------------------------------------------------------------
(* The inductive invariant behind the theorems of RouteCacheProofs. *)

HistoryIsComplete == version = Len(tables) /\ table = TableAt(version)

\* What a watcher has read was live then, and is not older than what it serves.
ReadWasLive ==
  \A g \in Gateways :
    /\ got[g].version \in 0..version /\ got[g].table = TableAt(got[g].version)
    /\ cache[g].version \in 0..got[g].version

IInv == TypeOK /\ HistoryIsComplete /\ ReadWasLive /\ NeverTorn

-----------------------------------------------------------------------------
\* "load the live routing from Postgres ... a version-poll backstop, and atomically swap":
\* every gateway comes to serve the live table.
AlwaysCatchesUp == \A g \in Gateways : <>[]Current(g)
=============================================================================
