------------------------------ MODULE RoutingTxn ------------------------------
(***************************************************************************)
(* The routing transaction of agentctl.rollback.routing statement by       *)
(* statement, run by several database connections at once: flip_routing,   *)
(* install_weighted and their caller rollout.set_canary, with the advisory *)
(* lock, READ COMMITTED reads, the row locks an UPDATE takes and the UNIQUE*)
(* and CHECK constraints of schema_postgres.sql.  One project.             *)
(*                                                                         *)
(* A connection works on a private copy (plan, ver, demoted, sets) that    *)
(* COMMIT merges into the committed tables; a lost connection drops it.    *)
(***************************************************************************)
EXTENDS RoutingTables, Sequences, FiniteSets

CONSTANTS Conns,        \* database connections: CLI, dashboard, operator, push
          NoConn,       \* nobody holds the advisory lock
          CanaryPcts,   \* canary weights asked for, in thousandths of a percent
          MaxVersions   \* bound on tables committed and calls open

ASSUME NoConnAssumption == NoConn \notin Conns
ASSUME BoundAssumption == /\ MaxVersions \in Nat
                          /\ CanaryPcts \subseteq {n \in Nat : 0 < n /\ n < 100000}

VARIABLES tables,   \* committed routing_tables with their rules; the index is the version
          live,     \* versions whose is_live is committed TRUE
          status,   \* committed deployments.status
          lock,     \* holder of pg_advisory_xact_lock(project)
          pc,       \* next statement of each connection
          op,       \* the call being run
          dep,      \* the deployment it is about
          plan,     \* the rules it will insert
          ver,      \* the version it read
          demoted,  \* versions it has set is_live = false
          sets      \* deployment rows it has written (Keep: not written)

committed == <<tables, live, status>>
private == <<op, dep, plan, ver, demoted, sets>>
vars == <<committed, lock, pc, private>>

Ops == {"flip", "canary", "promote"}

\* Where the advisory lock is held, and where the new live row is inserted.
Inserted == {"demote_deps", "activate", "commit", "reported"}
Locked == {"version", "demote", "insert"} \cup Inserted

Keep == "keep"
NoSets == [d \in Deps |-> Keep]

TypeOK ==
  /\ tables \in Seq(Table)
  /\ live \subseteq 1..Len(tables)
  /\ status \in [Deps -> Status]
  /\ lock \in Conns \cup {NoConn}
  /\ pc \in [Conns -> Locked \cup {"idle", "lock"}]
  /\ op \in [Conns -> Ops]
  /\ dep \in [Conns -> Deps]
  /\ DOMAIN plan = Conns
  /\ ver \in [Conns -> Nat]
  /\ demoted \in [Conns -> SUBSET Nat]
  /\ sets \in [Conns -> [Deps -> Status \cup {Keep}]]

Init ==
  /\ tables = <<>>
  /\ live = {}
  /\ status = [d \in Deps |-> "ready"]
  /\ lock = NoConn
  /\ pc = [c \in Conns |-> "idle"]
  /\ op = [c \in Conns |-> "flip"]
  /\ dep = [c \in Conns |-> CHOOSE d \in Deps : TRUE]
  /\ plan = [c \in Conns |-> NoTable]
  /\ ver = [c \in Conns |-> 0]
  /\ demoted = [c \in Conns |-> {}]
  /\ sets = [c \in Conns |-> NoSets]

-----------------------------------------------------------------------------
\* What one SELECT of live_routing sees: the table of the live row.
LiveVersion == IF live = {} THEN 0 ELSE CHOOSE v \in live : TRUE
LiveTable == IF live = {} THEN NoTable ELSE tables[LiveVersion]

\* An UPDATE of deployment row d by c waits for another transaction's write of it.
RowFree(c, d) == \A o \in Conns \ {c} : sets[o][d] = Keep

\* Mutant of EndTransaction: the advisory lock belongs to the session and stays held.
EndKeepsLock(c) ==
  /\ pc' = [pc EXCEPT ![c] = "idle"]
  /\ op' = [op EXCEPT ![c] = "flip"]
  /\ dep' = [dep EXCEPT ![c] = CHOOSE d \in Deps : TRUE]
  /\ plan' = [plan EXCEPT ![c] = NoTable]
  /\ ver' = [ver EXCEPT ![c] = 0]
  /\ demoted' = [demoted EXCEPT ![c] = {}]
  /\ sets' = [sets EXCEPT ![c] = NoSets]
  /\ UNCHANGED lock

\* The connection's transaction ends: its private copy and its lock are gone.
EndTransaction(c) ==
  /\ pc' = [pc EXCEPT ![c] = "idle"]
  /\ lock' = IF lock = c THEN NoConn ELSE lock
  /\ op' = [op EXCEPT ![c] = "flip"]
  /\ dep' = [dep EXCEPT ![c] = CHOOSE d \in Deps : TRUE]
  /\ plan' = [plan EXCEPT ![c] = NoTable]
  /\ ver' = [ver EXCEPT ![c] = 0]
  /\ demoted' = [demoted EXCEPT ![c] = {}]
  /\ sets' = [sets EXCEPT ![c] = NoSets]

RollBack(c) == EndTransaction(c) /\ UNCHANGED committed

Room == Len(tables) + Cardinality({c \in Conns : pc[c] # "idle"}) < MaxVersions

Begin(c, o, d, rules) ==
  /\ pc[c] = "idle"
  /\ Room
  /\ pc' = [pc EXCEPT ![c] = "lock"]
  /\ op' = [op EXCEPT ![c] = o]
  /\ dep' = [dep EXCEPT ![c] = d]
  /\ plan' = [plan EXCEPT ![c] = rules]
  /\ UNCHANGED <<committed, lock, ver, demoted, sets>>

\* flip_routing called with no transaction open (seed, rollback, the push pipeline).
BeginFlip(c, d) == Begin(c, "flip", d, FullTo(d))

\* set_canary at 100%: its SELECT of the deployment has opened a transaction, so
\* the conn.transaction() block of flip_routing is only a savepoint.
BeginPromote(c, d) == Begin(c, "promote", d, FullTo(d))

\* set_canary below 100%: the live rules are read before the lock is asked for.
BeginCanary(c, d) ==
  /\ live # {}
  /\ \E pct \in CanaryPcts :
       /\ Bps(pct) > 0
       /\ \E rules \in CanaryRules(LiveTable, d, Bps(pct)) : Begin(c, "canary", d, rules)

-----------------------------------------------------------------------------
\* Mutant of AdvisoryLock: the lock is not exclusive.
LockShared(c) ==
  /\ pc[c] = "lock"
  /\ lock' = c
  /\ pc' = [pc EXCEPT ![c] = "version"]
  /\ UNCHANGED <<committed, private>>

AdvisoryLock(c) ==
  /\ pc[c] = "lock"
  /\ lock = NoConn
  /\ lock' = c
  /\ pc' = [pc EXCEPT ![c] = "version"]
  /\ UNCHANGED <<committed, private>>

\* Mutant of ReadVersion: the version is counted one too far.
VersionSkips(c) ==
  /\ pc[c] = "version"
  /\ ver' = [ver EXCEPT ![c] = Len(tables) + 2]
  /\ pc' = [pc EXCEPT ![c] = "demote"]
  /\ UNCHANGED <<committed, lock, op, dep, plan, demoted, sets>>

\* coalesce(max(version), 0) + 1
ReadVersion(c) ==
  /\ pc[c] = "version"
  /\ ver' = [ver EXCEPT ![c] = Len(tables) + 1]
  /\ pc' = [pc EXCEPT ![c] = "demote"]
  /\ UNCHANGED <<committed, lock, op, dep, plan, demoted, sets>>

DemoteTable(c) ==
  /\ pc[c] = "demote"
  /\ \A o \in Conns \ {c} : demoted[o] \cap live = {}
  /\ demoted' = [demoted EXCEPT ![c] = live]
  /\ pc' = [pc EXCEPT ![c] = "insert"]
  /\ UNCHANGED <<committed, lock, op, dep, plan, ver, sets>>

\* UNIQUE (project_id, version) and one_live_routing_per_project, for c's insert.
Unique(c) == ver[c] \notin 1..Len(tables) /\ live \subseteq demoted[c]

\* The routing_tables row and its rules.  A second insert of the same keys waits for
\* the first; a violated constraint is an error that aborts the transaction.
InsertTable(c) ==
  /\ pc[c] = "insert"
  /\ \A o \in Conns : pc[o] \notin Inserted
  /\ IF Unique(c) /\ plan[c] \in Table
     THEN /\ pc' = [pc EXCEPT ![c] = IF op[c] = "canary" THEN "activate" ELSE "demote_deps"]
          /\ UNCHANGED <<committed, lock, private>>
     ELSE RollBack(c)

\* Mutant of DemoteDeps: without the filter on status='active'.
DemoteEverything(c) ==
  /\ pc[c] = "demote_deps"
  /\ \A e \in Deps \ {dep[c]} : RowFree(c, e)
  /\ sets' = [sets EXCEPT ![c] = [e \in Deps |-> IF e # dep[c] THEN "rolled_back" ELSE @[e]]]
  /\ pc' = [pc EXCEPT ![c] = "activate"]
  /\ UNCHANGED <<committed, lock, op, dep, plan, ver, demoted>>

\* UPDATE deployments SET status='rolled_back' WHERE status='active' AND id<>dep
DemoteDeps(c) ==
  LET targets == {e \in Deps \ {dep[c]} : status[e] = "active"}
  IN  /\ pc[c] = "demote_deps"
      /\ \A e \in targets : RowFree(c, e)
      /\ sets' = [sets EXCEPT ![c] =
                    [e \in Deps |-> IF e \in targets THEN "rolled_back" ELSE @[e]]]
      /\ pc' = [pc EXCEPT ![c] = "activate"]
      /\ UNCHANGED <<committed, lock, op, dep, plan, ver, demoted>>

Activate(c) ==
  /\ pc[c] = "activate"
  /\ RowFree(c, dep[c])
  /\ sets' = [sets EXCEPT ![c][dep[c]] = "active"]
  /\ pc' = [pc EXCEPT ![c] = "commit"]
  /\ UNCHANGED <<committed, lock, op, dep, plan, ver, demoted>>

\* COMMIT: at the end of flip_routing's own transaction, or set_canary's conn.commit().
Commit(c) ==
  /\ pc[c] = "commit"
  /\ op[c] # "promote"
  /\ tables' = Append(tables, plan[c])
  /\ live' = (live \ demoted[c]) \cup {ver[c]}
  /\ status' = [d \in Deps |-> IF sets[c][d] = Keep THEN status[d] ELSE sets[c][d]]
  /\ EndTransaction(c)

\* A promotion only releases the savepoint; set_canary returns and the caller reports.
ReportPromote(c) ==
  /\ pc[c] = "commit"
  /\ op[c] = "promote"
  /\ pc' = [pc EXCEPT ![c] = "reported"]
  /\ UNCHANGED <<committed, lock, private>>

\* The caller closes the connection without a commit (CLI, dashboard, operator).
ClosePromote(c) == pc[c] = "reported" /\ RollBack(c)

\* The process dies or loses its connection: Postgres rolls the transaction back.
Crash(c) == pc[c] # "idle" /\ RollBack(c)

\* handle_push: one autonomous UPDATE of the deployment's status.
Push(d) ==
  /\ \A o \in Conns : sets[o][d] = Keep
  /\ \E s \in PushStatus : status' = [status EXCEPT ![d] = s]
  /\ UNCHANGED <<tables, live, lock, pc, private>>

-----------------------------------------------------------------------------
\* The statements of an open call, in order.
Statement(c) ==
  \/ ReadVersion(c)   \/ DemoteTable(c) \/ InsertTable(c) \/ DemoteDeps(c)
  \/ Activate(c)      \/ Commit(c)      \/ ReportPromote(c) \/ ClosePromote(c)

Next ==
  \/ \E c \in Conns :
       \/ \E d \in Deps : BeginFlip(c, d) \/ BeginPromote(c, d) \/ BeginCanary(c, d)
       \/ AdvisoryLock(c)
       \/ Statement(c)
       \/ Crash(c)
  \/ \E d \in Deps : Push(d)

Spec == Init /\ [][Next]_vars

\* A connection goes on with its statements, and Postgres grants the advisory lock to
\* the waiters in turn; nothing obliges anybody to start a call, to push or to crash.
Fairness == \A c \in Conns : WF_vars(Statement(c)) /\ SF_vars(AdvisoryLock(c))

FairSpec == Spec /\ Fairness

-----------------------------------------------------------------------------
(* The inductive invariant behind the theorems of RoutingTxnProofs. *)

\* Exactly the lock's holder is between its lock and the end of its transaction.
LockDiscipline == \A c \in Conns : pc[c] \in Locked <=> lock = c

\* One live table, the newest.
NewestIsLive == live = IF tables = <<>> THEN {} ELSE {Len(tables)}

\* What the holder has read and written is still what is committed.
PrivateCopyCurrent ==
  \A c \in Conns :
    /\ pc[c] \in {"demote", "insert"} \cup Inserted => ver[c] = Len(tables) + 1
    /\ pc[c] \in {"insert"} \cup Inserted => demoted[c] = live
    /\ pc[c] \in Inserted => plan[c] \in Table
    /\ pc[c] # "idle" /\ op[c] # "canary" => plan[c] = FullTo(dep[c])

\* The deployment rows a transaction has written, and what it left unwritten.
RowsWritten ==
  \A c \in Conns :
    /\ pc[c] = "demote_deps" => op[c] # "canary"
    /\ pc[c] \notin {"activate", "commit", "reported"} => sets[c] = NoSets
    /\ pc[c] \in {"activate", "commit", "reported"} =>
         \A e \in Deps \ {dep[c]} :
           IF op[c] # "canary" /\ status[e] = "active"
           THEN sets[c][e] = "rolled_back"
           ELSE sets[c][e] = Keep
    /\ pc[c] \in {"commit", "reported"} => sets[c][dep[c]] = "active"

IInv == TypeOK /\ LockDiscipline /\ NewestIsLive /\ PrivateCopyCurrent /\ RowsWritten

-----------------------------------------------------------------------------
\* Every caller and every gateway sees routing change as AtomicRouting says: the
\* statements of flip_routing and set_canary, interleaved with other connections,
\* pushes and crashes, take effect in one indivisible step or not at all.
Abstract == INSTANCE AtomicRouting WITH version <- LiveVersion, table <- LiveTable
ImplementsAtomicRouting == Abstract!Spec

\* No transaction fails on a UNIQUE constraint: whoever is about to insert read the
\* version after the last commit and has demoted every live row (routing.py's "order
\* matters" and its advisory lock).
InsertNeverCollides == \A c \in Conns : pc[c] = "insert" => Unique(c)

\* Weights of an installed table sum to 10000 basis points (the comment on
\* routing_rules.weight), however canaries were rounded and whatever table they read.
WeightsSumToFull ==
  \A v \in 1..Len(tables) : SumFunctionOnSet(tables[v].weight, Deps) = Full

\* Nobody waits for the advisory lock or a row for ever: every call ends.
EveryCallEnds == \A c \in Conns : pc[c] # "idle" ~> pc[c] = "idle"

\* A promotion that was reported to its caller stays installed when the caller is done.
ReportedPromotionIsInstalled ==
  [][\A c \in Conns : ClosePromote(c) => Len(tables') >= ver[c]]_vars
=============================================================================
