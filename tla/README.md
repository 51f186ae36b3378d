# agentctl, modelled in TLA+

agentctl is a control plane for AI agents: commits become deployments, a
versioned routing table splits live traffic between them, gateways follow that
table, an eval gate decides what may ship, and a rollback moves traffic *and*
external state (vector store, memory graph, schema) back to an earlier commit.
This directory holds its specifications, the TLC instances that check them and
the TLAPS proofs about them. Paths below are relative to `src/agentctl/`.

## The system

| Component | State it keeps | Operations | Talks to |
|---|---|---|---|
| Routing transactions `rollback/routing.py` | `routing_tables`, `routing_rules`, `deployments.status` in Postgres | `flip_routing`, `install_weighted`, `live_routing` | `NOTIFY routing_changed` to the gateways |
| Progressive rollout `rollback/rollout.py` | none of its own | `set_canary`, `gated_rollout` | routing, eval gate |
| Rollback orchestrator `rollback/rollback.py`, `manifest.py`, `audit.py` | `rollbacks`, `checkpoints`, `state_pointers`, `audit_log` | `rollback_to_commit`, `_realign_state`, `resume_rollback`, `seal_checkpoint` | routing, state stores |
| State stores `rollback/stores/` | alias, HEAD, migration version | `restore`, `live_digest` | Postgres, Qdrant, Pinecone or a JSON file |
| Push webhook `control/webhook.py` | `deployments`, in-memory registry of previews | `handle_push`, `teardown_preview` | runtimes |
| Push pipeline `cli/main.py` | none of its own | `run_push` | webhook, routing, gate, runtimes |
| Isolated runtimes `runtime/isolated.py` | agent processes, ports | provision, health check, tear down | agents |
| Route cache `gateway/pg_route_cache.py`, `gateway_core/.../pg_route.go` | the backends of the live table, its version | load, LISTEN, poll | Postgres |
| Gateway `gateway/proxy.py`, `shadow.py`, `router.py`; Go: `gateway_core/internal/gateway/` | open sessions, queues to primary and shadows | `Converse`, raw streams | route cache, agents |
| WebSocket edge `edge/ws_bridge.py` | the bridge's outbound queue | relay, half-close, cancel | gateway |
| Auth `auth/`, `gateway_core/.../auth.go` | keys, bindings; the Go gateway's cache of them | resolve, authorize, `agentctl auth` | Postgres |
| Eval gate `eval/` | none | `evaluate_gate`, `sprt_stream`, `aggregate_pr`, `gate_pr` | judges |
| Eval store `storage/duckdb_store.py`, `eval/ingest.py` | runs, samples, verdicts in one DuckDB file | ingest, gate | CI, GitHub App, operator |
| GitOps gate `gitops/`, Operator `operator/` | a pull request's status; `.status.phase` | webhook, `agentctl gate --github` of a pull request or (`--run-id`) of one run, reconcile | eval store, routing, GitHub |
| Sandbox `runtime/sandbox_interceptor.py`, `mocking/` | cassettes, stubs, a stand-in store | intercept a tool call, record, replay | agents' tools |
| Dashboard, telemetry | none that decides anything | render, export | the above |

The hard behaviours: independent processes (CLI, dashboard, operator, push
pipeline, gateways) share Postgres rows without sharing memory; a rollback and a
push are sequences of separate commits and calls, any of which can be the last
one; what one process has read may be old when it acts on it; a session is
several tasks that wait for each other and for streams that may never move; and
one DuckDB file is wanted by processes that exclude each other. What makes each
component correct:

* routing: a flip is indivisible, versions do not collide, weights sum to
  10000, no call waits for ever, what was reported is installed;
* rollback: an outcome is honest (nothing irreversible is hidden behind
  `completed`), everything it admits is audited, a crashed rollback can be
  found and finished, stores left apart are owned up to;
* state stores: every backend gives a rollback the same live namespace and the
  same vectors, a rewound log loses nothing, a schema never goes down;
* sandbox: in preview only tools that read run, a recorded answer is replayed;
* route cache: every gateway eventually serves the live version, never a torn
  one, whatever notifications are lost;
* gateway: frames arrive once and in order, a shadow never alters the live
  stream nor, once its own stream is open, delays it (Go waits for each shadow's
  stream to open first), teardown ends and leaves nothing behind;
* auth: a revoked key stops working within the cache's lifetime, tenants are
  kept apart;
* push: a preview is answered by its own agent and does not outlive its push,
  what is sealed is what that preview did (or the hard-coded call of a turn that
  called no tool), live status means live traffic;
* gate: nothing ships on half an ingest or on evidence that is not the store's,
  no blocked suite is hidden from the pull request's status unless a single run
  was asked for (`--run-id`), the two tests over one push do not contradict each
  other.

`PROJECT.json` lists every component with its status, and the hazards with the
line each one bites at.

## Modules

| Module | Models | Correspondence |
|---|---|---|
| `RoutingTables` | the data: tables, statuses, the arithmetic of `set_canary` and `_split_primaries` | Python's `round` with ties to even, the 1 to 9999 clamp, the drift on a heaviest arm |
| `AtomicRouting` | what routing promises | flip, canary and push as single steps |
| `RoutingTxn` | the SQL of `routing.py` and its callers, statement by statement | one action per statement; `plan`, `ver`, `demoted`, `sets` are a connection's uncommitted copy, merged by `Commit` and dropped by `RollBack` |
| `Rollback` | Phases 0 to 4 commit by commit, crashes, resumes, and the deploys, canaries, pushes and seals around them | `pc` is the next commit or store call of an operator process; the routing step is `AtomicRouting!Flip` |
| `Stores` | the operations of the four vector stores, the two memory graphs and the schema store, and which of them a process uses | functions from a store's content to the next one; `...View` is what a rollback sees of a store |
| `StoreChecks` | `Stores` against definitions that do not say how | ASSUMEs TLC evaluates |
| `Sandbox`, `SandboxChecks` | the interceptor, the registry and the cassettes; checks | one function per method; ASSUMEs |
| `RouteCache` | a gateway's copy of the live table and the watcher that refreshes it: Python's thread, Python's asyncio task, Go | `pc` is the watcher's loop, `conn` and `notes` its LISTEN connection and what waits on it, `got` a result read and not yet swapped in |
| `Relay` | what a session promises client and primary | no shadow, queue or task appears in it |
| `ProxySession` | one session of the Python or the Go gateway, direct or through the bridge | `pc` is the handler, `pump` the task that copies the client's frames, a `lane` one `ShadowChannel` or `shadowPipe` with its writer, drainer and call |
| `Router` | `weighted_pick` and `WeightedPick` | the arm whose cumulative range holds the key |
| `KeyCache` | keys, users, bindings and the commands on them; the four planes that resolve a key | a request reads the rows at one step and stores, answers or acts at a later one; time is ages and ticks left |
| `Gate` | the verdicts: `evaluate_gate` over counts, the sequential test, Benjamini-Hochberg, `aggregate_pr` | the Wilson bounds compared by cross-multiplied integers |
| `GateChecks` | `Gate` and `Router` against definitions that do not say how | ASSUMEs TLC evaluates |
| `PushPipeline` | `run_push` and the webhook's pushes, with their agents, ports, endpoint records and seals | `run[p].pc` is the next commit, process call or file a push touches; flips are `AtomicRouting`'s, verdicts `Gate`'s |
| `Evidence` | runs, samples and verdicts of a pull request in DuckDB; CI, GitHub App threads and operator | one action per statement; `holder` is the process that has the file; verdicts are aggregated by `Gate` |
| `RoutingTxnProofs`, `RollbackProofs`, `RouteCacheProofs`, `ProxySessionProofs`, `KeyCacheProofs`, `PushPipelineProofs`, `EvidenceProofs`, `StoresProofs` | theorems | |
| `MCRoutingTxn`, `MCRollback`, `MCRouteCache`, `MCProxySession`, `MCKeyCache`, `MCPushPipeline`, `MCEvidence` | instances for TLC | |

How they fit. `RoutingTxn` implements `AtomicRouting` (with `version` the live
row's version and `table` its rules), and `Rollback`, `RouteCache` and
`PushPipeline` are built on `AtomicRouting`'s steps: what is shown of them does
not have to interleave the statements of a flip again. `PushPipeline` and
`Evidence` judge with `Gate`. `ProxySession` implements `Relay`. `Rollback` has a
store's pointer only, which is all its steps depend on; `Stores` is the rest of
the stores, and `StoresProofs` shows that all four vector stores move that
pointer, and nothing else, in the same way.

Abstractions. One project (the lock, the indexes and every query are per
project), except in `KeyCache`, where two tenants are the point. A deployment is
a model value; a coordinate is the deployment it belongs to, and a digest is the
coordinate. Reasons, actors and payloads are left out. `RowFree` is a row lock:
an UPDATE waits for another transaction's write. The advisory lock and READ
COMMITTED are Postgres'; deadlock detection is not modelled, and `EveryCallEnds`
shows it is not needed. `Row` carries four fields the code does not have
(`owed`, `demoted`, `version`, `shared`): history that the properties speak of and no
guard reads. So are `broken` (rows are missing from a copy) in `RouteCache`,
`age` in `KeyCache`, `lagging`, `flipped` and `leaked` in `PushPipeline`, and
`cut` in `Evidence`. `heard` in `ProxySession` is what the client has read: the
handler's next answer waits for room in its window.

A store's `restore` is one atomic call, which the Postgres, Qdrant and Pinecone
stores make it and the JSON stubs, "not concurrency-safe" by their own comment,
do not. In `Stores` a vector is its id (embeddings are zero), an event is a
value, and the digest of a coordinate is the coordinate; a server's refusal or
failure is modelled where the code depends on it (Qdrant's alias of a missing
collection), not as such. In `RouteCache` a table is its version and rules (endpoints and tags are
read in the same query and left out), and a connection can be lost for a while
before its watcher notices; back-off times, stopping a watcher and the static
stub of `route_cache.py` are left out. In `ProxySession` a frame is its number,
a stream holds `Window` messages (flow control) in either direction, and a
backend is anything that may be dialled, take, answer, end, stall or fail. Go
opens its streams before it copies the first frame, the primary's in the state
`dial` and the shadows' in `mirror`; Python's calls open in the background. A
table of rules without arms, on which the pick raises (`gateway/router.py:50`)
or panics (`router.go:46`), is a session that is aborted. Sessions share counters and pooled
channels only, so one is modelled. In `KeyCache` a secret, its hash and its
prefix are one value. The code puts no bound on the time a query takes; `MaxQuery`
does, and `AnswersAreRecent` is stated in terms of it. In `PushPipeline` the
judge of a push gives one of a few preference sequences, each process pushes
once, and `HardCoded` is the `issue_refund` that `cli/main.py:286` seals when the
turn called no tool. In `Evidence` what a suite's samples amount to is the verdict
`evaluate_gate` gives them, and a suite is its place in the order of names; the
CI's gate may be asked for the pull request or for any one run, an unknown one
included. In `Stores` Pinecone's namespaces belong to one project each: project
names one of which is the beginning of another are not modelled.

## Runs

| Run | Instance | Shows |
|---|---|---|
| `routing` | 2 connections, 3 deployments, 3 canary weights, at most 3 versions counting open calls | `InsertNeverCollides`, `WeightsSumToFull`, `ImplementsAtomicRouting`, `EveryCallEnds` |
| `promote` | the same | violated: a promotion that was reported is rolled back by the close |
| `rollback` | 1 operator, 3 deployments, 2 rollbacks, 1 crash, resumes, pushes, 2 routing versions | `CompletedHidesNothing`, `UnrollbackableAudited`, `ResumableFinishes` |
| `rollback_pair` | 2 operators, 2 deployments, 2 rollbacks, 1 crash, resumes | `SplitStateIsOwned` |
| `flip_window` | 1 operator, 1 rollback, 1 crash | violated: a crash after the flip's commit leaves a rollback no resume finds |
| `demoted_arm` | 1 operator, 1 rollback, no crash | violated: an arm activated after Phase 0 is demoted and not inspected |
| `routes` | 1 gateway of each kind in turn, 2 deployments, 3 routing changes, 2 failures | `NeverTorn`, `NeverGoesBack`, `CatchesUp` |
| `go_reload` | 1 Go gateway, the same | violated: a result that breaks off leaves part of a table for ever |
| `session` | 1 session of each gateway in turn, direct or bridged, 1 shadow that may open late or never, 3 frames, 2 answers, windows and queue of 1 | `ImplementsRelay`, `LanesReleased`, `LanesFlush`, `ShadowNeverThrottles`, `SessionEnds` |
| `auth` | 2 requests at a time, a key of each of two tenants (one of a user), TTL 2, query time 1 | `AnswersAreRecent`, `OwnersOnly` |
| `push` | 2 pushes, 2 commits, 2 ports, turns without a tool call or without an end, kills and lost databases at any step | `NothingOutlivesItsPush`, `PreviewAnswers`, `StreamedIsOwn`, `ActiveServes`, `NeverContradict`, `PushEnds` |
| `evidence` | 2 commits, 2 suites, CI, 2 threads, operator, 2 ingests, 2 gates (of the pull request or of one run), 1 kill | `GateSeesWholeRuns`, `VerdictIsCurrent`, `BlockedIsNotGreen`, `ReconcileSettles` |

Every run that passes checks its module's `TypeOK` as well. The violated runs
are disagreements with a comment, a docstring or the repository's README;
`PROJECT.json` quotes each under `findings`.

TLC evaluates the ASSUMEs of `GateChecks` with `push`: the gate's interval
blocks and allows exactly as the definition of the Wilson interval says
(`IntervalDecides`), a win in place of a loss or a tie never makes a verdict
worse (`WinsHelp`), a crossing at the program's own bound is never contradicted
by the interval up to 300 samples (`CrossingAgrees`), `bh_reject` is the step-up
rule (`StepUp`), and over a period of keys each arm is picked as often as its
weight (`PickIsProportional`). With it go those of `SandboxChecks`: after any two
calls in preview only tools that read, and have no side effects, have run, each
call was let through or caught, and the stand-in store holds the last write of
each key (`PreviewRunsNothing`); a recorded answer is replayed before any stub
until the tool's schema changes, unless it is null (`RecordedIsReplayed`).

With the rollback runs go those of `StoreChecks`: after any four calls the three
servers agree on the live namespace and its vectors, and with what was written
and made live since the last reset (`BackendsAgree`); after any three moves of a
memory graph no event is lost or changed and what is in effect begins the log
(`LogIsKept`); restores never take the schema down (`SchemaNeverGoesDown`); and a
rollback uses the stores `seed` has filled, except Pinecone's
(`SeededStoresAreUsed`).

### Bounds

Two connections are the fewest that race, and the third version is needed for a
canary of a canary, whose shares are the ones that round: 50000 then 93750
(thousandths of a percent) leave two arms of 5000 and a budget of 625, a tie at
312.5 each, so that the drift is exercised; 99999 meets the clamp. Two rollbacks
are the fewest that disagree about the stores; one crash is enough for a resume,
which in `rollback_pair` may also take up a rollback whose process is alive.
In `MCRollback`, `a` and `b` are `seed.py`'s two deployments (b has the later
migration and a payment) and `p` is a pushed deployment that is sealed only
while the run goes on. Gateways share nothing but the database, so `routes`
starts one and lets its kind vary; two failures lose a notification and then
fail the query of the recovery.

`session`: with a window and a queue of one, the second frame fills the stream
and the third the lane, so that waiting, dropping and flushing all happen; lanes
do not read each other, so one stands for many (the proofs have any number).
`auth`: a TTL of two ticks and a query of one let a result be older when it is
stored than a fresh one is when it expires. `push`: two pushes may share the
commit, the port, both or neither. The sequential test's bound and level are
scaled down together (2 and z2 = 0.4 for 15 and 3.841), which keeps the relation
the two have in the program, as `CrossingAgrees` checks at the program's own
values: an early crossing clears the interval, a late one does not. `evidence`:
two suites are the fewest that can be half ingested, two threads the fewest that
collide in one process, and the operator and the CI exclude them and each other.

Rollbacks, routing changes, frames, pushes and commands are bounded by guards;
when they are used up the system rests, hence `CHECK_DEADLOCK FALSE` in the runs
where that happens (`rollback`, `push`, `evidence` and their companions).
`routing`, `session` and `auth` are checked for deadlock.

### Fairness

* `routing`: a connection goes on with its statements (WF), and Postgres queues
  the waiters for the advisory lock, so one who waits for ever is not passed for
  ever (SF). Nobody is obliged to start a call, push or crash.
* `rollback`: an open call goes on, and an operator runs `resume` when there is
  something to resume (WF); the code has no timer that would do it, so
  `ResumableFinishes` says what the resume command achieves, not that somebody
  runs it. Crashes are bounded, without which nothing would finish.
* `routes`: a watcher's loop goes on and a lost connection is noticed (WF), and
  a waiting notification is not passed over for ever by Go's random `select`
  (SF). Routing changes are bounded, as `CatchesUp` speaks of routing come to
  rest.
* `session`: the event loop or scheduler runs the handler and the pump when they
  can run, the timeout of a lane's close fires, a bridge whose direction is over
  cancels its call, and a primary lets itself be dialled (or refuses), takes what
  is written to it, and ends when it has seen the end of its input.
  Nothing is assumed of a shadow, not even that its stream opens, nor of the
  client, not even that it reads, nor of a primary whose input is still open. Two
  waits can then last for ever, and the liveness properties name them:
  `WaitsForShadow`, Go's for a shadow's stream to open, which the client's leaving
  does not end (`SessionEnds`, `ShadowNeverThrottles`), and `WaitsForReader`, that
  for a half-closed client which stays and reads no more (`SessionEnds`).
* `push`: every push goes on (WF). Its health check has a deadline; the proof's
  turn has none (`cli/main.py:201`), so `Turn` is under no fairness, and
  `PushEnds` names a push that stays in it.
* `evidence`: every command, thread and reconcile goes on (WF). Other processes
  may have the file again and again, but their commands are bounded; Postgres is
  not away for ever (SF on `Rollout`), which is what kopf's retries rely on.

## Proofs

For every set of deployments, connections, operators, gateways, shadows, keys,
pushers, commits and threads, and every bound:

* `TypeCorrect`, `NoInsertCollides` (`RoutingTxnProofs`). Neither is inductive.
  `IInv` adds that the lock's holder is exactly the connection between its lock
  and the end of its transaction (`LockDiscipline`), that the newest version is
  the live one (`NewestIsLive`), that what the holder has read and demoted is
  still what is committed (`PrivateCopyCurrent`), and which rows a transaction
  has written (`RowsWritten`). Mutual exclusion keeps the private copy current,
  and the current copy makes the insert unique.
* `Refinement`: the initial states map, `Commit` of a flip maps to
  `AtomicRouting!Flip`, of a canary to `InstallCanary`, a push to `Push`, and
  every other step to a stutter. It needs `RowsWritten`: the rows a flip demotes
  were chosen before its commit, and a push in between has to wait for them.
* `TablesSumToFull` (`RoutingTxnProofs`): the weights of every table that is
  installed sum to 10000, by `set_canary`'s arithmetic alone. `CanarySharesOut`
  is the lemma behind it: whatever table the canary starts from, the rounded
  shares and the drift that is given to a heaviest arm add up to the budget. As
  the sum is a fold over a set, the proof does not use induction over the data
  but a least counterexample: of the finite sets of arms for which a law of sums
  fails, one of least size, from which an arm is taken.
* `RollbackTypeCorrect`, `HonestOutcome`, `AuditedOutcome` (`RollbackProofs`).
  `IInv` adds that what Phase 0 read is in the row (`OwedInRow`; a seal is for
  ever), that a run of Phases 2 to 4 has every owed arm still to inspect or
  already on its list (`OwedIsCarried`), and that an item is audited before the
  list can reach the row (`ListIsAudited`). A crash drops the run, not the row,
  so a resumed run starts from the same `from_deps`.
* `SplitIsOwned` (`RollbackProofs`): two rollbacks may take the two reversible
  stores to different deployments, but then one of them lists the drift, for any
  number of operators, crashes and resumes, unless a rollback was resumed while
  its process ran. `SplitInv` says of an unshared row
  that at most one process works on it, at a place that fits the row's status
  (`RowsAreOwned`), and that while the stores are apart some rollback answers for
  it (`SplitIsAnswered`): it has listed the drift, or it is in Phase 3 or about to
  be resumed there, with both stores among its pointers, and if it already looks
  at digests it has found one off the target or has one still to find. The answer
  moves: whoever restores a store last answers from then on.
* `CacheTypeCorrect`, `NotTorn`, `Forward` (`RouteCacheProofs`). `IInv` adds
  that the history of tables is complete (`HistoryIsComplete`) and that what a
  watcher has read was live and is not older than what it serves (`ReadWasLive`):
  one watcher reads and stores, and tables are never changed once installed.
* `SessionTypes`, `LanesAreReleased`, `LanesHaveFlushed` (`ProxySessionProofs`).
  `SessionInv` ties what the primary has received to what the pump has read and
  written while its call is up; `LaneInv` is an account: mirrored, dropped,
  queued and in the writer's hand add up to what the pump has written, as long
  as the lane's call lives, and a lane is told to end by a pump that is done.
* `SessionImplementsRelay`: every step of pump, handler, primary, bridge and
  teardown maps to a step of `Relay` or a stutter; every lane's step is a
  stutter, whatever the lane does. It needs `SessionInv`, for the next frame to
  be the next one and for the end of the input to come last.
* `KeyTypesHold`, `RecentAnswers`, `OwnersDecide` (`KeyCacheProofs`). `IInv` adds
  what a request was told and when (`Told`), and that a cached result was read at
  most `MaxQuery` before it was stored, `TTL - left` ticks ago
  (`StoredWasCurrent`).
* `PushTypes`, `AgentsEnd`, `PreviewIsOwn`, `SealedIsOwn`, `ActiveIsLive`
  (`PushPipelineProofs`). `SealedIsOwn` says that no push seals another
  deployment's tool call: it seals its own preview's or, of a turn without one,
  the hard-coded one. `PusherInv` follows a push: the port it found, its agent
  on that port or none, the endpoint it recorded, the proof's flip that is live
  until the next version, the tool call it met. Another push disturbs a part of
  it only by the exceptions the properties name. `OneServes`: no canary here, so
  one deployment has all the traffic.
* `TestsAgree` (`PushPipelineProofs`): what the sequential test decided, the
  interval over the same samples does not contradict, for any samples, bound and
  level. Of the sequential test's verdict only this is used: at a crossing wins and
  losses differ by the bound, in the direction of the verdict. So the rate lies on
  that side of one half, the default margin, and the interval contains it.
* `EvidenceTypes`, `NoHalfIngestIsJudged`, `PostedIsCurrent`, `GreenIsNotBlocked`
  (`EvidenceProofs`). `FileInv`: whoever reads or writes the file belongs to the
  process that holds it. As the CI is a process of one thread, its ingest
  excludes every gate, its own included. `IngestInv`: an ingest has completed the
  suites before the one it is at, and a commit in pieces is being ingested or was
  when the command was killed. `Covers`: every suite with a run is decided by one
  of its runs, or waits for one; `CoversRun`: a command asked for one run has that
  run to judge or has judged it, and no other. So `GreenIsNotBlocked` has one
  exception, the post of a single run that does not block.

The proofs assume only the named ASSUMEs of the modules, and TLC agreed with
each `IInv` on these instances before it was proved. `StoresProofs` proves the
contract of the stores, for any projects, namespaces and ids: `StubKeepsContract`,
`PgKeepsContract`, `QdrantKeepsContract` and `PineconeKeepsContract` (an upsert
extends one namespace, an alias moves the pointer, a reset empties, and no other
project sees it; of Pinecone's reset, which swallows errors, only that it adds
nothing and that no other project sees it), `RewindIsUndone` and `AppendAfterRewind` about the memory log,
and `SchemaOnlyGoesUp`.

Every safety invariant and action property of the passing runs is proved.
Model-checked only:

* liveness, which is beyond the prover: `EveryCallEnds`, `ResumableFinishes`,
  `CatchesUp`, `ShadowNeverThrottles`, `SessionEnds`, `PushEnds`,
  `ReconcileSettles`;
* what recursive functions and folds compute for every input (`GateChecks`,
  `StoreChecks`, `SandboxChecks`), which would need induction over the data.

## What the models show the code not to guarantee

Beside the findings, these were met while modelling. They are how the code is
written and contradict no line precisely enough to be a run of their own; where
a property leaves one out, its comment says so.

* A BLOCK after a streaming proof does not flip back: the preview stays live,
  with an endpoint that the finally block tears down, under the banner "main
  protected" (`cli/main.py:429`). ALLOW tears the runtime down, too.
* The database failing between the agent's start and `handle_push`'s return
  leaves the agent running: the finally block has no `dep_id` (`cli/main.py:441`).
* Two pushes of one commit replace each other's endpoint record, and `free_port`
  may find two pushes the same port. A tool call streamed meanwhile, or through
  a gateway that lags, is sealed for the wrong commit.
* A pump that failed, or was cut off by the client while the handler settled,
  never closes its lanes (`gateway/proxy.py:95`): their tasks and calls stay. The
  Go gateway stops a lane's writer but neither half-closes nor cancels its call,
  which has a background context: it is open until the shadow's backend ends it.
* The Go gateway opens each shadow's stream with a call that waits, on a context
  nobody cancels, before the pump sends the primary its first frame
  (`gateway_core/internal/gateway/proxy.go:81`, `proxy_raw.go:52`): a shadow that
  is connecting delays the live stream, one with no stream left holds it, and the
  handler stays after its client has gone.
* A client that half-closes, stays and reads no more keeps its session: no
  answer to it has a deadline (`gateway/proxy.py:76`, `proxy.go:130`).
* A live table without rules ends each session in an `IndexError`
  (`gateway/router.py:50`) or a panic (`router.go:46`).
* A turn without a tool call is sealed as an `issue_refund` with call id `n/a`
  (`cli/main.py:286`), though the comment at 273 says "not a hardcoded one". The
  turn has no deadline (201): an agent that never ends it holds the push.
* `agentctl gate --run-id X --github` posts the verdict of that run under the
  status the whole pull request has (`cli/__init__.py:134`): one passing run
  turns a commit green while another suite is blocked in every run.
* Pinecone's reset swallows every error (`rollback/stores/pinecone_store.py:93`)
  and returns as if all were gone, whatever is left.
* The runs of any commit of a pull request decide its gate, stale heads
  included; of two runs of one suite, the one an unordered query returns later
  wins. A killed ingest is judged by the samples it left. No run at all is ALLOW
  for the CI and the operator. Two deliveries handled at once may collide on the
  verdict's primary key, and the loser is answered as having no eval runs.
* A result of the key query that is stored late is used for a full TTL; entries
  are replaced, never evicted. A stream goes on after its key is revoked, as only
  its start is authorized. `create-key --user` sets the role of all the user's
  keys in the project. The CLI without a key acts as the bootstrap owner even
  with `AGENTCTL_REQUIRE_KEY=1`.
* A rollback resumed after a later routing change takes the stores to a
  deployment that no longer serves (`rollback/rollback.py:217`).
* A resume can take up a rollback whose process is alive (216 against 118). The
  later outcome overwrites the earlier, which may have owned up to stores that
  are apart: `SplitStateIsOwned` holds through crashes and resumes except for such
  a rollback.
* `MemoryGraphStub.append` moves the HEAD to the end of the log and so brings
  back what a rewind tombstoned; `PgMemoryStore.append_many`, of the "same
  contract", leaves the HEAD alone, and what is appended is tombstoned
  (`AppendAfterRewind`). A snapshot that is frozen twice is replaced by the JSON
  stub and kept by Postgres.
* With `AGENTCTL_STATE_BACKEND=pinecone`, `seed` writes the vectors to the JSON
  stub (`rollback/seed.py:104`) while a rollback moves Pinecone's pointer: to a
  namespace without vectors, and reports it restored, as a digest is of the
  namespace's name only.
* A cassette that recorded null is never replayed (`mocking/registry.py:44`).
* `set_canary` splits the rules it read before the lock, so a rollback in between
  may see an arm it demoted come back with traffic.

## Not modelled

* Dashboard and status: they read and render; their buttons call the functions
  modelled here.
* What a tool, a stub or a schema's generated answer computes, in the sandbox.
* `DockerRuntime`, which no push uses; the start-up of processes, containers and
  of the Go gateway's `main.go`.
* Judges and their prompts, `anytime_evaluate`, posteriors and p-values, which
  are reported and decide nothing; `eval/api.py`, which only reads.
* The byte scanning of `wire.py` and `wire.go`, frame translation, metrics,
  telemetry, the channel pool.
* A gateway without a database, which only asks for a key to be present; an
  unset project.
* The JSON stubs' unlocked read-modify-write (`rollback/stores/base.py:48`), for
  a single process by their own comment.

## Plan

Done: routing, its abstraction and refinement; rollback; route cache; sessions,
their abstraction and refinement; keys; gate and router; push; evidence; the
stores and the sandbox as functions. The safety properties are proved. Next:

1. The rounding of `set_canary` with five arms, where the drift may make the
   largest weight negative, as a check of the arithmetic alone.
2. A session opened through `RouteCache`'s copy and `Router`'s pick, for what a
   client sees across a flip.
3. The JSON stubs as stores of several processes, if they are ever to be shared.
