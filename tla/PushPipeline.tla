----------------------------- MODULE PushPipeline -----------------------------
(***************************************************************************)
(* agentctl push (cli/main.py run_push) and the webhook's pushes: each is  *)
(* a process that registers a commit's deployment, starts a preview agent  *)
(* on a port it found free, may make the preview live and stream a turn    *)
(* through the gateway, evaluates, and merges or not.  Pushes, possibly of *)
(* the same commit, run side by side; any may be killed or lose the        *)
(* database at any step.  Routing changes are AtomicRouting's steps.       *)
(***************************************************************************)
EXTENDS RoutingTables, Gate

CONSTANTS Pushers,
          Ports, NoPort,
          Nobody,       \* before a turn was streamed, or anything sealed
          HardCoded,    \* the "issue_refund" that is sealed for a turn without a tool call
          First,        \* the deployment that serves at first
          SuitePrefs,   \* preference sequences the synthetic judge may give
          Bound,        \* the sequential test's threshold, in net wins
          Level         \* z2, in thousandths, of both tests

ASSUME PipelineConstants ==
  /\ NoPort \notin Ports /\ Nobody \notin Deps /\ HardCoded \notin Deps /\ First \in Deps
  /\ SuitePrefs \subseteq Seq(Preferences)
  /\ Bound \in Nat \ {0} /\ Level \in Nat \ {0}

VARIABLES version, table, status,  \* AtomicRouting's variables
          endpoint,  \* build_meta.endpoint of every deployment
          gateway,   \* the commit a running gateway's copy of the table routes to
          agent,     \* port on which a push's agent process listens
          stored,    \* gate_result of the run <commit>-<suite> in DuckDB
          seal,      \* the tool call sealed into a commit's checkpoint, by its agent's commit
          run        \* the pushes

Routing == INSTANCE AtomicRouting

routing == <<version, table, status>>
vars == <<routing, endpoint, gateway, agent, stored, seal, run>>

\* "hook": webhook_git and `webhook simulate`; "bare": --no-provision; "stream": an agent
\* with streaming: true.
Modes == {"hook", "bare", "preview", "stream"}
Provisions(mode) == mode \in {"preview", "stream"}

Running == {"upsert", "building", "port", "launch", "health", "record", "ready",
            "flip", "stream", "seal", "eval", "persist", "merge", "teardown"}

Run == [pc : Running \cup {"idle", "done", "killed"},
        mode : Modes, commit : Deps,
        port : Ports \cup {NoPort},
        known : BOOLEAN,                       \* run_push has its dep_id
        flipped : Nat,                         \* version its proof's flip installed
        tool : Deps \cup {Nobody, HardCoded},  \* whose tool call it streamed
        lagging : BOOLEAN,                     \* streamed through a gateway already running
        verdict : Verdicts \cup {"none"},      \* of the sequential test
        gate : Verdicts \cup {"none"},         \* what it stored
        leaked : BOOLEAN]                      \* the database failed before dep_id was known

TypeOK ==
  /\ Routing!TypeOK
  /\ endpoint \in [Deps -> Ports \cup {NoPort}]
  /\ gateway \in Deps
  /\ agent \in [Pushers -> Ports \cup {NoPort}]
  /\ stored \in [Deps -> Verdicts \cup {"none"}]
  /\ seal \in [Deps -> Deps \cup {Nobody, HardCoded}]
  /\ run \in [Pushers -> Run]

NewRun(mode, c, pc) ==
  [pc |-> pc, mode |-> mode, commit |-> c, port |-> NoPort, known |-> FALSE, flipped |-> 0,
   tool |-> Nobody, lagging |-> FALSE, verdict |-> "none", gate |-> "none", leaked |-> FALSE]

\* One deployment serves; the others are as earlier rollouts left them.
Init ==
  /\ version = 1
  /\ table = FullTo(First) /\ gateway = First
  /\ status = [d \in Deps |-> IF d = First THEN "active" ELSE "rolled_back"]
  /\ run = [p \in Pushers |-> NewRun("hook", First, "idle")]
  /\ endpoint = [d \in Deps |-> NoPort]
  /\ agent = [p \in Pushers |-> NoPort]
  /\ stored = [d \in Deps |-> "none"]
  /\ seal = [d \in Deps |-> Nobody]

-----------------------------------------------------------------------------
At(p, pc) == run[p].pc = pc
Commit(p) == run[p].commit
Goto(p, pc) == run' = [run EXCEPT ![p].pc = pc]

\* What is left of a push that is over.
Ended(p, pc, leaked) ==
  [run EXCEPT ![p] = [NewRun("hook", Commit(p), pc) EXCEPT !.port = run[p].port, !.leaked = leaked]]

LiveCommit == CHOOSE d \in Deps : table.weight[d] = Full

\* What the gateway of a proof routes to: one that was running may lag, one started for
\* it has loaded the live table before it is healthy.
Routed(lagging) == IF lagging THEN gateway ELSE LiveCommit

\* Agents bind with SO_REUSEPORT: several may listen on one port, and any may answer.
Answering(port) == {p \in Pushers : port # NoPort /\ agent[p] = port}

SetStatus(p, s) ==
  /\ status' = [status EXCEPT ![Commit(p)] = s]
  /\ UNCHANGED <<version, table, endpoint, gateway, agent, stored, seal>>

-----------------------------------------------------------------------------
(* handle_push. *)

Begin(p, mode, c) ==
  /\ At(p, "idle")
  /\ run' = [run EXCEPT ![p] = NewRun(mode, c, "upsert")]
  /\ UNCHANGED <<routing, endpoint, gateway, agent, stored, seal>>

\* run_push and webhook_git, which never provisions.  Callers that are refused (exit code
\* 4, HTTP 401 and 403) do nothing.
Command(p, mode, c) == mode # "hook" /\ Begin(p, mode, c)
Hook(p, c) == Begin(p, "hook", c)

\* ON CONFLICT: the row of a commit pushed before goes back to 'queued'.
Upsert(p) == At(p, "upsert") /\ SetStatus(p, "queued") /\ Goto(p, "building")

Build(p) ==
  /\ At(p, "building") /\ SetStatus(p, "building")
  /\ Goto(p, IF Provisions(run[p].mode) THEN "port" ELSE "ready")

\* free_port: a port nobody listens on now.
FreePort(p) ==
  /\ At(p, "port")
  /\ \E port \in Ports :
       /\ Answering(port) = {}
       /\ run' = [run EXCEPT ![p].port = port, ![p].pc = "launch"]
  /\ UNCHANGED <<routing, endpoint, gateway, agent, stored, seal>>

\* Popen: the agent comes up, or dies as it starts.
Launch(p) ==
  /\ At(p, "launch")
  /\ \E port \in {run[p].port, NoPort} : agent' = [agent EXCEPT ![p] = port]
  /\ Goto(p, "health")
  /\ UNCHANGED <<routing, endpoint, gateway, stored, seal>>

\* Mutant of Healthy: a started process is taken for a healthy one.
HealthySkipped(p) ==
  /\ At(p, "health")
  /\ Goto(p, "record")
  /\ UNCHANGED <<routing, endpoint, gateway, agent, stored, seal>>

\* grpc_agent_health asks the endpoint, whoever answers there.
Healthy(p) ==
  /\ At(p, "health") /\ Answering(run[p].port) # {}
  /\ Goto(p, "record")
  /\ UNCHANGED <<routing, endpoint, gateway, agent, stored, seal>>

\* Mutant of Unhealthy: the process that did not come up is left alone.
UnhealthyLeft(p) ==
  /\ At(p, "health")
  /\ run' = Ended(p, "done", FALSE)
  /\ UNCHANGED <<routing, endpoint, gateway, agent, stored, seal>>

\* Mutant of Unhealthy: without a deadline only a dead process ends the polling.
UnhealthyWaits(p) ==
  /\ At(p, "health") /\ agent[p] # NoPort /\ Answering(run[p].port) = {}
  /\ agent' = [agent EXCEPT ![p] = NoPort]
  /\ run' = Ended(p, "done", FALSE)
  /\ UNCHANGED <<routing, endpoint, gateway, stored, seal>>

\* The deadline passes: the process is torn down, the push raises and the deployment
\* stays 'building'.
Unhealthy(p) ==
  /\ At(p, "health")
  /\ agent' = [agent EXCEPT ![p] = NoPort]
  /\ run' = Ended(p, "done", FALSE)
  /\ UNCHANGED <<routing, endpoint, gateway, stored, seal>>

\* _merge_build_meta: the endpoint that gateways read for the commit.
Record(p) ==
  /\ At(p, "record")
  /\ endpoint' = [endpoint EXCEPT ![Commit(p)] = run[p].port]
  /\ Goto(p, "ready")
  /\ UNCHANGED <<routing, gateway, agent, stored, seal>>

Ready(p) ==
  /\ At(p, "ready") /\ SetStatus(p, "ready")
  /\ run' = IF run[p].mode = "hook" THEN Ended(p, "done", FALSE)
            ELSE [run EXCEPT ![p] = [@ EXCEPT !.known = TRUE,
                                              !.pc = IF run[p].mode = "stream" THEN "flip" ELSE "eval"]]

-----------------------------------------------------------------------------
(* The streaming proof.  Its errors are caught and the push goes on. *)

\* Mutant of GoLive: the turn is streamed before the flip.
GoLiveLater(p) ==
  /\ At(p, "flip")
  /\ run' = [run EXCEPT ![p] = [@ EXCEPT !.pc = "stream", !.flipped = version]]
  /\ UNCHANGED <<routing, endpoint, gateway, agent, stored, seal>>

\* The preview becomes the live route before anything is evaluated.
GoLive(p) ==
  /\ At(p, "flip")
  /\ Routing!Flip(Commit(p))
  /\ run' = [run EXCEPT ![p] = [@ EXCEPT !.pc = "stream", !.flipped = version + 1]]
  /\ UNCHANGED <<endpoint, gateway, agent, stored, seal>>

\* A running gateway follows the live table with a delay.
Reload == /\ gateway' = LiveCommit
          /\ UNCHANGED <<routing, endpoint, agent, stored, seal, run>>

\* The turn goes through the gateway to whatever agent answers at the endpoint.  The agent
\* may end it without a tool call: something is sealed all the same.
Stream(p) ==
  /\ At(p, "stream")
  /\ \E lagging \in BOOLEAN :
       \E q \in Answering(endpoint[Routed(lagging)]) :
         \E tool \in {Commit(q), HardCoded} :
            run' = [run EXCEPT ![p] = [@ EXCEPT !.pc = "seal", !.tool = tool,
                                                !.lagging = lagging]]
  /\ UNCHANGED <<routing, endpoint, gateway, agent, stored, seal>>

ProofOver(p) == [run EXCEPT ![p] = [@ EXCEPT !.pc = "eval", !.tool = Nobody, !.flipped = 0,
                                             !.lagging = FALSE]]

\* The gateway does not come up, or it or the agent fails the turn.
StreamFails(p) ==
  /\ At(p, "stream")
  /\ run' = ProofOver(p)
  /\ UNCHANGED <<routing, endpoint, gateway, agent, stored, seal>>

\* seal_checkpoint: the streamed tool call, or the hard-coded one, becomes the commit's
\* irreversible effect.
Seal(p) ==
  /\ At(p, "seal")
  /\ seal' = [seal EXCEPT ![Commit(p)] = run[p].tool]
  /\ run' = ProofOver(p)
  /\ UNCHANGED <<routing, endpoint, gateway, agent, stored>>

\* The database fails the flip or the checkpoint.
ProofFails(p) ==
  /\ run[p].pc \in {"flip", "seal"}
  /\ run' = ProofOver(p)
  /\ UNCHANGED <<routing, endpoint, gateway, agent, stored, seal>>

-----------------------------------------------------------------------------
(* Evaluation and verdict. *)

\* Mutant of Gated: the whole suite is stored, not the samples the test used.
GatedWhole(prefs) == Tally(prefs, Len(prefs))

\* prefs[: final["n"]]: the samples the sequential test consumed.
Gated(prefs) == Tally(prefs, Used(prefs, Bound))

AtMost(a, b) == IF a < b THEN a ELSE b

\* _run_live_eval, then create_run, record_samples and gate_run over the samples used;
\* n_min is at most 50 and never more than there are samples.
Outcome(prefs) ==
  LET used == Used(prefs, Bound)
      cfg == [num |-> 1, den |-> 2, z2 |-> Level, tieMode |-> "halve", strict |-> FALSE,
              nMin |-> IF used = 0 THEN 1 ELSE AtMost(50, used)]
  IN  <<SprtStream(prefs, Bound, cfg), EvaluateGate(Gated(prefs), cfg)>>
Outcomes == {Outcome(prefs) : prefs \in SuitePrefs}

Evaluate(p) ==
  /\ At(p, "eval")
  /\ \E o \in Outcomes :
       run' = [run EXCEPT ![p] = [@ EXCEPT !.pc = "persist", !.verdict = o[1], !.gate = o[2]]]
  /\ UNCHANGED <<routing, endpoint, gateway, agent, stored, seal>>

Persist(p) ==
  /\ At(p, "persist")
  /\ stored' = [stored EXCEPT ![Commit(p)] = run[p].gate]
  /\ run' = [run EXCEPT ![p] =
               [@ EXCEPT !.pc = IF run[p].verdict = "ALLOW" THEN "merge" ELSE "teardown",
                         !.verdict = "none", !.gate = "none"]]
  /\ UNCHANGED <<routing, endpoint, gateway, agent, seal>>

\* Mutant of Merge: only the merged deployment's status is written.
MergeAlone(p) ==
  /\ At(p, "merge")
  /\ version' = version + 1 /\ table' = FullTo(Commit(p))
  /\ status' = [status EXCEPT ![Commit(p)] = "active"]
  /\ Goto(p, "teardown")
  /\ UNCHANGED <<endpoint, gateway, agent, stored, seal>>

\* ALLOW: the commit is flipped live.  Any other verdict leaves routing as it is, even
\* when the proof made the commit live.
Merge(p) ==
  /\ At(p, "merge")
  /\ Routing!Flip(Commit(p))
  /\ Goto(p, "teardown")
  /\ UNCHANGED <<endpoint, gateway, agent, stored, seal>>

\* The finally block tears the preview down after every verdict, ALLOW too.
Teardown(p) ==
  /\ At(p, "teardown")
  /\ agent' = [agent EXCEPT ![p] = NoPort]
  /\ run' = Ended(p, "done", FALSE)
  /\ UNCHANGED <<routing, endpoint, gateway, stored, seal>>

-----------------------------------------------------------------------------
(* Failures. *)

\* A statement on Postgres or DuckDB (whose file another push may hold) fails: the push
\* raises.  Only a push that has got its dep_id back tears its preview down.
StoreFails(p) ==
  /\ run[p].pc \in {"upsert", "building", "record", "ready", "persist", "merge"}
  /\ IF run[p].known THEN Goto(p, "teardown") ELSE run' = Ended(p, "done", TRUE)
  /\ UNCHANGED <<routing, endpoint, gateway, agent, stored, seal>>

\* The process is killed; its agent is a process of its own and lives on.
Kill(p) ==
  /\ run[p].pc \in Running
  /\ run' = Ended(p, "killed", FALSE)
  /\ UNCHANGED <<routing, endpoint, gateway, agent, stored, seal>>

-----------------------------------------------------------------------------
Advance(p) ==
  \/ Upsert(p) \/ Build(p) \/ FreePort(p) \/ Launch(p) \/ Healthy(p) \/ Unhealthy(p)
  \/ Record(p) \/ Ready(p) \/ GoLive(p) \/ Seal(p) \/ ProofFails(p)
  \/ Evaluate(p) \/ Persist(p) \/ Merge(p) \/ Teardown(p)

\* The proof's turn has no deadline: the gateway and the agent end it, or nobody does.
Turn(p) == Stream(p) \/ StreamFails(p)

Next ==
  \/ Reload
  \/ \E p \in Pushers : \/ Advance(p) \/ Turn(p) \/ StoreFails(p) \/ Kill(p)
                        \/ \E c \in Deps : \/ Hook(p, c)
                                           \/ \E mode \in Modes : Command(p, mode, c)

Spec == Init /\ [][Next]_vars

\* A push goes on with its next step of its own.  Nobody has to begin one, the gateway
\* need not reload, and no turn has to end.
Fairness == \A p \in Pushers : WF_vars(Advance(p))
FairSpec == Spec /\ Fairness

-----------------------------------------------------------------------------
(* Properties. *)

Provisioned(p) == run[p].port # NoPort /\ run[p].pc \in
                    {"ready", "flip", "stream", "seal", "eval", "persist", "merge"}
SamePort(p) == \E q \in Pushers \ {p} : run[q].port = run[p].port
SameCommit(p) == \E q \in Pushers \ {p} : ~At(q, "idle") /\ Commit(q) = Commit(p)

\* isolated.py: "provision -> health-check -> teardown".  No agent outlives its push,
\* whatever the health check, the proof and the verdict said, unless the push was killed
\* or lost the database before it had its dep_id (the finally block then does nothing).
NothingOutlivesItsPush ==
  \A p \in Pushers : At(p, "done") /\ ~run[p].leaked => agent[p] = NoPort

\* From the health check to the teardown, the endpoint that gateways read for a pushed
\* commit is answered by that commit's agent, whatever other pushes start, fail or tear
\* down, unless one of them pushed the same commit (and replaced the endpoint) or found
\* the same port free.
PreviewAnswers ==
  \A p \in Pushers : Provisioned(p) =>
    \/ \E q \in Answering(endpoint[Commit(p)]) : Commit(q) = Commit(p)
    \/ SameCommit(p) \/ SamePort(p)

\* _streaming_proof: "intercept THAT tool call in the sandbox, and seal".  What a push seals
\* is never another deployment's tool call: it is its own preview's (or, when the turn had
\* none, the hard-coded one, which the code's "not a hardcoded one" denies), unless the
\* gateway it met was lagging, another push changed the routing meanwhile, or shared the
\* port or the commit.
StreamedIsOwn ==
  \A p \in Pushers : At(p, "seal") /\ run[p].tool \notin {Commit(p), HardCoded} =>
    run[p].lagging \/ version > run[p].flipped \/ SamePort(p) \/ SameCommit(p)

\* A deployment marked 'active' has all the live traffic, whatever pushes write statuses
\* between a flip and the next.  (The converse fails: a commit pushed again while it
\* serves goes back to 'queued'.)
ActiveServes == \A d \in Deps : status[d] = "active" => table = FullTo(d)

\* Two tests judge one push: the sequential one decides, the interval one is stored.  They
\* never give opposite verdicts.
NeverContradict ==
  \A p \in Pushers : {run[p].verdict, run[p].gate} # {"ALLOW", "BLOCK"}

\* Every push ends, whatever its agent does and however the others end (a process pushes
\* once, so in the end none is running), but for the one wait without a deadline: a proof
\* whose turn neither the gateway nor the agent ever ends.
PushEnds == \A p \in Pushers : <>[](run[p].pc \notin Running) \/ <>[]At(p, "stream")

-----------------------------------------------------------------------------
(* The inductive invariant of PushPipelineProofs, one pusher's part after the other. *)

BeforePort == {"idle", "upsert", "building", "port"}
AfterHealth == {"record", "ready", "flip", "stream", "seal", "eval", "persist", "merge"}

\* Who provisions has a port from `port` on, and who streams has one.
PortOfMode(p) ==
  /\ run[p].pc \in BeforePort => run[p].port = NoPort
  /\ run[p].pc \in {"port", "launch", "health", "record"} => Provisions(run[p].mode)
  /\ run[p].pc \in {"launch", "health", "record", "flip", "stream", "seal"} => run[p].port # NoPort
  /\ At(p, "ready") => (run[p].port # NoPort <=> Provisions(run[p].mode))

\* An agent listens on its push's port, while the push is on.
OwnAgent(p) ==
  /\ agent[p] \in {NoPort, run[p].port}
  /\ run[p].pc \in BeforePort \cup {"launch"} => agent[p] = NoPort
  /\ At(p, "done") /\ ~run[p].leaked => agent[p] = NoPort

\* What the health check found goes on answering: the push's own agent, unless another
\* push had found the port free, too.
PreviewUp(p) ==
  run[p].pc \in AfterHealth /\ run[p].port # NoPort => agent[p] = run[p].port \/ SamePort(p)

EndpointKept(p) ==
  Provisioned(p) => endpoint[Commit(p)] = run[p].port \/ SameCommit(p)

\* A proof's flip is the live table until the next version.
ProofLive(p) ==
  run[p].pc \in {"stream", "seal"} =>
    /\ run[p].flipped <= version
    /\ run[p].flipped = version => table = FullTo(Commit(p))

ToolOwn(p) ==
  At(p, "seal") =>
    \/ run[p].tool \in {Commit(p), HardCoded} \/ run[p].lagging \/ version > run[p].flipped
    \/ SamePort(p) \/ SameCommit(p)

PusherInv(p) == /\ PortOfMode(p) /\ OwnAgent(p) /\ PreviewUp(p)
                /\ EndpointKept(p) /\ ProofLive(p) /\ ToolOwn(p)

OneServes == \E d \in Deps : table = FullTo(d)

IInv == TypeOK /\ OneServes /\ ActiveServes /\ \A p \in Pushers : PusherInv(p)
=============================================================================
