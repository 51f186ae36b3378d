-------------------------- MODULE PushPipelineProofs --------------------------
(***************************************************************************)
(* Pushes, for any number of them, any deployments, ports and thresholds:  *)
(* what a push started and recorded stays its own until it is over, and    *)
(* the active deployment is the one that serves.                           *)
(***************************************************************************)
EXTENDS PushPipeline, FiniteSetTheorems, WellFoundedInduction, TLAPS

LEMMA SameData == /\ Routing!Table = Table /\ Routing!Status = Status
                  /\ \A d \in Deps : Routing!FullTo(d) = FullTo(d) /\ FullTo(d) \in Table
  BY DEF Routing!Table, Table, Routing!Full, Full, Routing!Status, Status, Routing!FullTo, FullTo

\* A full table has one arm.
LEMMA FullToOne ==
  \A d, e \in Deps : FullTo(d).weight[e] = Full <=> d = e
  BY DEF FullTo, Full

LEMMA LiveCommitIs ==
  ASSUME NEW d \in Deps, table = FullTo(d)
  PROVE  LiveCommit = d
  BY FullToOne DEF LiveCommit

-----------------------------------------------------------------------------
(* The gate's arithmetic returns verdicts. *)

LEMMA GateVerdict == \A c, cfg : EvaluateGate(c, cfg) \in Verdicts
  BY DEF EvaluateGate, Verdicts

LEMMA StreamVerdict == \A prefs, bound, cfg : SprtStream(prefs, bound, cfg) \in Verdicts
<1> SUFFICES ASSUME NEW prefs, NEW bound, NEW cfg
             PROVE  SprtStream(prefs, bound, cfg) \in Verdicts
  OBVIOUS
<1>1. SprtEvaluate(prefs, bound) \in Verdicts
  BY DEF SprtEvaluate, Verdicts
<1> QED BY <1>1 DEF SprtStream, Verdicts

LEMMA OutcomeType == \A o \in Outcomes : o[1] \in Verdicts /\ o[2] \in Verdicts
<1> SUFFICES ASSUME NEW prefs \in SuitePrefs
             PROVE  Outcome(prefs)[1] \in Verdicts /\ Outcome(prefs)[2] \in Verdicts
  BY DEF Outcomes
<1>1. \E c, cfg : Outcome(prefs) = <<SprtStream(prefs, Bound, cfg), EvaluateGate(c, cfg)>>
  BY DEF Outcome
<1> QED BY <1>1, GateVerdict, StreamVerdict

-----------------------------------------------------------------------------
(* Routing, as far as the pushes see it. *)

LEMMA FlipKeeps ==
  ASSUME TypeOK, NEW d \in Deps, Routing!Flip(d)
  PROVE  /\ Routing!TypeOK' /\ OneServes' /\ ActiveServes'
         /\ version' = version + 1 /\ table' = FullTo(d) /\ version \in Nat
<1>1. version' = version + 1 /\ table' = FullTo(d) /\ version \in Nat
  BY SameData DEF TypeOK, Routing!TypeOK, Routing!Flip
<1>2. status' = [e \in Deps |-> IF e = d THEN "active"
                                ELSE IF status[e] = "active" THEN "rolled_back"
                                ELSE status[e]]
  BY DEF Routing!Flip, Routing!Flipped
<1>3. status' \in [Deps -> Status]
  BY <1>2, SameData DEF TypeOK, Routing!TypeOK, Status
<1>4. \A e \in Deps : status'[e] = "active" => e = d
  BY <1>2
<1>5. ActiveServes'
  BY <1>1, <1>4 DEF ActiveServes
<1>6. OneServes'
  BY <1>1 DEF OneServes
<1>7. Routing!TypeOK'
  BY <1>1, <1>3, SameData DEF Routing!TypeOK
<1> QED BY <1>1, <1>5, <1>6, <1>7

LEMMA SetStatusKeeps ==
  ASSUME IInv, NEW p \in Pushers, NEW s \in {"queued", "building", "ready"}, SetStatus(p, s)
  PROVE  Routing!TypeOK' /\ OneServes' /\ ActiveServes'
<1>1. UNCHANGED <<version, table>> /\ status' = [status EXCEPT ![Commit(p)] = s]
  BY DEF SetStatus
<1>2. status \in [Deps -> Status] /\ s \in Status /\ s # "active"
  BY SameData DEF IInv, TypeOK, Routing!TypeOK, Status
<1>3. status' \in [Deps -> Status] /\ \A d \in Deps : status'[d] = "active" => status[d] = "active"
  BY <1>1, <1>2
<1> QED BY <1>1, <1>3, SameData DEF IInv, TypeOK, Routing!TypeOK, OneServes, ActiveServes

LEMMA RoutingKeeps ==
  ASSUME IInv, UNCHANGED routing
  PROVE  Routing!TypeOK' /\ OneServes' /\ ActiveServes'
  BY DEF IInv, TypeOK, routing, Routing!TypeOK, OneServes, ActiveServes

-----------------------------------------------------------------------------
(* A step of one push, as the others see it: ports and commits are kept, and so *)
(* is whatever was shared.                                                       *)

Mine(p) ==
  /\ \A q \in Pushers \ {p} : run'[q] = run[q] /\ agent'[q] = agent[q]
  /\ run[p].port # NoPort => run'[p].port = run[p].port
  /\ ~At(p, "idle") => run'[p].pc # "idle" /\ run'[p].commit = run[p].commit
  /\ \/ UNCHANGED endpoint
     \/ ~At(p, "idle") /\ endpoint' = [endpoint EXCEPT ![Commit(p)] = run[p].port]
  /\ UNCHANGED <<version, table>> \/ version' = version + 1

LEMMA SharedStays ==
  ASSUME NEW p \in Pushers, Mine(p), NEW q \in Pushers \ {p}, run[q].port # NoPort
  PROVE  (SamePort(q) => SamePort(q)') /\ (SameCommit(q) => SameCommit(q)')
<1>1. run'[q] = run[q]
  BY DEF Mine
<1>2. ASSUME SamePort(q) PROVE SamePort(q)'
  <2>1. PICK s \in Pushers \ {q} : run[s].port = run[q].port
    BY <1>2 DEF SamePort
  <2>2. run'[s].port = run[s].port
    BY <2>1 DEF Mine
  <2> QED BY <1>1, <2>1, <2>2 DEF SamePort
<1>3. ASSUME SameCommit(q) PROVE SameCommit(q)'
  <2>1. PICK s \in Pushers \ {q} : run[s].pc # "idle" /\ run[s].commit = run[q].commit
    BY <1>3 DEF SameCommit, At, Commit
  <2>2. run'[s].pc # "idle" /\ run'[s].commit = run[s].commit
    BY <2>1 DEF Mine, At
  <2> QED BY <1>1, <2>1, <2>2 DEF SameCommit, At, Commit
<1> QED BY <1>2, <1>3

LEMMA OwnSharedStays ==
  ASSUME NEW p \in Pushers, Mine(p), run'[p].port = run[p].port, run'[p].commit = run[p].commit
  PROVE  (SamePort(p) => SamePort(p)') /\ (SameCommit(p) => SameCommit(p)')
  BY DEF Mine, SamePort, SameCommit, At, Commit

LEMMA OthersKeep ==
  ASSUME IInv, NEW p \in Pushers, Mine(p), NEW q \in Pushers \ {p}
  PROVE  PusherInv(q)'
<1>1. run'[q] = run[q] /\ agent'[q] = agent[q] /\ PusherInv(q)
  BY DEF Mine, IInv
<1>2. PortOfMode(q)' /\ OwnAgent(q)'
  BY <1>1 DEF PusherInv, PortOfMode, OwnAgent, At
<1>3. PreviewUp(q)'
  BY <1>1, SharedStays DEF PusherInv, PreviewUp
<1>4. EndpointKept(q)'
  <2> SUFFICES ASSUME Provisioned(q)'
               PROVE  endpoint'[run[q].commit] = run[q].port \/ SameCommit(q)'
    BY <1>1 DEF EndpointKept, Commit
  <2>1. Provisioned(q) /\ run[q].port # NoPort
    BY <1>1 DEF Provisioned
  <2>2. endpoint[run[q].commit] = run[q].port \/ SameCommit(q)
    BY <1>1, <2>1 DEF PusherInv, EndpointKept, Commit
  <2>3. CASE UNCHANGED endpoint
    BY <2>1, <2>2, <2>3, SharedStays
  <2>4. CASE ~At(p, "idle") /\ endpoint' = [endpoint EXCEPT ![Commit(p)] = run[p].port]
    <3>1. CASE run[p].commit = run[q].commit
      <4>1. SameCommit(q)
        BY <2>4, <3>1 DEF SameCommit, Commit
      <4> QED BY <2>1, <4>1, SharedStays
    <3>2. CASE run[p].commit # run[q].commit
      <4>1. run[q].commit \in Deps
        BY DEF IInv, TypeOK, Run
      <4>2. endpoint'[run[q].commit] = endpoint[run[q].commit]
        BY <2>4, <3>2, <4>1 DEF IInv, TypeOK, Commit
      <4> QED BY <2>1, <2>2, <4>2, SharedStays
    <3> QED BY <3>1, <3>2
  <2> QED BY <2>3, <2>4 DEF Mine
<1>5. /\ version \in Nat /\ run[q].flipped \in Nat
      /\ UNCHANGED <<version, table>> \/ version' = version + 1
  BY DEF Mine, IInv, TypeOK, Routing!TypeOK, Run
<1>6. ProofLive(q)'
  BY <1>1, <1>5 DEF PusherInv, ProofLive, Commit
<1>7. ToolOwn(q)'
  <2> SUFFICES ASSUME At(q, "seal")'
               PROVE  \/ run[q].tool \in {run[q].commit, HardCoded} \/ run[q].lagging
                      \/ version' > run[q].flipped \/ SamePort(q)' \/ SameCommit(q)'
    BY <1>1 DEF ToolOwn, Commit
  <2>1. At(q, "seal") /\ run[q].port # NoPort
    BY <1>1 DEF At, PusherInv, PortOfMode
  <2>2. \/ run[q].tool \in {run[q].commit, HardCoded} \/ run[q].lagging \/ version > run[q].flipped
        \/ SamePort(q) \/ SameCommit(q)
    BY <1>1, <2>1 DEF PusherInv, ToolOwn, Commit
  <2>3. version > run[q].flipped => version' > run[q].flipped
    BY <1>5
  <2> QED BY <2>1, <2>2, <2>3, SharedStays
<1> QED BY <1>2, <1>3, <1>4, <1>6, <1>7 DEF PusherInv

-----------------------------------------------------------------------------
(* What a step owes for its own push. *)

LEMMA MineIs ==
  ASSUME IInv, NEW p \in Pushers, NEW r \in Run, run' = [run EXCEPT ![p] = r],
         run[p].port # NoPort => r.port = run[p].port,
         ~At(p, "idle") => r.pc # "idle" /\ r.commit = run[p].commit,
         UNCHANGED agent \/ \E x \in Ports \cup {NoPort} : agent' = [agent EXCEPT ![p] = x],
         \/ UNCHANGED endpoint
         \/ ~At(p, "idle") /\ endpoint' = [endpoint EXCEPT ![Commit(p)] = run[p].port],
         UNCHANGED <<version, table>> \/ version' = version + 1
  PROVE  /\ Mine(p) /\ run' \in [Pushers -> Run] /\ run'[p] = r
         /\ agent' \in [Pushers -> Ports \cup {NoPort}]
         /\ endpoint' \in [Deps -> Ports \cup {NoPort}]
<1>1. run \in [Pushers -> Run] /\ agent \in [Pushers -> Ports \cup {NoPort}]
  BY DEF IInv, TypeOK
<1>2. run' \in [Pushers -> Run] /\ run'[p] = r /\ \A q \in Pushers \ {p} : run'[q] = run[q]
  BY <1>1
<1>3. /\ agent' \in [Pushers -> Ports \cup {NoPort}]
      /\ \A q \in Pushers \ {p} : agent'[q] = agent[q]
  BY <1>1
<1>4. endpoint' \in [Deps -> Ports \cup {NoPort}]
  BY <1>1 DEF IInv, TypeOK, Run
<1> QED BY <1>2, <1>3, <1>4 DEF Mine

LEMMA StepInv ==
  ASSUME IInv, NEW p \in Pushers, Mine(p), TypeOK', OneServes', ActiveServes', PusherInv(p)'
  PROVE  IInv'
<1>1. \A q \in Pushers : PusherInv(q)'
  BY OthersKeep
<1> QED BY <1>1 DEF IInv

LEMMA EndedIs ==
  ASSUME IInv, NEW p \in Pushers, NEW pc \in {"done", "killed"}, NEW leaked \in BOOLEAN
  PROVE  \E r \in Run : /\ Ended(p, pc, leaked) = [run EXCEPT ![p] = r]
                        /\ r.pc = pc /\ r.leaked = leaked
                        /\ r.port = run[p].port /\ r.commit = run[p].commit
<1> DEFINE r == [NewRun("hook", Commit(p), pc) EXCEPT !.port = run[p].port, !.leaked = leaked]
<1>1. run[p].port \in Ports \cup {NoPort} /\ run[p].commit \in Deps
  BY DEF IInv, TypeOK, Run
<1>2. r \in Run
  BY <1>1 DEF NewRun, Run, Commit, Modes, Running
<1>3. Ended(p, pc, leaked) = [run EXCEPT ![p] = r]
  BY DEF Ended
<1>4. r.pc = pc /\ r.leaked = leaked /\ r.port = run[p].port /\ r.commit = run[p].commit
  BY DEF NewRun, Commit
<1> QED BY <1>2, <1>3, <1>4

\* A push that is over: its agent has been torn down, or it was killed, or it has leaked.
LEMMA EndInv ==
  ASSUME IInv, NEW p \in Pushers, NEW pc \in {"done", "killed"}, NEW leaked \in BOOLEAN,
         ~At(p, "idle"), run' = Ended(p, pc, leaked),
         \/ agent' = [agent EXCEPT ![p] = NoPort]
         \/ UNCHANGED agent /\ (pc = "killed" \/ leaked \/ agent[p] = NoPort),
         UNCHANGED <<version, table, endpoint, gateway, stored, seal>>,
         Routing!TypeOK', OneServes', ActiveServes'
  PROVE  IInv'
<1>1. PICK r \in Run : /\ run' = [run EXCEPT ![p] = r]
                      /\ r.pc = pc /\ r.leaked = leaked
                      /\ r.port = run[p].port /\ r.commit = run[p].commit
  BY EndedIs
<1>2. /\ Mine(p) /\ run' \in [Pushers -> Run] /\ run'[p] = r
      /\ agent' \in [Pushers -> Ports \cup {NoPort}]
  BY <1>1, MineIs
<1>3. TypeOK'
  BY <1>2 DEF IInv, TypeOK
<1>4. agent'[p] \in {NoPort, run[p].port} /\ (pc = "done" /\ ~leaked => agent'[p] = NoPort)
  BY DEF IInv, TypeOK, PusherInv, OwnAgent
<1>5. OwnAgent(p)'
  BY <1>1, <1>2, <1>4 DEF OwnAgent, At, BeforePort
<1>6. /\ PortOfMode(p)' /\ PreviewUp(p)' /\ EndpointKept(p)'
      /\ ProofLive(p)' /\ ToolOwn(p)'
  BY <1>1, <1>2 DEF PortOfMode, PreviewUp, EndpointKept, Provisioned, ProofLive, ToolOwn, At,
     BeforePort, AfterHealth
<1> QED BY <1>2, <1>3, <1>5, <1>6, StepInv DEF PusherInv

Later == {"ready", "flip", "stream", "seal", "eval", "persist", "merge"}

\* A push whose preview is up goes on, with its agent and its endpoint.
LEMMA LaterInv ==
  ASSUME IInv, NEW p \in Pushers, NEW r \in Run, run' = [run EXCEPT ![p] = r],
         run[p].pc \in Later, r.pc \in (Later \ {"ready"}) \cup {"teardown"},
         r.port = run[p].port, r.commit = run[p].commit,
         r.pc \in {"flip", "stream", "seal"} => run[p].port # NoPort,
         UNCHANGED <<agent, endpoint>>, UNCHANGED <<version, table>> \/ version' = version + 1,
         Routing!TypeOK', OneServes', ActiveServes',
         gateway' = gateway, stored' \in [Deps -> Verdicts \cup {"none"}],
         seal' \in [Deps -> Deps \cup {Nobody, HardCoded}],
         ProofLive(p)', ToolOwn(p)'
  PROVE  IInv'
<1>1. ~At(p, "idle") /\ r.pc # "idle"
  BY DEF At, Later
<1>2. Mine(p) /\ run' \in [Pushers -> Run] /\ run'[p] = r
  BY <1>1, MineIs
<1>3. TypeOK'
  BY <1>2 DEF IInv, TypeOK
<1>4. PusherInv(p)
  BY DEF IInv
<1>5. PortOfMode(p)' /\ OwnAgent(p)'
  BY <1>2, <1>4 DEF PusherInv, PortOfMode, OwnAgent, At, BeforePort, Later
<1>6. PreviewUp(p)'
  BY <1>2, <1>4, OwnSharedStays DEF PusherInv, PreviewUp, AfterHealth, Later
<1>7. EndpointKept(p)'
  BY <1>2, <1>4, OwnSharedStays DEF PusherInv, EndpointKept, Provisioned, Commit, Later
<1> QED BY <1>2, <1>3, <1>5, <1>6, <1>7, StepInv DEF PusherInv

-----------------------------------------------------------------------------
(* One lemma per kind of step. *)

LEMMA BeginInv ==
  ASSUME IInv, NEW p \in Pushers, NEW mode \in Modes, NEW c \in Deps, Begin(p, mode, c)
  PROVE  IInv'
<1> DEFINE r == NewRun(mode, c, "upsert")
<1>1. r \in Run /\ r.pc = "upsert" /\ r.port = NoPort /\ ~r.leaked
  BY DEF NewRun, Run, Running
<1>2. At(p, "idle") /\ run' = [run EXCEPT ![p] = r] /\ UNCHANGED <<routing, endpoint, gateway, agent, stored, seal>>
  BY DEF Begin
<1>3. run[p].port = NoPort /\ agent[p] = NoPort
  BY <1>2 DEF At, IInv, PusherInv, PortOfMode, OwnAgent, BeforePort
<1> HIDE DEF r
<1>4. Mine(p) /\ run' \in [Pushers -> Run] /\ run'[p] = r
  BY <1>1, <1>2, <1>3, MineIs DEF routing
<1>5. Routing!TypeOK' /\ OneServes' /\ ActiveServes'
  BY <1>2, RoutingKeeps
<1>6. TypeOK'
  BY <1>2, <1>4, <1>5 DEF IInv, TypeOK
<1>7. PusherInv(p)'
  BY <1>1, <1>2, <1>3, <1>4 DEF PusherInv, PortOfMode, OwnAgent, PreviewUp, EndpointKept,
     Provisioned, ProofLive, ToolOwn, At, BeforePort, AfterHealth
<1> QED BY <1>4, <1>5, <1>6, <1>7, StepInv

\* Up to the health check nothing is promised but the port and the agent.
Early == {"upsert", "building", "port", "launch", "health"}

LEMMA EarlyInv ==
  ASSUME IInv, NEW p \in Pushers, NEW r \in Run, run' = [run EXCEPT ![p] = r],
         run[p].pc \in Early,
         run[p].port # NoPort => r.port = run[p].port, r.commit = run[p].commit,
         UNCHANGED agent \/ \E x \in Ports \cup {NoPort} : agent' = [agent EXCEPT ![p] = x],
         UNCHANGED <<version, table, endpoint, gateway, stored, seal>>,
         Routing!TypeOK', OneServes', ActiveServes',
         \/ r.pc \in Early
         \/ r.pc = "ready" /\ r.port = NoPort,
         PortOfMode(p)', OwnAgent(p)'
  PROVE  IInv'
<1>1. ~At(p, "idle") /\ r.pc # "idle"
  BY DEF At, Early
<1>2. /\ Mine(p) /\ run' \in [Pushers -> Run] /\ run'[p] = r
      /\ agent' \in [Pushers -> Ports \cup {NoPort}]
  BY <1>1, MineIs
<1>3. TypeOK'
  BY <1>2 DEF IInv, TypeOK
<1>4. PreviewUp(p)' /\ EndpointKept(p)' /\ ProofLive(p)' /\ ToolOwn(p)'
  BY <1>2 DEF PreviewUp, EndpointKept, Provisioned, ProofLive, ToolOwn, At, AfterHealth, Early
<1> QED BY <1>2, <1>3, <1>4, StepInv DEF PusherInv

LEMMA RegisterInv ==
  ASSUME IInv, NEW p \in Pushers, Upsert(p) \/ Build(p)
  PROVE  IInv'
<1>1. PICK s \in {"queued", "building", "ready"} : SetStatus(p, s)
  BY DEF Upsert, Build
<1>2. PICK pc \in {"building", "port", "ready"} :
        /\ Goto(p, pc)
        /\ \/ At(p, "upsert") /\ pc = "building"
           \/ At(p, "building") /\ pc = (IF Provisions(run[p].mode) THEN "port" ELSE "ready")
  BY DEF Upsert, Build
<1>3. run[p] \in Run /\ PusherInv(p)
  BY DEF IInv, TypeOK
<1>4. PICK r \in Run : /\ run' = [run EXCEPT ![p] = r]
                      /\ r.pc = pc /\ r.port = run[p].port /\ r.commit = run[p].commit
                      /\ r.mode = run[p].mode /\ r.leaked = run[p].leaked
  <2>1. [run[p] EXCEPT !.pc = pc] \in Run
    BY <1>3 DEF Run, Running
  <2> QED BY <1>2, <1>3, <2>1 DEF Goto, Run
<1>5. UNCHANGED agent
  BY <1>1 DEF SetStatus
<1>6. UNCHANGED <<version, table, endpoint, gateway, stored, seal>>
  BY <1>1 DEF SetStatus
<1>7. run[p].port = NoPort /\ agent[p] = NoPort /\ run'[p] = r
  BY <1>2, <1>3, <1>4 DEF PusherInv, PortOfMode, OwnAgent, At, BeforePort, IInv, TypeOK
<1>8. PortOfMode(p)' /\ OwnAgent(p)'
  BY <1>2, <1>4, <1>5, <1>7 DEF PortOfMode, OwnAgent, At, BeforePort, Provisions
<1>9. Routing!TypeOK' /\ OneServes' /\ ActiveServes'
  BY <1>1, SetStatusKeeps
<1>10. run[p].pc \in Early /\ (r.pc \in Early \/ (r.pc = "ready" /\ r.port = NoPort))
  BY <1>2, <1>4, <1>7 DEF At, Early
<1> QED BY <1>4, <1>5, <1>6, <1>7, <1>8, <1>9, <1>10, EarlyInv

LEMMA FreePortInv ==
  ASSUME IInv, NEW p \in Pushers, FreePort(p)
  PROVE  IInv'
<1>1. PICK port \in Ports : run' = [run EXCEPT ![p].port = port, ![p].pc = "launch"]
  BY DEF FreePort
<1>2. run[p] \in Run /\ PusherInv(p) /\ At(p, "port") /\ port # NoPort
  BY PipelineConstants DEF IInv, TypeOK, FreePort
<1>3. PICK r \in Run : /\ run' = [run EXCEPT ![p] = r]
                      /\ r.pc = "launch" /\ r.port = port /\ r.commit = run[p].commit
                      /\ r.mode = run[p].mode
  <2>1. [run[p] EXCEPT !.port = port, !.pc = "launch"] \in Run
    BY <1>2 DEF Run, Running
  <2> QED BY <1>1, <1>2, <2>1 DEF Run
<1>4. UNCHANGED routing /\ UNCHANGED agent
  BY DEF FreePort
<1>5. UNCHANGED <<version, table, endpoint, gateway, stored, seal>>
  BY DEF FreePort, routing
<1>6. run[p].port = NoPort /\ agent[p] = NoPort /\ run'[p] = r /\ Provisions(run[p].mode)
  BY <1>2, <1>3 DEF PusherInv, PortOfMode, OwnAgent, At, BeforePort, IInv, TypeOK
<1>7. PortOfMode(p)' /\ OwnAgent(p)'
  BY <1>2, <1>3, <1>4, <1>6 DEF PortOfMode, OwnAgent, At, BeforePort, Provisions
<1>8. run[p].pc \in Early /\ r.pc \in Early
  BY <1>2, <1>3 DEF At, Early
<1> QED BY <1>3, <1>4, <1>5, <1>6, <1>7, <1>8, RoutingKeeps, EarlyInv

LEMMA LaunchInv ==
  ASSUME IInv, NEW p \in Pushers, Launch(p)
  PROVE  IInv'
<1>1. PICK x \in {run[p].port, NoPort} : agent' = [agent EXCEPT ![p] = x]
  BY DEF Launch
<1>2. run[p] \in Run /\ PusherInv(p) /\ At(p, "launch") /\ x \in Ports \cup {NoPort}
  BY <1>1 DEF IInv, TypeOK, Launch, Run
<1>3. PICK r \in Run : /\ run' = [run EXCEPT ![p] = r]
                      /\ r.pc = "health" /\ r.port = run[p].port /\ r.commit = run[p].commit
                      /\ r.mode = run[p].mode
  <2>1. [run[p] EXCEPT !.pc = "health"] \in Run
    BY <1>2 DEF Run, Running
  <2> QED BY <1>2, <2>1 DEF Launch, Goto, Run
<1>4. UNCHANGED routing
  BY DEF Launch
<1>5. UNCHANGED <<version, table, endpoint, gateway, stored, seal>>
  BY DEF Launch, routing
<1>6. agent'[p] = x /\ run'[p] = r
  BY <1>1, <1>3 DEF IInv, TypeOK
<1>7. PortOfMode(p)' /\ OwnAgent(p)'
  BY <1>1, <1>2, <1>3, <1>6 DEF PusherInv, PortOfMode, OwnAgent, At, BeforePort, Provisions
<1>8. run[p].pc \in Early /\ r.pc \in Early
  BY <1>2, <1>3 DEF At, Early
<1> QED BY <1>1, <1>2, <1>3, <1>4, <1>5, <1>7, <1>8, RoutingKeeps, EarlyInv

\* Who answers on a push's port is its own agent, or another push found the port free.
LEMMA AnswersOwn ==
  ASSUME IInv, NEW p \in Pushers, run[p].port # NoPort,
         NEW q \in Answering(run[p].port)
  PROVE  q = p \/ SamePort(p)
<1>1. q \in Pushers /\ agent[q] = run[p].port
  BY DEF Answering
<1>2. agent[q] \in {NoPort, run[q].port}
  BY <1>1 DEF IInv, PusherInv, OwnAgent
<1> QED BY <1>1, <1>2 DEF SamePort

LEMMA HealthyInv ==
  ASSUME IInv, NEW p \in Pushers, Healthy(p)
  PROVE  IInv'
<1>1. run[p] \in Run /\ PusherInv(p) /\ At(p, "health") /\ Answering(run[p].port) # {}
  BY DEF IInv, TypeOK, Healthy
<1>2. PICK r \in Run : /\ run' = [run EXCEPT ![p] = r]
                      /\ r.pc = "record" /\ r.port = run[p].port /\ r.commit = run[p].commit
                      /\ r.mode = run[p].mode
  <2>1. [run[p] EXCEPT !.pc = "record"] \in Run
    BY <1>1 DEF Run, Running
  <2> QED BY <1>1, <2>1 DEF Healthy, Goto, Run
<1>3. UNCHANGED routing /\ UNCHANGED agent /\ UNCHANGED endpoint
  BY DEF Healthy
<1>4. UNCHANGED <<version, table, gateway, stored, seal>>
  BY DEF Healthy, routing
<1>5. /\ Mine(p) /\ run' \in [Pushers -> Run] /\ run'[p] = r
      /\ agent' \in [Pushers -> Ports \cup {NoPort}]
  BY <1>1, <1>2, <1>3, <1>4, MineIs DEF At
<1>6. Routing!TypeOK' /\ OneServes' /\ ActiveServes'
  BY <1>3, RoutingKeeps
<1>7. TypeOK'
  BY <1>3, <1>4, <1>5, <1>6 DEF IInv, TypeOK
<1>8. run[p].port # NoPort
  BY <1>1 DEF PusherInv, PortOfMode, At
<1>9. agent[p] = run[p].port \/ SamePort(p)
  BY <1>1, <1>8, AnswersOwn DEF Answering
<1>10. PreviewUp(p)'
  BY <1>2, <1>3, <1>5, <1>9, OwnSharedStays DEF PreviewUp
<1>11. PortOfMode(p)' /\ OwnAgent(p)' /\ EndpointKept(p)' /\ ProofLive(p)' /\ ToolOwn(p)'
  BY <1>1, <1>2, <1>3, <1>5, <1>8 DEF PusherInv, PortOfMode, OwnAgent, EndpointKept, Provisioned,
     ProofLive, ToolOwn, At, BeforePort, Provisions
<1> QED BY <1>5, <1>6, <1>7, <1>10, <1>11, StepInv DEF PusherInv

LEMMA RecordInv ==
  ASSUME IInv, NEW p \in Pushers, Record(p)
  PROVE  IInv'
<1>1. run[p] \in Run /\ PusherInv(p) /\ At(p, "record")
  BY DEF IInv, TypeOK, Record
<1>2. PICK r \in Run : /\ run' = [run EXCEPT ![p] = r]
                      /\ r.pc = "ready" /\ r.port = run[p].port /\ r.commit = run[p].commit
                      /\ r.mode = run[p].mode
  <2>1. [run[p] EXCEPT !.pc = "ready"] \in Run
    BY <1>1 DEF Run, Running
  <2> QED BY <1>1, <2>1 DEF Record, Goto, Run
<1>3. UNCHANGED routing /\ UNCHANGED agent
  BY DEF Record
<1>4. UNCHANGED <<version, table, gateway, stored, seal>>
  BY DEF Record, routing
<1>5. endpoint' = [endpoint EXCEPT ![Commit(p)] = run[p].port]
  BY DEF Record
<1>6. /\ Mine(p) /\ run' \in [Pushers -> Run] /\ run'[p] = r
      /\ agent' \in [Pushers -> Ports \cup {NoPort}]
      /\ endpoint' \in [Deps -> Ports \cup {NoPort}]
  BY <1>1, <1>2, <1>3, <1>4, <1>5, MineIs DEF At
<1>7. Routing!TypeOK' /\ OneServes' /\ ActiveServes'
  BY <1>3, RoutingKeeps
<1>8. TypeOK'
  BY <1>3, <1>4, <1>6, <1>7 DEF IInv, TypeOK
<1>9. run[p].port # NoPort /\ run[p].commit \in Deps
  BY <1>1 DEF PusherInv, PortOfMode, At, Run
<1>10. PreviewUp(p)'
  BY <1>1, <1>2, <1>3, <1>6, OwnSharedStays DEF PusherInv, PreviewUp, At, AfterHealth
<1>11. EndpointKept(p)'
  BY <1>2, <1>5, <1>6, <1>9 DEF EndpointKept, Commit, IInv, TypeOK
<1>12. PortOfMode(p)' /\ OwnAgent(p)' /\ ProofLive(p)' /\ ToolOwn(p)'
  BY <1>1, <1>2, <1>3, <1>6, <1>9 DEF PusherInv, PortOfMode, OwnAgent,
     ProofLive, ToolOwn, At, BeforePort, Provisions
<1> QED BY <1>6, <1>7, <1>8, <1>10, <1>11, <1>12, StepInv DEF PusherInv

\* What every way out leaves as it was.
LEMMA OverInv ==
  ASSUME IInv, NEW p \in Pushers, Unhealthy(p) \/ Teardown(p) \/ Kill(p)
  PROVE  IInv'
<1>1. UNCHANGED routing
  BY DEF Unhealthy, Teardown, Kill
<1>2. UNCHANGED <<version, table, endpoint, gateway, stored, seal>>
  BY DEF Unhealthy, Teardown, Kill, routing
<1>3. Routing!TypeOK' /\ OneServes' /\ ActiveServes'
  BY <1>1, RoutingKeeps
<1>4. ~At(p, "idle")
  BY DEF Unhealthy, Teardown, Kill, At, Running
<1>5. CASE Unhealthy(p) \/ Teardown(p)
  <2>1. run' = Ended(p, "done", FALSE) /\ agent' = [agent EXCEPT ![p] = NoPort]
    BY <1>5 DEF Unhealthy, Teardown
  <2> QED BY <1>2, <1>3, <1>4, <2>1, EndInv
<1>6. CASE Kill(p)
  <2>1. run' = Ended(p, "killed", FALSE) /\ UNCHANGED agent
    BY <1>6 DEF Kill
  <2> QED BY <1>2, <1>3, <1>4, <2>1, EndInv
<1> QED BY <1>5, <1>6

LEMMA ReadyInv ==
  ASSUME IInv, NEW p \in Pushers, Ready(p)
  PROVE  IInv'
<1>1. run[p] \in Run /\ PusherInv(p) /\ At(p, "ready")
  BY DEF IInv, TypeOK, Ready
<1>2. SetStatus(p, "ready") /\ UNCHANGED <<agent, endpoint>>
  BY DEF Ready, SetStatus
<1>3. UNCHANGED <<version, table, endpoint, gateway, stored, seal>> /\ UNCHANGED agent
  BY <1>2 DEF SetStatus
<1>4. Routing!TypeOK' /\ OneServes' /\ ActiveServes'
  BY <1>2, SetStatusKeeps
<1>5. CASE run[p].mode = "hook"
  <2>1. run' = Ended(p, "done", FALSE) /\ ~At(p, "idle")
    BY <1>1, <1>5 DEF Ready, At
  <2>2. agent[p] = NoPort
    BY <1>1, <1>5 DEF PusherInv, PortOfMode, OwnAgent, At, Provisions
  <2> QED BY <1>3, <1>4, <2>1, <2>2, EndInv
<1>6. CASE run[p].mode # "hook"
  <2>1. PICK r \in Run : /\ run' = [run EXCEPT ![p] = r]
                        /\ r.pc = (IF run[p].mode = "stream" THEN "flip" ELSE "eval")
                        /\ r.port = run[p].port /\ r.commit = run[p].commit
    <3>1. [run[p] EXCEPT !.known = TRUE,
                         !.pc = IF run[p].mode = "stream" THEN "flip" ELSE "eval"] \in Run
      BY <1>1 DEF Run, Running
    <3> QED BY <1>1, <1>6, <3>1 DEF Ready, Run
  <2>2. r.pc = "flip" => run[p].port # NoPort
    BY <1>1, <2>1 DEF PusherInv, PortOfMode, At, Provisions
  <2>3. run'[p] = r
    BY <2>1 DEF IInv, TypeOK
  <2>4. ProofLive(p)' /\ ToolOwn(p)'
    BY <2>1, <2>3 DEF ProofLive, ToolOwn, At
  <2>5. /\ stored' \in [Deps -> Verdicts \cup {"none"}] /\ seal' \in [Deps -> Deps \cup {Nobody, HardCoded}]
        /\ gateway' = gateway
    BY <1>3 DEF IInv, TypeOK
  <2>6. /\ run[p].pc \in Later /\ r.pc \in (Later \ {"ready"}) \cup {"teardown"}
        /\ (r.pc \in {"flip", "stream", "seal"} => run[p].port # NoPort)
    BY <1>1, <2>1, <2>2 DEF At, Later
  <2> QED BY <1>2, <1>3, <1>4, <2>1, <2>4, <2>5, <2>6, LaterInv
<1> QED BY <1>5, <1>6

LEMMA GoLiveInv ==
  ASSUME IInv, NEW p \in Pushers, GoLive(p)
  PROVE  IInv'
<1>1. run[p] \in Run /\ PusherInv(p) /\ At(p, "flip") /\ Commit(p) \in Deps
  BY DEF IInv, TypeOK, GoLive, Run, Commit
<1>2. Routing!Flip(Commit(p)) /\ UNCHANGED <<agent, endpoint>>
  BY DEF GoLive
<1>3. /\ Routing!TypeOK' /\ OneServes' /\ ActiveServes'
      /\ version' = version + 1 /\ table' = FullTo(run[p].commit) /\ version \in Nat
  <2>1. PICK d \in Deps : d = run[p].commit /\ Routing!Flip(d)
    BY <1>1, <1>2 DEF Commit, Routing!Flip, Routing!Flipped
  <2> QED BY <2>1, FlipKeeps DEF IInv
<1>4. PICK r \in Run : /\ run' = [run EXCEPT ![p] = r]
                      /\ r.pc = "stream" /\ r.flipped = version + 1
                      /\ r.port = run[p].port /\ r.commit = run[p].commit
  <2>1. PICK n \in Nat : n = version + 1
    BY <1>3
  <2>2. [run[p] EXCEPT !.pc = "stream", !.flipped = n] \in Run
    BY <1>1 DEF Run, Running
  <2>3. run' = [run EXCEPT ![p] = [run[p] EXCEPT !.pc = "stream", !.flipped = n]]
    BY <2>1 DEF GoLive
  <2> QED BY <1>1, <2>1, <2>2, <2>3 DEF Run
<1>5. run'[p] = r
  BY <1>4 DEF IInv, TypeOK
<1>6. ProofLive(p)' /\ ToolOwn(p)'
  BY <1>3, <1>4, <1>5 DEF ProofLive, ToolOwn, At, Commit
<1>7. /\ stored' \in [Deps -> Verdicts \cup {"none"}] /\ seal' \in [Deps -> Deps \cup {Nobody, HardCoded}]
      /\ gateway' = gateway
  BY DEF GoLive, IInv, TypeOK
<1>8. /\ run[p].pc \in Later /\ r.pc \in (Later \ {"ready"}) \cup {"teardown"}
      /\ run[p].port # NoPort
  BY <1>1, <1>4 DEF At, Later, PusherInv, PortOfMode
<1> QED BY <1>2, <1>3, <1>4, <1>6, <1>7, <1>8, LaterInv

\* The turn reaches the push's own agent, if the gateway follows the proof's flip.
LEMMA StreamInv ==
  ASSUME IInv, NEW p \in Pushers, Stream(p)
  PROVE  IInv'
<1>1. /\ run[p] \in Run /\ PusherInv(p) /\ At(p, "stream")
      /\ run[p].port # NoPort /\ run[p].commit \in Deps
  BY DEF IInv, TypeOK, Stream, Run, PusherInv, PortOfMode, At
<1>2. PICK lagging \in BOOLEAN : \E q \in Answering(endpoint[Routed(lagging)]) :
        \E tool \in {Commit(q), HardCoded} :
          run' = [run EXCEPT ![p] = [@ EXCEPT !.pc = "seal", !.tool = tool, !.lagging = lagging]]
  BY DEF Stream
<1>3. PICK q \in Answering(endpoint[Routed(lagging)]) :
        \E tool \in {Commit(q), HardCoded} :
          run' = [run EXCEPT ![p] = [@ EXCEPT !.pc = "seal", !.tool = tool, !.lagging = lagging]]
  BY <1>2
<1>4. q \in Pushers /\ Commit(q) \in Deps
  BY DEF Answering, IInv, TypeOK, Run, Commit
<1>5. PICK r \in Run : /\ run' = [run EXCEPT ![p] = r]
                      /\ r.pc = "seal" /\ r.tool \in {run[q].commit, HardCoded}
                      /\ r.lagging = lagging
                      /\ r.flipped = run[p].flipped
                      /\ r.port = run[p].port /\ r.commit = run[p].commit
  <2>1. PICK tool \in {run[q].commit, HardCoded} :
          run' = [run EXCEPT ![p] = [@ EXCEPT !.pc = "seal", !.tool = tool, !.lagging = lagging]]
    BY <1>3 DEF Commit
  <2>2. [run[p] EXCEPT !.pc = "seal", !.tool = tool, !.lagging = lagging] \in Run
    BY <1>1, <1>4, <2>1 DEF Run, Running, Commit
  <2> QED BY <1>1, <2>1, <2>2 DEF Run
<1>6. UNCHANGED routing
  BY DEF Stream
<1>7. UNCHANGED <<agent, endpoint>> /\ UNCHANGED <<version, table>>
  BY DEF Stream, routing
<1>8. Routing!TypeOK' /\ OneServes' /\ ActiveServes'
  BY <1>6, RoutingKeeps
<1>9. run'[p] = r
  BY <1>5 DEF IInv, TypeOK
<1>10. /\ run[p].flipped <= version
       /\ run[p].flipped = version => table = FullTo(run[p].commit)
  BY <1>1 DEF PusherInv, ProofLive, At, Commit
<1>11. version \in Nat /\ run[p].flipped \in Nat
  BY <1>1 DEF IInv, TypeOK, Routing!TypeOK, Run
<1>12. \/ run[q].commit = run[p].commit \/ lagging \/ version > run[p].flipped
       \/ SamePort(p) \/ SameCommit(p)
  <2> SUFFICES ASSUME ~lagging, run[p].flipped = version, ~SamePort(p), ~SameCommit(p)
               PROVE  run[q].commit = run[p].commit
    BY <1>10, <1>11
  <2>1. LiveCommit = run[p].commit
    BY <1>1, <1>10, LiveCommitIs DEF LiveCommit
  <2>2. endpoint[run[p].commit] = run[p].port
    BY <1>1 DEF PusherInv, EndpointKept, Provisioned, At, Commit
  <2>3. q \in Answering(run[p].port)
    BY <1>3, <2>1, <2>2 DEF Routed, Answering
  <2> QED BY <1>1, <2>3, AnswersOwn DEF Answering
<1>13. /\ Mine(p)
  BY <1>1, <1>5, <1>7, MineIs DEF At
<1>14. ProofLive(p)'
  BY <1>5, <1>7, <1>9, <1>10 DEF ProofLive, Commit
<1>15. ToolOwn(p)'
  BY <1>5, <1>7, <1>9, <1>12, <1>13, OwnSharedStays DEF ToolOwn, Commit
<1>16. /\ stored' \in [Deps -> Verdicts \cup {"none"}] /\ seal' \in [Deps -> Deps \cup {Nobody, HardCoded}]
       /\ gateway' = gateway
  BY DEF Stream, IInv, TypeOK
<1>17. run[p].pc \in Later /\ r.pc \in (Later \ {"ready"}) \cup {"teardown"}
  BY <1>1, <1>5 DEF At, Later
<1> QED BY <1>1, <1>5, <1>7, <1>8, <1>14, <1>15, <1>16, <1>17, LaterInv

LEMMA ProofOverInv ==
  ASSUME IInv, NEW p \in Pushers, Seal(p) \/ ProofFails(p) \/ StreamFails(p)
  PROVE  IInv'
<1>1. run[p] \in Run /\ run[p].pc \in Later
  BY DEF IInv, TypeOK, Seal, ProofFails, StreamFails, At, Later
<1>2. PICK r \in Run : /\ run' = [run EXCEPT ![p] = r]
                      /\ r.pc = "eval" /\ r.port = run[p].port /\ r.commit = run[p].commit
  <2>1. [run[p] EXCEPT !.pc = "eval", !.tool = Nobody, !.flipped = 0, !.lagging = FALSE] \in Run
    BY <1>1 DEF Run, Running
  <2> QED BY <1>1, <2>1 DEF Seal, ProofFails, StreamFails, ProofOver, Run
<1>3. UNCHANGED routing
  BY DEF Seal, ProofFails, StreamFails
<1>4. UNCHANGED <<agent, endpoint>> /\ UNCHANGED <<version, table>>
  BY DEF Seal, ProofFails, StreamFails, routing
<1>5. Routing!TypeOK' /\ OneServes' /\ ActiveServes'
  BY <1>3, RoutingKeeps
<1>6. run'[p] = r
  BY <1>2 DEF IInv, TypeOK
<1>7. ProofLive(p)' /\ ToolOwn(p)'
  BY <1>2, <1>6 DEF ProofLive, ToolOwn, At
<1>8. run[p].tool \in Deps \cup {Nobody, HardCoded}
  BY <1>1 DEF Run
<1>9. /\ stored' \in [Deps -> Verdicts \cup {"none"}] /\ seal' \in [Deps -> Deps \cup {Nobody, HardCoded}]
      /\ gateway' = gateway
  BY <1>8 DEF Seal, ProofFails, StreamFails, IInv, TypeOK
<1>10. r.pc \in (Later \ {"ready"}) \cup {"teardown"} /\ r.pc \notin {"flip", "stream", "seal"}
  BY <1>2 DEF Later
<1> QED BY <1>1, <1>2, <1>4, <1>5, <1>7, <1>9, <1>10, LaterInv

LEMMA EvaluateInv ==
  ASSUME IInv, NEW p \in Pushers, Evaluate(p) \/ Persist(p)
  PROVE  IInv'
<1>1. run[p] \in Run /\ run[p].pc \in Later
  BY DEF IInv, TypeOK, Evaluate, Persist, At, Later
<1>2. PICK r \in Run : /\ run' = [run EXCEPT ![p] = r]
                      /\ r.pc \in {"persist", "merge", "teardown"}
                      /\ r.port = run[p].port /\ r.commit = run[p].commit
  <2>1. CASE Evaluate(p)
    <3>1. PICK o \in Outcomes :
            run' = [run EXCEPT ![p] = [@ EXCEPT !.pc = "persist", !.verdict = o[1], !.gate = o[2]]]
      BY <2>1 DEF Evaluate
    <3>2. [run[p] EXCEPT !.pc = "persist", !.verdict = o[1], !.gate = o[2]] \in Run
      BY <1>1, OutcomeType DEF Run, Running
    <3> QED BY <1>1, <3>1, <3>2 DEF Run
  <2>2. CASE Persist(p)
    <3>1. PICK pc \in {"merge", "teardown"} :
            run' = [run EXCEPT ![p] = [@ EXCEPT !.pc = pc, !.verdict = "none", !.gate = "none"]]
      BY <2>2 DEF Persist
    <3>2. [run[p] EXCEPT !.pc = pc, !.verdict = "none", !.gate = "none"] \in Run
      BY <1>1 DEF Run, Running
    <3> QED BY <1>1, <3>1, <3>2 DEF Run
  <2> QED BY <2>1, <2>2
<1>3. UNCHANGED routing
  BY DEF Evaluate, Persist
<1>4. UNCHANGED <<agent, endpoint>> /\ UNCHANGED <<version, table>>
  BY DEF Evaluate, Persist, routing
<1>5. Routing!TypeOK' /\ OneServes' /\ ActiveServes'
  BY <1>3, RoutingKeeps
<1>6. run'[p] = r
  BY <1>2 DEF IInv, TypeOK
<1>7. ProofLive(p)' /\ ToolOwn(p)'
  BY <1>2, <1>6 DEF ProofLive, ToolOwn, At
<1>8. run[p].gate \in Verdicts \cup {"none"}
  BY <1>1 DEF Run
<1>9. /\ stored' \in [Deps -> Verdicts \cup {"none"}] /\ seal' \in [Deps -> Deps \cup {Nobody, HardCoded}]
      /\ gateway' = gateway
  BY <1>8 DEF Evaluate, Persist, IInv, TypeOK
<1>10. r.pc \in (Later \ {"ready"}) \cup {"teardown"} /\ r.pc \notin {"flip", "stream", "seal"}
  BY <1>2 DEF Later
<1> QED BY <1>1, <1>2, <1>4, <1>5, <1>7, <1>9, <1>10, LaterInv

LEMMA MergeInv ==
  ASSUME IInv, NEW p \in Pushers, Merge(p)
  PROVE  IInv'
<1>1. run[p] \in Run /\ run[p].commit \in Deps /\ run[p].pc \in Later
  BY DEF IInv, TypeOK, Merge, Run, At, Later
<1>2. UNCHANGED <<agent, endpoint>>
  BY DEF Merge
<1>3. /\ Routing!TypeOK' /\ OneServes' /\ ActiveServes' /\ version' = version + 1
  <2>1. PICK d \in Deps : d = run[p].commit /\ Routing!Flip(d)
    BY <1>1 DEF Merge, Commit, Routing!Flip, Routing!Flipped
  <2> QED BY <2>1, FlipKeeps DEF IInv
<1>4. PICK r \in Run : /\ run' = [run EXCEPT ![p] = r]
                      /\ r.pc = "teardown" /\ r.port = run[p].port /\ r.commit = run[p].commit
  <2>1. [run[p] EXCEPT !.pc = "teardown"] \in Run
    BY <1>1 DEF Run, Running
  <2> QED BY <1>1, <2>1 DEF Merge, Goto, Run
<1>5. run'[p] = r
  BY <1>4 DEF IInv, TypeOK
<1>6. ProofLive(p)' /\ ToolOwn(p)'
  BY <1>4, <1>5 DEF ProofLive, ToolOwn, At
<1>7. /\ stored' \in [Deps -> Verdicts \cup {"none"}] /\ seal' \in [Deps -> Deps \cup {Nobody, HardCoded}]
      /\ gateway' = gateway
  BY DEF Merge, IInv, TypeOK
<1> QED BY <1>1, <1>2, <1>3, <1>4, <1>6, <1>7, LaterInv

\* A statement fails: the push is over, or goes to its teardown.
LEMMA StoreFailsInv ==
  ASSUME IInv, NEW p \in Pushers, StoreFails(p)
  PROVE  IInv'
<1>1. run[p] \in Run /\ PusherInv(p) /\ ~At(p, "idle")
  BY DEF IInv, TypeOK, StoreFails, At
<1>2. UNCHANGED routing /\ UNCHANGED <<endpoint, gateway, agent, stored, seal>>
  BY DEF StoreFails
<1>3. UNCHANGED <<version, table, endpoint, gateway, stored, seal>> /\ UNCHANGED agent
  BY <1>2 DEF routing
<1>4. Routing!TypeOK' /\ OneServes' /\ ActiveServes'
  BY <1>2, RoutingKeeps
<1>5. CASE ~run[p].known
  <2>1. run' = Ended(p, "done", TRUE)
    BY <1>5 DEF StoreFails
  <2> QED BY <1>1, <1>3, <1>4, <2>1, EndInv
<1>6. CASE run[p].known
  <2>1. PICK r \in Run : /\ run' = [run EXCEPT ![p] = r]
                        /\ r.pc = "teardown" /\ r.port = run[p].port /\ r.commit = run[p].commit
    <3>1. [run[p] EXCEPT !.pc = "teardown"] \in Run
      BY <1>1 DEF Run, Running
    <3> QED BY <1>1, <1>6, <3>1 DEF StoreFails, Goto, Run
  <2>2. /\ Mine(p) /\ run' \in [Pushers -> Run] /\ run'[p] = r
    BY <1>1, <1>3, <2>1, MineIs
  <2>3. TypeOK'
    BY <1>2, <1>4, <2>2 DEF IInv, TypeOK
  <2>4. PusherInv(p)'
    BY <1>1, <1>2, <2>1, <2>2 DEF PusherInv, PortOfMode, OwnAgent, PreviewUp, EndpointKept,
       Provisioned, ProofLive, ToolOwn, At, BeforePort, AfterHealth
  <2> QED BY <1>4, <2>2, <2>3, <2>4, StepInv
<1> QED BY <1>5, <1>6

LEMMA ReloadInv == IInv /\ Reload => IInv'
<1> SUFFICES ASSUME IInv, Reload PROVE IInv'
  OBVIOUS
<1>1. UNCHANGED routing /\ UNCHANGED <<endpoint, agent, stored, seal, run>>
  BY DEF Reload
<1>2. UNCHANGED <<version, table>>
  BY <1>1 DEF routing
<1>3. Routing!TypeOK' /\ OneServes' /\ ActiveServes'
  BY <1>1, RoutingKeeps
<1>4. gateway' \in Deps
  <2>1. PICK d \in Deps : table = FullTo(d)
    BY DEF IInv, OneServes
  <2>2. LiveCommit = d
    BY <2>1, LiveCommitIs
  <2> QED BY <2>2 DEF Reload
<1>5. TypeOK'
  BY <1>1, <1>3, <1>4 DEF IInv, TypeOK
<1>6. \A p \in Pushers : PusherInv(p)'
  BY <1>1, <1>2 DEF IInv, PusherInv, PortOfMode, OwnAgent, PreviewUp, EndpointKept, Provisioned,
     ProofLive, ToolOwn, At, Commit, SamePort, SameCommit
<1> QED BY <1>3, <1>5, <1>6 DEF IInv

LEMMA InitInv == Init => IInv
<1> SUFFICES ASSUME Init PROVE IInv
  OBVIOUS
<1>1. First \in Deps /\ table = FullTo(First) /\ version = 1
  BY PipelineConstants DEF Init
<1>2. OneServes
  BY <1>1 DEF OneServes
<1>3. ActiveServes
  BY <1>1 DEF ActiveServes, Init
<1>4. Routing!TypeOK
  BY <1>1, SameData DEF Init, Routing!TypeOK, Status
<1>5. PICK r \in Run : /\ run = [p \in Pushers |-> r]
                      /\ r.pc = "idle" /\ r.port = NoPort
  <2>1. NewRun("hook", First, "idle") \in Run
    BY <1>1 DEF NewRun, Run, Modes
  <2> QED BY <2>1 DEF Init, NewRun
<1>6. TypeOK
  BY <1>1, <1>4, <1>5 DEF Init, TypeOK
<1>7. \A p \in Pushers : PusherInv(p)
  BY <1>5 DEF Init, PusherInv, PortOfMode, OwnAgent, PreviewUp, EndpointKept, Provisioned,
     ProofLive, ToolOwn, At, AfterHealth
<1> QED BY <1>2, <1>3, <1>6, <1>7 DEF IInv

LEMMA NextInv == IInv /\ [Next]_vars => IInv'
<1> SUFFICES ASSUME IInv, [Next]_vars PROVE IInv'
  OBVIOUS
<1>1. CASE Reload
  BY <1>1, ReloadInv
<1>2. ASSUME NEW p \in Pushers, Advance(p) \/ Turn(p) PROVE IInv'
  BY <1>2, RegisterInv, FreePortInv, LaunchInv, HealthyInv, OverInv, RecordInv, ReadyInv, GoLiveInv,
     StreamInv, ProofOverInv, EvaluateInv, MergeInv DEF Advance, Turn
<1>3. ASSUME NEW p \in Pushers, StoreFails(p) \/ Kill(p) PROVE IInv'
  BY <1>3, StoreFailsInv, OverInv
<1>4. ASSUME NEW p \in Pushers, NEW c \in Deps, Hook(p, c) PROVE IInv'
  BY <1>4, BeginInv DEF Hook, Modes
<1>5. ASSUME NEW p \in Pushers, NEW c \in Deps, NEW mode \in Modes, Command(p, mode, c)
      PROVE  IInv'
  BY <1>5, BeginInv DEF Command
<1>6. CASE UNCHANGED vars
  <2>1. UNCHANGED routing /\ UNCHANGED <<endpoint, gateway, agent, stored, seal, run>>
    BY <1>6 DEF vars
  <2>2. Routing!TypeOK' /\ OneServes' /\ ActiveServes'
    BY <2>1, RoutingKeeps
  <2>3. UNCHANGED <<version, table>>
    BY <2>1 DEF routing
  <2>4. \A p \in Pushers : PusherInv(p)'
    BY <2>1, <2>3 DEF IInv, PusherInv, PortOfMode, OwnAgent, PreviewUp, EndpointKept, Provisioned,
       ProofLive, ToolOwn, At, Commit, SamePort, SameCommit
  <2> QED BY <2>1, <2>2, <2>4 DEF IInv, TypeOK
<1> QED BY <1>1, <1>2, <1>3, <1>4, <1>5, <1>6 DEF Next

LEMMA Inductive == Spec => []IInv
  BY InitInv, NextInv, PTL DEF Spec

-----------------------------------------------------------------------------
(* The two tests of one push, over the same samples. *)

LEMMA LeastNumber ==
  ASSUME NEW T \in SUBSET Nat, T # {}
  PROVE  \E m \in T : \A k \in T : m <= k
<1>1. PICK m \in T : \A k \in T : <<k, m>> \notin OpToRel(<, Nat)
  BY WFMin, NatLessThanWellFounded, Zenon
<1>2. \A k \in T : ~(k < m)
  BY <1>1, Zenon DEF OpToRel
<1> QED BY <1>2

LEMMA TallyType ==
  ASSUME NEW prefs, NEW n \in Nat
  PROVE  Tally(prefs, n).wins \in Nat /\ Tally(prefs, n).losses \in Nat /\ Tally(prefs, n).ties \in Nat
<1>1. IsFiniteSet(1..n)
  BY FS_Interval
<1>2. \A T \in SUBSET (1..n) : Cardinality(T) \in Nat
  BY <1>1, FS_Subset, FS_CardinalityType
<1> QED BY <1>2 DEF Tally

LEMMA UsedType ==
  ASSUME NEW prefs \in Seq(Preferences), NEW bound
  PROVE  Used(prefs, bound) \in 0..Len(prefs)
<1> DEFINE T == {n \in 1..Len(prefs) : Crossed(prefs, n, bound)}
<1>1. CASE T = {}
  <2>1. ~\E n \in 1..Len(prefs) : Crossed(prefs, n, bound)
    BY <1>1
  <2>2. Used(prefs, bound) = Len(prefs)
    BY <2>1, Zenon DEF Used
  <2>3. Len(prefs) \in Nat
    OBVIOUS
  <2> QED BY <2>2, <2>3
<1>2. CASE T # {}
  <2>1. PICK n \in T : \A k \in T : n <= k
    <3>1. T \in SUBSET Nat
      OBVIOUS
    <3> HIDE DEF T
    <3> QED BY <1>2, <3>1, LeastNumber
  <2>2. \A k \in 1..(n - 1) : ~Crossed(prefs, k, bound)
    BY <2>1
  <2> QED BY <2>1, <2>2 DEF Used
<1> QED BY <1>1, <1>2

LEMMA DisjointSize ==
  ASSUME NEW A, NEW B, IsFiniteSet(A), IsFiniteSet(B), A \cap B = {}
  PROVE  Cardinality(A \cup B) = Cardinality(A) + Cardinality(B)
<1>1. Cardinality(A \cup B) = Cardinality(A) + Cardinality(B) - Cardinality(A \cap B)
  BY FS_Union
<1>2. Cardinality(A \cap B) = 0
  BY FS_EmptySet
<1>3. Cardinality(A) \in Nat /\ Cardinality(B) \in Nat
  BY FS_CardinalityType
<1> QED BY <1>1, <1>2, <1>3

\* Every sample is a win, a loss or a tie.
LEMMA TallySize ==
  ASSUME NEW prefs \in Seq(Preferences), NEW n \in 0..Len(prefs)
  PROVE  Size(Tally(prefs, n), "halve") = n
<1> DEFINE W == {i \in 1..n : prefs[i] = "WIN"}
           L == {i \in 1..n : prefs[i] = "LOSS"}
           T == {i \in 1..n : prefs[i] = "TIE"}
<1>1. IsFiniteSet(1..n) /\ Cardinality(1..n) = n
  BY FS_Interval
<1>2. IsFiniteSet(W) /\ IsFiniteSet(L) /\ IsFiniteSet(T)
  BY <1>1, FS_Subset
<1>3. W \cap L = {} /\ (W \cup L) \cap T = {}
  OBVIOUS
<1>4. \A i \in 1..n : prefs[i] \in Preferences
  OBVIOUS
<1>5. (W \cup L) \cup T = 1..n
  BY <1>4 DEF Preferences
<1>6. Size(Tally(prefs, n), "halve") = Cardinality(W) + Cardinality(L) + Cardinality(T)
  BY DEF Size, Tally
<1> HIDE DEF W, L, T
<1>7. IsFiniteSet(W \cup L)
  BY <1>2, FS_Union
<1>8. /\ Cardinality(W) \in Nat /\ Cardinality(L) \in Nat /\ Cardinality(T) \in Nat
      /\ Cardinality({}) = 0
  BY <1>2, FS_CardinalityType, FS_EmptySet
<1>9. \A A, B : IsFiniteSet(A) /\ IsFiniteSet(B) /\ A \cap B = {} =>
                Cardinality(A \cup B) = Cardinality(A) + Cardinality(B)
  BY DisjointSize
<1>10. /\ Cardinality(W \cup L) = Cardinality(W) + Cardinality(L)
       /\ Cardinality((W \cup L) \cup T) = Cardinality(W \cup L) + Cardinality(T)
  BY <1>2, <1>3, <1>7, <1>9
<1> QED BY <1>1, <1>5, <1>6, <1>8, <1>9, <1>10

LEMMA EndsExclude ==
  ASSUME NEW h \in Nat, NEW n \in Nat, NEW cfg, cfg.num = 1, cfg.den = 2
  PROVE  /\ HighBelow(h, n, cfg) => h < n
         /\ LowAtLeast(h, n, cfg) => h >= n
  BY DEF HighBelow, LowAtLeast

LEMMA NoContradiction == \A o \in Outcomes : {o[1], o[2]} # {"ALLOW", "BLOCK"}
<1> SUFFICES ASSUME NEW prefs \in Seq(Preferences)
             PROVE  {Outcome(prefs)[1], Outcome(prefs)[2]} # {"ALLOW", "BLOCK"}
  BY PipelineConstants DEF Outcomes
<1> DEFINE n == Used(prefs, Bound)
           c == Tally(prefs, n)
           h == TwiceWins(c, "halve")
<1>1. c.wins \in Nat /\ c.losses \in Nat /\ c.ties \in Nat
  BY TallyType, UsedType
<1>2. h = 2 * c.wins + c.ties /\ Size(c, "halve") = c.wins + c.losses + c.ties
  BY DEF TwiceWins, Size
<1>3. PICK cfg : /\ Outcome(prefs) = <<SprtStream(prefs, Bound, cfg), EvaluateGate(c, cfg)>>
                 /\ cfg.num = 1 /\ cfg.den = 2 /\ cfg.tieMode = "halve" /\ ~cfg.strict
  BY DEF Outcome, Gated
<1> HIDE DEF c
<1>4. n \in Nat /\ Size(c, "halve") = n
  BY TallySize, UsedType DEF c
<1>5. h \in Nat
  BY <1>1, <1>2
<1>6. SprtEvaluate(prefs, Bound) = "ALLOW" => c.wins > c.losses
  BY <1>1, PipelineConstants DEF SprtEvaluate, Net, c
<1>7. SprtEvaluate(prefs, Bound) = "BLOCK" => c.wins < c.losses
  BY <1>1, PipelineConstants DEF SprtEvaluate, Net, c
<1>8. /\ EvaluateGate(c, cfg) = "ALLOW" => LowAtLeast(h, n, cfg)
      /\ EvaluateGate(c, cfg) = "BLOCK" => HighBelow(h, n, cfg)
  BY <1>3, <1>4 DEF EvaluateGate
<1>9. /\ SprtStream(prefs, Bound, cfg) = "ALLOW" => c.wins > c.losses \/ LowAtLeast(h, n, cfg)
      /\ SprtStream(prefs, Bound, cfg) = "BLOCK" => c.wins < c.losses \/ HighBelow(h, n, cfg)
  BY <1>6, <1>7 DEF SprtStream, c
<1>15. n \in Nat
  BY <1>4
<1> HIDE DEF c, h, n
<1>10. /\ HighBelow(h, n, cfg) => h < n
       /\ LowAtLeast(h, n, cfg) => h >= n
  BY <1>3, <1>15, <1>5, EndsExclude
<1>11. n = c.wins + c.losses + c.ties
  BY <1>2, <1>4
<1>12. /\ SprtStream(prefs, Bound, cfg) = "ALLOW" => h >= n
       /\ SprtStream(prefs, Bound, cfg) = "BLOCK" => h < n
  BY <1>1, <1>2, <1>9, <1>10, <1>11
<1>13. /\ EvaluateGate(c, cfg) = "ALLOW" => h >= n
       /\ EvaluateGate(c, cfg) = "BLOCK" => h < n
  BY <1>8, <1>10
<1>14. /\ Outcome(prefs)[1] = SprtStream(prefs, Bound, cfg)
       /\ Outcome(prefs)[2] = EvaluateGate(c, cfg)
  BY <1>3
<1>16. /\ ~(Outcome(prefs)[1] = "ALLOW" /\ Outcome(prefs)[2] = "BLOCK")
       /\ ~(Outcome(prefs)[1] = "BLOCK" /\ Outcome(prefs)[2] = "ALLOW")
  BY <1>5, <1>12, <1>13, <1>14, <1>15
<1> QED BY <1>16

-----------------------------------------------------------------------------
(* The verdict and what is stored come from one evaluation, or there is none. *)

Judged(p) == \/ run[p].verdict = "none" /\ run[p].gate = "none"
             \/ <<run[p].verdict, run[p].gate>> \in Outcomes

AllJudged == \A p \in Pushers : Judged(p)

\* What a step of p may do to the judgements: nothing, forget p's, or judge p.
JudgesOnly(p) ==
  /\ \A q \in Pushers \ {p} : run'[q] = run[q]
  /\ \/ run'[p].verdict = run[p].verdict /\ run'[p].gate = run[p].gate
     \/ run'[p].verdict = "none" /\ run'[p].gate = "none"
     \/ <<run'[p].verdict, run'[p].gate>> \in Outcomes

LEMMA JudgedStep ==
  ASSUME AllJudged, NEW p \in Pushers, JudgesOnly(p)
  PROVE  AllJudged'
  BY DEF AllJudged, Judged, JudgesOnly

LEMMA EndedJudges ==
  ASSUME IInv, NEW p \in Pushers, NEW pc, NEW leaked, run' = Ended(p, pc, leaked)
  PROVE  JudgesOnly(p)
<1>1. run \in [Pushers -> Run]
  BY DEF IInv, TypeOK
<1>2. /\ \A q \in Pushers \ {p} : run'[q] = run[q]
      /\ run'[p] = [NewRun("hook", Commit(p), pc) EXCEPT !.port = run[p].port, !.leaked = leaked]
  BY <1>1 DEF Ended
<1> QED BY <1>2 DEF JudgesOnly, NewRun

LEMMA GotoJudges ==
  ASSUME IInv, NEW p \in Pushers, NEW pc, Goto(p, pc)
  PROVE  JudgesOnly(p)
<1>1. run \in [Pushers -> Run]
  BY DEF IInv, TypeOK
<1> QED BY <1>1 DEF Goto, JudgesOnly, Run

LEMMA AdvanceJudges ==
  ASSUME IInv, NEW p \in Pushers, Advance(p) \/ Turn(p)
  PROVE  JudgesOnly(p)
<1>1. run \in [Pushers -> Run] /\ run[p] \in Run
  BY DEF IInv, TypeOK
<1>2. CASE Evaluate(p)
  <2>1. PICK o \in Outcomes :
          run' = [run EXCEPT ![p] = [run[p] EXCEPT !.pc = "persist", !.verdict = o[1], !.gate = o[2]]]
    BY <1>2 DEF Evaluate
  <2>2. o = <<o[1], o[2]>>
    <3>1. \E a, b : o = <<a, b>>
      BY DEF Outcomes, Outcome
    <3> QED BY <3>1
  <2>3. run'[p].verdict = o[1] /\ run'[p].gate = o[2]
    BY <1>1, <2>1 DEF Run
  <2>4. \A q \in Pushers \ {p} : run'[q] = run[q]
    BY <1>1, <2>1
  <2> QED BY <2>2, <2>3, <2>4 DEF JudgesOnly
<1>3. CASE Upsert(p) \/ Build(p) \/ Launch(p) \/ Healthy(p) \/ Record(p) \/ Merge(p)
  BY <1>3, GotoJudges DEF Upsert, Build, Launch, Healthy, Record, Merge
<1>4. CASE Unhealthy(p) \/ Teardown(p)
  BY <1>4, EndedJudges DEF Unhealthy, Teardown
<1>5. CASE FreePort(p)
  BY <1>1, <1>5 DEF FreePort, JudgesOnly, Run
<1>6. CASE Ready(p)
  <2>1. CASE run[p].mode = "hook"
    BY <1>6, <2>1, EndedJudges DEF Ready
  <2>2. CASE run[p].mode # "hook"
    BY <1>1, <1>6, <2>2 DEF Ready, JudgesOnly, Run
  <2> QED BY <2>1, <2>2
<1>7. CASE GoLive(p)
  BY <1>1, <1>7 DEF GoLive, JudgesOnly, Run
<1>8. CASE Stream(p)
  <2>1. PICK lagging, tool :
          run' = [run EXCEPT ![p] = [run[p] EXCEPT !.pc = "seal", !.tool = tool, !.lagging = lagging]]
    BY <1>8 DEF Stream
  <2> QED BY <1>1, <2>1 DEF JudgesOnly, Run
<1>9. CASE Seal(p) \/ ProofFails(p) \/ StreamFails(p)
  <2>1. run' = [run EXCEPT ![p] = [run[p] EXCEPT !.pc = "eval", !.tool = Nobody, !.flipped = 0,
                                                 !.lagging = FALSE]]
    BY <1>9 DEF Seal, ProofFails, StreamFails, ProofOver
  <2> QED BY <1>1, <2>1 DEF JudgesOnly, Run
<1>10. CASE Persist(p)
  <2>1. PICK pc :
          run' = [run EXCEPT ![p] = [run[p] EXCEPT !.pc = pc, !.verdict = "none", !.gate = "none"]]
    BY <1>10 DEF Persist
  <2> QED BY <1>1, <2>1 DEF JudgesOnly, Run
<1> QED BY <1>2, <1>3, <1>4, <1>5, <1>6, <1>7, <1>8, <1>9, <1>10 DEF Advance, Turn

LEMMA JudgedNext == IInv /\ AllJudged /\ [Next]_vars => AllJudged'
<1> SUFFICES ASSUME IInv, AllJudged, [Next]_vars PROVE AllJudged'
  OBVIOUS
<1>1. CASE Reload \/ UNCHANGED vars
  BY <1>1 DEF Reload, vars, AllJudged, Judged
<1>2. ASSUME NEW p \in Pushers, Advance(p) \/ Turn(p) PROVE AllJudged'
  BY <1>2, AdvanceJudges, JudgedStep
<1>3. ASSUME NEW p \in Pushers, StoreFails(p) \/ Kill(p) PROVE AllJudged'
  BY <1>3, GotoJudges, EndedJudges, JudgedStep DEF StoreFails, Kill
<1>4. ASSUME NEW p \in Pushers, NEW c \in Deps, NEW mode, Begin(p, mode, c) PROVE AllJudged'
  <2>1. run \in [Pushers -> Run]
    BY DEF IInv, TypeOK
  <2>2. /\ \A q \in Pushers \ {p} : run'[q] = run[q]
        /\ run'[p] = NewRun(mode, c, "upsert")
    BY <1>4, <2>1 DEF Begin
  <2>3. JudgesOnly(p)
    BY <2>2 DEF JudgesOnly, NewRun
  <2> QED BY <2>3, JudgedStep
<1> QED BY <1>1, <1>2, <1>3, <1>4 DEF Next, Hook, Command

-----------------------------------------------------------------------------
(* The theorems. *)

\* Every reachable state has the types of the declarations.
THEOREM PushTypes == Spec => []TypeOK
  BY Inductive, PTL DEF IInv

\* No agent outlives its push, unless that was killed or lost the database too early.
THEOREM AgentsEnd == Spec => []NothingOutlivesItsPush
<1>1. IInv => NothingOutlivesItsPush
  BY DEF IInv, PusherInv, OwnAgent, NothingOutlivesItsPush
<1> QED BY <1>1, Inductive, PTL

\* A preview's endpoint is answered by its own commit's agent, whatever other pushes do,
\* unless they share its commit or its port.
THEOREM PreviewIsOwn == Spec => []PreviewAnswers
<1>1. ASSUME IInv, NEW p \in Pushers, Provisioned(p), ~SameCommit(p), ~SamePort(p)
      PROVE  \E q \in Answering(endpoint[Commit(p)]) : Commit(q) = Commit(p)
  <2>1. run[p].port # NoPort /\ agent[p] = run[p].port /\ endpoint[Commit(p)] = run[p].port
    BY <1>1 DEF IInv, PusherInv, PreviewUp, EndpointKept, Provisioned, AfterHealth
  <2>2. p \in Answering(endpoint[Commit(p)])
    BY <2>1 DEF Answering
  <2> QED BY <2>2
<1>2. IInv => PreviewAnswers
  BY <1>1 DEF PreviewAnswers
<1> QED BY <1>2, Inductive, PTL

\* The tool call a push seals is its own preview's or the hard-coded one of a turn without
\* any, unless the gateway lagged or another push changed the routing, or shared the port or
\* the commit.
THEOREM SealedIsOwn == Spec => []StreamedIsOwn
<1>1. IInv => StreamedIsOwn
  BY DEF IInv, PusherInv, ToolOwn, StreamedIsOwn
<1> QED BY <1>1, Inductive, PTL

\* The active deployment has all the live traffic.
THEOREM ActiveIsLive == Spec => []ActiveServes
  BY Inductive, PTL DEF IInv

\* The sequential test decides and the interval test is stored: for all samples, of any
\* number, and any threshold, they never say the opposite.
THEOREM TestsAgree == Spec => []NeverContradict
<1>1. Init => AllJudged
  BY DEF Init, NewRun, AllJudged, Judged
<1>2. AllJudged => NeverContradict
  <2> SUFFICES ASSUME AllJudged, NEW p \in Pushers
               PROVE  {run[p].verdict, run[p].gate} # {"ALLOW", "BLOCK"}
    BY DEF NeverContradict
  <2>1. CASE run[p].verdict = "none"
    BY <2>1
  <2>2. CASE <<run[p].verdict, run[p].gate>> \in Outcomes
    <3>1. \A o : o = <<run[p].verdict, run[p].gate>> => o[1] = run[p].verdict /\ o[2] = run[p].gate
      OBVIOUS
    <3> QED BY <2>2, <3>1, NoContradiction
  <2> QED BY <2>1, <2>2 DEF AllJudged, Judged
<1> QED BY <1>1, <1>2, Inductive, JudgedNext, PTL DEF Spec
=============================================================================
