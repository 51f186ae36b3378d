------------------------------- MODULE Evidence -------------------------------
(***************************************************************************)
(* The evaluation runs of one pull request in DuckDB, and who reads and    *)
(* writes them: the CI's commands (agentctl eval ingest, agentctl gate),   *)
(* the GitHub App's webhook threads and the Kubernetes operator's gated    *)
(* rollout.  DuckDB's file belongs to one process at a time; the threads   *)
(* of the app share it.  What a suite's samples amount to is abstracted to *)
(* the verdict evaluate_gate gives them; a suite is its place in the order *)
(* of names.                                                               *)
(***************************************************************************)
EXTENDS Gate

CONSTANTS Commits,        \* pushed to the pull request, in any order
          NoCommit,
          NumSuites,      \* suites of an ingest, in the order of their names
          Threads,        \* of the GitHub App
          CI, Operator,
          Results,        \* verdicts complete samples may have
          Partial,        \* and incomplete ones
          MaxIngests,     \* bound on ingest commands
          MaxDeliveries,  \* bound on webhook deliveries and `agentctl gate` commands
          MaxCrashes      \* bound on ingests killed

ASSUME EvidenceConstants ==
  /\ NumSuites \in Nat \ {0} /\ NoCommit \notin Commits
  /\ CI \notin Threads /\ Operator \notin Threads /\ CI # Operator
  /\ Results \subseteq Verdicts /\ Partial \subseteq Verdicts
  /\ {MaxIngests, MaxDeliveries, MaxCrashes} \subseteq Nat

VARIABLES rows,    \* eval_run and its eval_sample rows, per commit and suite
          judged,  \* the runs that have a gate_result
          holder,  \* the process that has the file open
          act,     \* the CI's command, the app's threads, the operator
          cut,     \* history: commits whose last ingest was killed
          green,   \* the status posted last is success
          settled, \* the AgentDeployment has a .status.phase: Live, Blocked or Invalid
          ingests, deliveries, crashes

bounds == <<ingests, deliveries, crashes>>
outside == <<green, settled>>
vars == <<rows, judged, holder, act, cut, outside, bounds>>

Actors == Threads \cup {CI, Operator}
Suites == 1..NumSuites
Runs == Commits \X Suites
Processes == {"free", "ci", "app", "operator"}
Process(a) == IF a = CI THEN "ci" ELSE IF a = Operator THEN "operator" ELSE "app"

Ingesting == {"drop", "create", "clear", "insert", "fill"}
Gating == {"judge", "save", "post"}     \* with the file open
PCs == {"idle", "open", "apply"} \cup Ingesting \cup Gating

\* Mutant of NoRun: no samples, no verdict.
NoRunNone == [there |-> FALSE, verdict |-> "none", whole |-> FALSE]

\* A run without samples is INSUFFICIENT_DATA for evaluate_gate.
NoRun == [there |-> FALSE, verdict |-> "INSUFFICIENT_DATA", whole |-> FALSE]
WholeRun(v) == [there |-> TRUE, verdict |-> v, whole |-> TRUE]
Idle == [pc |-> "idle", job |-> "gate", commit |-> NoCommit, suite |-> 0, todo |-> {},
         run |-> <<>>, got |-> "none", decided |-> <<>>]

Rows == [there : BOOLEAN, verdict : Verdicts, whole : BOOLEAN]
Decisions == UNION {[S -> Verdicts] : S \in SUBSET Suites}
Jobs == [pc : PCs, job : {"gate", "ingest", "run"}, commit : Commits \cup {NoCommit},
         suite : Suites \cup {0}, todo : SUBSET Runs, run : Runs \cup {<<>>},
         got : Verdicts \cup {"none"}, decided : Decisions]

TypeOK ==
  /\ rows \in [Runs -> Rows]
  /\ judged \subseteq Runs
  /\ holder \in Processes
  /\ act \in [Actors -> Jobs]
  /\ cut \subseteq Commits
  /\ green \in BOOLEAN /\ settled \in BOOLEAN
  /\ ingests \in 0..MaxIngests /\ deliveries \in 0..MaxDeliveries /\ crashes \in 0..MaxCrashes

Init ==
  /\ rows = [r \in Runs |-> NoRun]
  /\ judged = {}
  /\ holder = "free"
  /\ act = [a \in Actors |-> Idle]
  /\ cut = {}
  /\ green = FALSE /\ settled = FALSE
  /\ ingests = 0 /\ deliveries = 0 /\ crashes = 0

-----------------------------------------------------------------------------
At(a, pc) == act[a].pc = pc
Set(a, job) == act' = [act EXCEPT ![a] = job]

\* A process closes the file when the last connection to it goes.
Released(a) ==
  IF \E b \in Actors \ {a} : Process(b) = Process(a) /\ act[b].pc \in Gating \cup Ingesting
  THEN holder ELSE "free"

Begin(a, job, c, s) ==
  /\ At(a, "idle")
  /\ Set(a, [Idle EXCEPT !.pc = "open", !.job = job, !.commit = c, !.suite = s])
  /\ UNCHANGED <<rows, judged, holder, cut, outside, crashes>>

\* agentctl eval ingest, for one commit of the pull request.
Ingest(c) == /\ ingests < MaxIngests /\ ingests' = ingests + 1
             /\ Begin(CI, "ingest", c, 0) /\ UNCHANGED deliveries

\* agentctl gate --pr --github.  The commit of the workflow only names the status.
Check == /\ deliveries < MaxDeliveries /\ deliveries' = deliveries + 1
         /\ Begin(CI, "gate", NoCommit, 0) /\ UNCHANGED ingests

\* agentctl gate --run-id --github: the verdict of one run is posted under the same status.
CheckRun(r) == /\ deliveries < MaxDeliveries /\ deliveries' = deliveries + 1
               /\ Begin(CI, "run", r[1], r[2]) /\ UNCHANGED ingests

\* The run that a --run-id names.
Asked(job) == <<job.commit, job.suite>>

\* A pull_request event is given to an idle thread, whichever: threads are alike.  Late,
\* redelivered and overtaken events look the same: the head only names the status, too.
Deliver ==
  /\ \E t \in Threads : At(t, "idle")
  /\ deliveries < MaxDeliveries /\ deliveries' = deliveries + 1
  /\ Begin(CHOOSE t \in Threads : At(t, "idle"), "gate", NoCommit, 0)
  /\ UNCHANGED ingests

\* An AgentDeployment is applied that is to go live once the pull request's gate allows it.
Apply == /\ ~settled /\ Begin(Operator, "gate", NoCommit, 0)
         /\ UNCHANGED <<ingests, deliveries>>

\* duckdb.connect by the process that has the file, or when no process has it.  A gate
\* lists the runs of every commit of the pull request (runs_for_pr), or looks up the one it
\* was asked for (run_meta).
ToJudge(job) ==
  {r \in Runs : rows[r].there /\ (job.job = "run" => r = Asked(job))}

Open(a) ==
  /\ At(a, "open") /\ holder \in {"free", Process(a)}
  /\ act[a].job = "run" => rows[Asked(act[a])].there
  /\ holder' = Process(a)
  /\ IF act[a].job = "ingest"
     THEN Set(a, [act[a] EXCEPT !.pc = "drop", !.suite = 1])
     ELSE Set(a, [act[a] EXCEPT !.pc = "judge", !.todo = ToJudge(act[a])])
  /\ UNCHANGED <<rows, judged, cut, outside, bounds>>

\* There is no such run: the command ends without a word to GitHub.
UnknownRun(a) ==
  /\ At(a, "open") /\ holder \in {"free", Process(a)}
  /\ act[a].job = "run" /\ ~rows[Asked(act[a])].there
  /\ Set(a, Idle)
  /\ UNCHANGED <<rows, judged, holder, cut, outside, bounds>>

\* Mutant of Locked: the operator takes it for an error that no retry mends.
LockedForGood(a) ==
  /\ At(a, "open") /\ holder \notin {"free", Process(a)}
  /\ Set(a, Idle)
  /\ UNCHANGED <<rows, judged, holder, cut, outside, bounds>>

\* Otherwise it raises: the command fails, the webhook answers 500, and the operator's
\* framework retries.
Locked(a) ==
  /\ At(a, "open") /\ holder \notin {"free", Process(a)}
  /\ a # Operator
  /\ Set(a, Idle)
  /\ UNCHANGED <<rows, judged, holder, cut, outside, bounds>>

-----------------------------------------------------------------------------
(* ingest_paired: every suite's run in turn, each statement committed by itself. *)

Current == <<act[CI].commit, act[CI].suite>>

Write(pc, next, row) ==
  /\ At(CI, pc)
  /\ rows' = [rows EXCEPT ![Current] = row]
  /\ Set(CI, [act[CI] EXCEPT !.pc = next])
  /\ UNCHANGED <<judged, holder, cut, outside, bounds>>

\* create_run deletes the row of the run and inserts it again; the samples of an earlier
\* ingest stay for now.
DropRun == Write("drop", "create", [rows[Current] EXCEPT !.there = FALSE])
CreateRun == Write("create", "clear", [rows[Current] EXCEPT !.there = TRUE])

\* record_samples deletes what there was and inserts one sample after the other.
ClearSamples == Write("clear", "insert", [NoRun EXCEPT !.there = TRUE])
InsertSamples ==
  \E v \in Partial : Write("insert", "fill", [there |-> TRUE, verdict |-> v, whole |-> FALSE])

\* Mutant of FillSamples: the file is closed after every suite.
FillAndClose ==
  /\ At(CI, "fill")
  /\ \E v \in Results :
       rows' = [rows EXCEPT ![Current] = WholeRun(v)]
  /\ holder' = Released(CI)
  /\ IF act[CI].suite = NumSuites
     THEN Set(CI, Idle) /\ cut' = cut \ {act[CI].commit}
     ELSE Set(CI, [act[CI] EXCEPT !.pc = "drop", !.suite = @ + 1]) /\ UNCHANGED cut
  /\ UNCHANGED <<judged, outside, bounds>>

\* The last sample, finish_run, and the next suite or the end of the command.
FillSamples ==
  /\ At(CI, "fill")
  /\ \E v \in Results :
       rows' = [rows EXCEPT ![Current] = WholeRun(v)]
  /\ IF act[CI].suite = NumSuites
     THEN Set(CI, Idle) /\ cut' = cut \ {act[CI].commit} /\ holder' = Released(CI)
     ELSE /\ Set(CI, [act[CI] EXCEPT !.pc = "drop", !.suite = @ + 1])
          /\ UNCHANGED <<cut, holder>>
  /\ UNCHANGED <<judged, outside, bounds>>

\* The command is killed: the file is free, what it wrote stays.
Crash ==
  /\ crashes < MaxCrashes /\ crashes' = crashes + 1
  /\ act[CI].pc \in Ingesting
  /\ cut' = cut \cup {act[CI].commit}
  /\ holder' = Released(CI)
  /\ Set(CI, Idle)
  /\ UNCHANGED <<rows, judged, outside, ingests, deliveries>>

-----------------------------------------------------------------------------
(* gate_pr, and gate_run for the one run of a --run-id. *)

\* gate_run: the samples are counted and judged, and the old verdict is deleted.  Runs come
\* in the order of their suites; among the commits of a suite there is no order.
Judge(a) ==
  /\ At(a, "judge")
  /\ \E r \in act[a].todo :
       /\ \A q \in act[a].todo : r[2] <= q[2]
       /\ Set(a, [act[a] EXCEPT !.pc = "save", !.run = r, !.got = rows[r].verdict,
                                !.todo = @ \ {r}])
       /\ judged' = judged \ {r}
  /\ UNCHANGED <<rows, holder, cut, outside, bounds>>

\* Mutant of Decide: only the suite judged last is kept.
DecideLast(d, s, v) == [t \in {s} |-> v]

\* decisions[suite]: a later run of the suite replaces the earlier.
Decide(d, s, v) == [t \in DOMAIN d \cup {s} |-> IF t = s THEN v ELSE d[t]]

\* The new verdict is inserted, and is the suite's so far.
Save(a) ==
  /\ At(a, "save") /\ act[a].run \notin judged
  /\ judged' = judged \cup {act[a].run}
  /\ Set(a, [act[a] EXCEPT !.pc = "judge", !.run = <<>>, !.got = "none",
                           !.decided = Decide(@, act[a].run[2], act[a].got)])
  /\ UNCHANGED <<rows, holder, cut, outside, bounds>>

\* Another thread of the app has inserted its own since: the primary key refuses, and the
\* delivery is answered as "skipped".
Conflict(a) ==
  /\ At(a, "save") /\ act[a].run \in judged
  /\ Set(a, Idle) /\ holder' = Released(a)
  /\ UNCHANGED <<rows, judged, cut, outside, bounds>>

Verdict(a) == Aggregate(act[a].decided, Suites)

\* Mutant of Judged: the store is closed before the verdict is posted.
JudgedAndClosed(a) ==
  /\ At(a, "judge") /\ act[a].todo = {}
  /\ a # Operator /\ (a = CI \/ act[a].decided # <<>>)
  /\ holder' = Released(a)
  /\ Set(a, [act[a] EXCEPT !.pc = "post"])
  /\ UNCHANGED <<rows, judged, cut, outside, bounds>>

\* All runs are judged.  A thread without any run skips; the CI's command goes on with the
\* ALLOW of no suites.
Judged(a) ==
  /\ At(a, "judge") /\ act[a].todo = {}
  /\ a # Operator /\ (a = CI \/ act[a].decided # <<>>)
  /\ Set(a, [act[a] EXCEPT !.pc = "post"])
  /\ UNCHANGED <<rows, judged, holder, cut, outside, bounds>>

Skip(t) ==
  /\ t \in Threads
  /\ At(t, "judge") /\ act[t].todo = {} /\ act[t].decided = <<>>
  /\ Set(t, Idle) /\ holder' = Released(t)
  /\ UNCHANGED <<rows, judged, cut, outside, bounds>>

\* Of a single run it is the run's decision: failure if that is BLOCK.
State(a) == IF ExitCode(Verdict(a)) = 0 THEN "success" ELSE "failure"

\* The status is posted to GitHub, or lost; the connection
\* is let go of when the handler returns.
Post(a) ==
  /\ At(a, "post")
  /\ green' \in {green, State(a) = "success"}
  /\ Set(a, Idle) /\ holder' = Released(a)
  /\ UNCHANGED <<rows, judged, cut, settled, bounds>>

-----------------------------------------------------------------------------
(* gated_rollout under the operator: the store is closed, then routing is written. *)

OperatorJudged ==
  /\ At(Operator, "judge") /\ act[Operator].todo = {}
  /\ holder' = Released(Operator)
  /\ IF Verdict(Operator) = "ALLOW"
     THEN Set(Operator, [act[Operator] EXCEPT !.pc = "apply"]) /\ UNCHANGED settled
     ELSE Set(Operator, Idle) /\ settled' = TRUE
  /\ UNCHANGED <<rows, judged, cut, green, bounds>>

\* set_canary is applied, or refuses the commit for good.
Rollout ==
  /\ At(Operator, "apply")
  /\ settled' = TRUE
  /\ Set(Operator, Idle)
  /\ UNCHANGED <<rows, judged, holder, cut, green, bounds>>

\* Postgres is away: the whole reconcile is tried again.
RolloutFails ==
  /\ At(Operator, "apply")
  /\ Set(Operator, [Idle EXCEPT !.pc = "open"])
  /\ UNCHANGED <<rows, judged, holder, cut, outside, bounds>>

-----------------------------------------------------------------------------
Advance(a) ==
  \/ Open(a) \/ UnknownRun(a) \/ Locked(a) \/ Judge(a) \/ Save(a) \/ Conflict(a)
  \/ Judged(a) \/ Skip(a) \/ Post(a)
IngestSteps == DropRun \/ CreateRun \/ ClearSamples \/ InsertSamples \/ FillSamples

Next ==
  \/ \E a \in Actors : Advance(a)
  \/ IngestSteps \/ Crash
  \/ Check \/ Deliver \/ Apply \/ OperatorJudged \/ Rollout \/ RolloutFails
  \/ \E c \in Commits : Ingest(c)
  \/ \E r \in Runs : CheckRun(r)

Spec == Init /\ [][Next]_vars

\* Commands, threads and the operator go on; Postgres is not away for ever.
Fairness ==
  /\ \A a \in Actors : WF_vars(Advance(a))
  /\ WF_vars(IngestSteps) /\ WF_vars(OperatorJudged) /\ SF_vars(Rollout)
FairSpec == Spec /\ Fairness

-----------------------------------------------------------------------------
(* Properties. *)

HasRun(s) == \E c \in Commits : rows[<<c, s>>].there
Whole(c, s) == rows[<<c, s>>].there /\ rows[<<c, s>>].whole

\* A gate never judges an ingest that is under way: while it has the store open, every commit
\* that has a run has a complete one of every suite, unless its last ingest was killed.
\* (finished_at is never looked at, so a killed one is judged by what it left.)
GateSeesWholeRuns ==
  \A a \in Actors, c \in Commits :
    /\ act[a].pc \in Gating
    /\ \E s \in Suites : rows[<<c, s>>].there
    => c \in cut \/ \A s \in Suites : Whole(c, s)

\* A verdict about to be posted is that of the runs in the store: nothing is ingested between
\* the reading of a suite and the post.  A gate of the pull request decided every suite that
\* has a run, by one of its runs as it still is (by which of them, the order of runs_for_pr
\* leaves open); one that was asked for a single run decided that run's suite and no other.
VerdictIsCurrent ==
  \A a \in Actors : At(a, "post") =>
    LET job == act[a]
    IN  IF job.job = "run"
        THEN /\ rows[Asked(job)].there
             /\ job.decided = [s \in {job.suite} |-> rows[Asked(job)].verdict]
        ELSE /\ DOMAIN job.decided = {s \in Suites : HasRun(s)}
             /\ \A s \in DOMAIN job.decided :
                  \E c \in Commits : rows[<<c, s>>].there /\ rows[<<c, s>>].verdict = job.decided[s]

\* Every suite has a run that does not block, or none at all.
NoSuiteBlocked ==
  \A s \in Suites : HasRun(s) =>
    \E c \in Commits : rows[<<c, s>>].there /\ rows[<<c, s>>].verdict # "BLOCK"

\* The CI posts the verdict of a single run, which does not block.
PostsOneRun ==
  /\ At(CI, "post") /\ act[CI].job = "run" /\ ~At(CI, "post")'
  /\ rows[Asked(act[CI])].verdict # "BLOCK"

\* A pull request never turns green while some suite is blocked in every one of its runs, whichever
\* commits the runs are of, however events are delivered and threads run over each other; unless
\* somebody had a single run gated (--run-id), and that one does not block.
BlockedIsNotGreen == [][~green /\ green' => NoSuiteBlocked \/ PostsOneRun]_vars

\* controller.py: a temporary error is retried, so a resource that is applied reaches a phase,
\* although every other process may have the file when the operator wants it.
ReconcileSettles == ~At(Operator, "idle") ~> settled
-----------------------------------------------------------------------------
(* The inductive invariant of EvidenceProofs. *)

\* The file is one process's: whoever reads or writes it belongs to its holder.
FileInv ==
  \A a \in Actors : act[a].pc \in Gating \cup Ingesting => holder = Process(a)

\* The CI ingests, one suite after the other, and a commit whose runs are in pieces is being
\* ingested or was when the command was killed.
IngestInv ==
  /\ \A a \in Actors :
       /\ act[a].job = "ingest" => a = CI /\ act[a].commit \in Commits
       /\ act[a].pc \in Ingesting => act[a].job = "ingest" /\ act[a].suite \in Suites
  /\ act[CI].pc \in Ingesting =>
       \A t \in Suites : t < act[CI].suite => Whole(act[CI].commit, t)
  /\ \A c \in Commits :
       \/ c \in cut
       \/ act[CI].pc \in Ingesting /\ act[CI].commit = c
       \/ (\E s \in Suites : rows[<<c, s>>].there) => \A s \in Suites : Whole(c, s)

\* What a gate has decided or has still to judge, given the rows: every suite that has a run
\* is decided by one of its runs, or waits for one.
Covers(job, rs) ==
  /\ job.pc = "open" => job.decided = <<>>
  /\ job.pc \in Gating =>
       /\ \A r \in job.todo : rs[r].there
       /\ \A s \in DOMAIN job.decided :
            \E c \in Commits : rs[<<c, s>>].there /\ rs[<<c, s>>].verdict = job.decided[s]
       /\ job.job # "run" => \A s \in Suites : (\E c \in Commits : rs[<<c, s>>].there) =>
            \/ s \in DOMAIN job.decided
            \/ \E r \in job.todo : r[2] = s
            \/ job.pc = "save" /\ job.run[2] = s
  /\ job.pc = "save" => job.run \in Runs /\ rs[job.run].there /\ job.got = rs[job.run].verdict
  /\ job.pc = "post" => job.todo = {}

\* And of the gate of one run: that one waits, is being judged, or is decided.
CoversRun(job, rs) ==
  job.job = "run" =>
    /\ Asked(job) \in Runs
    /\ job.pc \in Gating =>
         /\ rs[Asked(job)].there
         /\ \/ job.pc = "judge" /\ job.todo = {Asked(job)} /\ job.decided = <<>>
            \/ job.pc = "save" /\ job.todo = {} /\ job.run = Asked(job) /\ job.decided = <<>>
            \/ /\ job.pc \in {"judge", "post"} /\ job.todo = {}
               /\ job.decided = [s \in {job.suite} |-> rs[Asked(job)].verdict]

GateInv(a) ==
  /\ Covers(act[a], rows) /\ CoversRun(act[a], rows)
  /\ act[a].job = "run" => a = CI

IInv == TypeOK /\ FileInv /\ IngestInv /\ \A a \in Actors : GateInv(a)
=============================================================================
