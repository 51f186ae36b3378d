---------------------------- MODULE EvidenceProofs ----------------------------
(***************************************************************************)
(* The runs of a pull request, for any commits, suites, threads and bounds *)
(* on commands: a gate never judges an ingest under way, a verdict that is *)
(* posted is what the store says, and a blocked suite turns nothing green. *)
(***************************************************************************)
EXTENDS Evidence, SequenceTheorems, TLAPS

LEMMA ProcessType ==
  ASSUME NEW a \in Actors
  PROVE  /\ Process(a) \in Processes /\ Process(a) # "free"
         /\ Process(a) = "ci" <=> a = CI
  BY EvidenceConstants DEF Process, Processes, Actors

LEMMA WhoIsWho == CI \in Actors /\ Operator \in Actors /\ Threads \subseteq Actors /\ CI # Operator
  BY EvidenceConstants DEF Actors

LEMMA PhasesDiffer ==
  /\ Gating \cap Ingesting = {}
  /\ {"idle", "open", "apply"} \cap (Gating \cup Ingesting) = {}
  /\ PCs = {"idle", "open", "apply"} \cup Gating \cup Ingesting
  BY DEF Gating, Ingesting, PCs

LEMMA NothingDecided == <<>> \in Decisions /\ DOMAIN <<>> = {}
<1>1. <<>> \in [{} -> Verdicts]
  BY EmptySeq
<1> QED BY <1>1 DEF Decisions

LEMMA IdleType == Idle \in Jobs /\ Idle.pc = "idle" /\ Idle.decided = <<>>
<1>1. <<>> \in Decisions
  BY NothingDecided
<1> QED BY <1>1 DEF Idle, Jobs, PCs

LEMMA DecideType ==
  ASSUME NEW d \in Decisions, NEW s \in Suites, NEW v \in Verdicts
  PROVE  Decide(d, s, v) \in Decisions
<1>1. PICK S \in SUBSET Suites : d \in [S -> Verdicts]
  BY DEF Decisions
<1>2. Decide(d, s, v) \in [S \cup {s} -> Verdicts]
  BY <1>1 DEF Decide
<1>3. S \cup {s} \in SUBSET Suites
  OBVIOUS
<1> QED BY <1>2, <1>3 DEF Decisions

LEMMA DecidedSuites ==
  ASSUME NEW d \in Decisions
  PROVE  DOMAIN d \subseteq Suites
  BY DEF Decisions

\* A job that is set is the actor's, and the others keep theirs.
LEMMA SetType ==
  ASSUME act \in [Actors -> Jobs], NEW a \in Actors, NEW j \in Jobs, Set(a, j)
  PROVE  /\ act' \in [Actors -> Jobs]
         /\ act'[a] = j
         /\ \A b \in Actors \ {a} : act'[b] = act[b]
  BY DEF Set

LEMMA ReleasedType ==
  ASSUME TypeOK, NEW a \in Actors
  PROVE  /\ Released(a) \in Processes
         /\ Released(a) \in {holder, "free"}
         /\ Released(a) = holder \/ \A b \in Actors \ {a} :
              Process(b) = Process(a) => act[b].pc \notin Gating \cup Ingesting
  BY DEF Released, TypeOK, Processes

\* While the CI ingests, nobody gates.
LEMMA IngestIsAlone ==
  ASSUME IInv, act[CI].pc \in Ingesting
  PROVE  \A b \in Actors : act[b].pc \notin Gating
<1> SUFFICES ASSUME NEW b \in Actors, act[b].pc \in Gating PROVE FALSE
  OBVIOUS
<1>1. holder = "ci"
  BY WhoIsWho, ProcessType DEF IInv, FileInv
<1>2. b = CI
  BY <1>1, ProcessType DEF IInv, FileInv
<1> QED BY <1>2, PhasesDiffer

\* Whoever lets go of the file takes it from nobody who has it.
LEMMA FileStep ==
  ASSUME IInv, NEW a \in Actors, NEW j \in Jobs, Set(a, j),
         \/ holder' = holder /\ (j.pc \in Gating \cup Ingesting => act[a].pc \in Gating \cup Ingesting)
         \/ /\ holder' = Released(a) /\ act[a].pc \in Gating \cup Ingesting
            /\ j.pc \notin Gating \cup Ingesting
  PROVE  FileInv' /\ holder' \in Processes
<1>1. act'[a] = j /\ \A b \in Actors \ {a} : act'[b] = act[b]
  BY SetType DEF IInv, TypeOK
<1>2. \A b \in Actors : act[b].pc \in Gating \cup Ingesting => holder = Process(b)
  BY DEF IInv, FileInv
<1>3. holder' \in Processes
  BY ReleasedType DEF IInv, TypeOK
<1>4. ASSUME NEW b \in Actors, act'[b].pc \in Gating \cup Ingesting
      PROVE  holder' = Process(b)
  <2>1. CASE holder' = holder /\ (j.pc \in Gating \cup Ingesting => act[a].pc \in Gating \cup Ingesting)
    BY <1>1, <1>2, <1>4, <2>1
  <2>2. CASE /\ holder' = Released(a) /\ act[a].pc \in Gating \cup Ingesting
             /\ j.pc \notin Gating \cup Ingesting
    <3>1. b # a /\ act[b].pc \in Gating \cup Ingesting
      BY <1>1, <1>4, <2>2
    <3>2. Process(b) = Process(a)
      BY <1>2, <2>2, <3>1
    <3>3. Released(a) = holder
      BY <3>1, <3>2, ReleasedType DEF IInv
    <3> QED BY <1>2, <2>2, <3>1, <3>3
  <2> QED BY <2>1, <2>2
<1> QED BY <1>3, <1>4 DEF FileInv

\* Where no row changes, the others' gates see what they saw.
LEMMA OthersSee ==
  ASSUME IInv, NEW a \in Actors, NEW j \in Jobs, Set(a, j), UNCHANGED rows
  PROVE  \A b \in Actors \ {a} : GateInv(b)'
<1>1. \A b \in Actors \ {a} : act'[b] = act[b]
  BY SetType DEF IInv, TypeOK
<1> SUFFICES ASSUME NEW b \in Actors \ {a} PROVE GateInv(b)'
  OBVIOUS
<1>2. GateInv(b)
  BY DEF IInv
<1>3. rows' = rows
  OBVIOUS
<1> QED BY <1>1, <1>2, <1>3 DEF GateInv

\* A step that ingests nothing and changes no row leaves the runs as whole as they were.
LEMMA ReadStep ==
  ASSUME IInv, NEW a \in Actors, NEW j \in Jobs, Set(a, j), UNCHANGED <<rows, cut>>,
         act[a].pc \notin Ingesting,
         j.job = "ingest" => a = CI /\ j.commit \in Commits,
         j.pc \in Ingesting => j.job = "ingest" /\ j.suite = 1
  PROVE  IngestInv'
<1>1. act'[a] = j /\ \A b \in Actors \ {a} : act'[b] = act[b]
  BY SetType DEF IInv, TypeOK
<1>2. \A b \in Actors :
        /\ act'[b].job = "ingest" => b = CI /\ act'[b].commit \in Commits
        /\ act'[b].pc \in Ingesting => act'[b].job = "ingest" /\ act'[b].suite \in Suites
  <2>1. 1 \in Suites
    BY EvidenceConstants DEF Suites
  <2>2. \A b \in Actors :
          /\ act[b].job = "ingest" => b = CI /\ act[b].commit \in Commits
          /\ act[b].pc \in Ingesting => act[b].job = "ingest" /\ act[b].suite \in Suites
    BY DEF IInv, IngestInv
  <2> QED BY <1>1, <2>1, <2>2
<1>3. ASSUME act'[CI].pc \in Ingesting, NEW t \in Suites, t < act'[CI].suite
      PROVE  Whole(act[CI].commit, t)'
  <2>1. CASE a = CI
    <3>1. act'[CI].suite = 1
      BY <1>1, <1>3, <2>1
    <3> QED BY <1>3, <3>1, EvidenceConstants DEF Suites
  <2>2. CASE a # CI
    <3>1. act'[CI] = act[CI]
      BY <1>1, <2>2, WhoIsWho
    <3> QED BY <1>3, <3>1 DEF IInv, IngestInv, Whole
  <2> QED BY <2>1, <2>2
<1>4. ASSUME NEW c \in Commits
      PROVE  \/ c \in cut'
             \/ act'[CI].pc \in Ingesting /\ act'[CI].commit = c
             \/ (\E s \in Suites : rows'[<<c, s>>].there) => \A s \in Suites : Whole(c, s)'
  <2>1. \/ c \in cut
        \/ act[CI].pc \in Ingesting /\ act[CI].commit = c
        \/ (\E s \in Suites : rows[<<c, s>>].there) => \A s \in Suites : Whole(c, s)
    BY DEF IInv, IngestInv
  <2>2. CASE c \in cut
    BY <2>2
  <2>3. CASE act[CI].pc \in Ingesting /\ act[CI].commit = c
    BY <1>1, <2>3, WhoIsWho
  <2>4. CASE (\E s \in Suites : rows[<<c, s>>].there) => \A s \in Suites : Whole(c, s)
    BY <2>4 DEF Whole
  <2> QED BY <2>1, <2>2, <2>3, <2>4
<1> QED BY <1>2, <1>3, <1>4 DEF IngestInv

\* A step of one actor that neither ingests nor changes a row.
LEMMA GateStep ==
  ASSUME IInv, NEW a \in Actors, NEW j \in Jobs, Set(a, j), UNCHANGED <<rows, cut>>,
         act[a].pc \notin Ingesting, j.pc \notin Ingesting,
         j.job = "ingest" => a = CI /\ j.commit \in Commits,
         \/ holder' = holder /\ (j.pc \in Gating => act[a].pc \in Gating)
         \/ holder' = Released(a) /\ act[a].pc \in Gating /\ j.pc \notin Gating,
         j.pc = "open" => j.decided = <<>>,
         j.job = "run" => a = CI /\ Asked(j) \in Runs,
         j.pc \in Gating => GateInv(a)'
  PROVE  /\ FileInv' /\ IngestInv' /\ \A b \in Actors : GateInv(b)'
         /\ act' \in [Actors -> Jobs] /\ holder' \in Processes
<1>1. act' \in [Actors -> Jobs] /\ act'[a] = j
  BY SetType DEF IInv, TypeOK
<1>2. FileInv' /\ holder' \in Processes
  BY FileStep
<1>3. IngestInv'
  BY ReadStep
<1>4. GateInv(a)'
  BY <1>1 DEF GateInv, Covers, CoversRun, Gating
<1>5. \A b \in Actors \ {a} : GateInv(b)'
  BY OthersSee
<1> QED BY <1>1, <1>2, <1>3, <1>4, <1>5

-----------------------------------------------------------------------------
(* One lemma per action. *)

LEMMA InitInv == Init => IInv
<1> SUFFICES ASSUME Init PROVE IInv
  OBVIOUS
<1>1. \A a \in Actors : act[a] = Idle /\ act[a].pc = "idle" /\ act[a].job = "gate"
  BY DEF Init, Idle
<1>2. TypeOK
  <2>1. NoRun \in Rows
    BY DEF NoRun, Rows, Verdicts
  <2>2. act \in [Actors -> Jobs]
    BY IdleType DEF Init
  <2>3. rows \in [Runs -> Rows]
    BY <2>1 DEF Init
  <2>4. 0 \in 0..MaxIngests /\ 0 \in 0..MaxDeliveries /\ 0 \in 0..MaxCrashes
    BY EvidenceConstants
  <2> QED BY <2>2, <2>3, <2>4 DEF Init, TypeOK, Processes
<1>3. FileInv
  BY <1>1, PhasesDiffer DEF FileInv
<1>4. IngestInv
  <2>1. \A r \in Runs : ~rows[r].there
    BY DEF Init, NoRun
  <2>2. \A c \in Commits, s \in Suites : ~rows[<<c, s>>].there
    BY <2>1 DEF Runs
  <2> QED BY <1>1, <2>2, WhoIsWho, PhasesDiffer DEF IngestInv
<1>5. \A a \in Actors : GateInv(a)
  BY <1>1 DEF GateInv, Covers, CoversRun, Gating
<1> QED BY <1>2, <1>3, <1>4, <1>5 DEF IInv

LEMMA BeginInv ==
  ASSUME IInv, NEW a \in Actors, NEW job \in {"gate", "ingest", "run"}, NEW c \in Commits \cup {NoCommit},
         NEW s \in Suites \cup {0}, Begin(a, job, c, s),
         job = "ingest" => a = CI /\ c \in Commits, job = "run" => a = CI /\ <<c, s>> \in Runs,
         ingests' \in 0..MaxIngests, deliveries' \in 0..MaxDeliveries
  PROVE  IInv'
<1> DEFINE j == [Idle EXCEPT !.pc = "open", !.job = job, !.commit = c, !.suite = s]
<1>1. /\ j \in Jobs /\ j.pc = "open" /\ j.decided = <<>>
      /\ j.job = job /\ j.commit = c /\ j.suite = s
  BY NothingDecided DEF Idle, Jobs, PCs
<1>2. Set(a, j) /\ act[a].pc = "idle"
  BY DEF Begin, At
<1>3. UNCHANGED <<rows, judged, holder, cut, green, settled, crashes>>
  BY DEF Begin, outside
<1> HIDE DEF j
<1>4. /\ FileInv' /\ IngestInv' /\ \A b \in Actors : GateInv(b)'
      /\ act' \in [Actors -> Jobs] /\ holder' \in Processes
  BY <1>1, <1>2, <1>3, GateStep DEF Gating, Ingesting, Asked
<1> QED BY <1>3, <1>4 DEF IInv, TypeOK

\* A command that fails, a delivery that is skipped, a resource that waits.
LEMMA IdleInv ==
  ASSUME IInv, NEW a \in Actors, Set(a, Idle), act[a].pc \notin Ingesting,
         \/ holder' = holder
         \/ holder' = Released(a) /\ act[a].pc \in Gating,
         UNCHANGED <<rows, judged, cut, ingests, deliveries, crashes>>,
         green' \in BOOLEAN, settled' \in BOOLEAN
  PROVE  IInv'
<1>1. Idle \in Jobs /\ Idle.pc = "idle" /\ Idle.job = "gate"
  BY IdleType DEF Idle
<1>2. /\ FileInv' /\ IngestInv' /\ \A b \in Actors : GateInv(b)'
      /\ act' \in [Actors -> Jobs] /\ holder' \in Processes
  BY <1>1, GateStep DEF Gating, Ingesting
<1> QED BY <1>2 DEF IInv, TypeOK

LEMMA OpenInv ==
  ASSUME IInv, NEW a \in Actors, Open(a)
  PROVE  IInv'
<1>1. act[a] \in Jobs /\ act[a].pc = "open" /\ act[a].decided = <<>>
  BY DEF Open, At, IInv, TypeOK, GateInv, Covers
<1>2. UNCHANGED <<rows, judged, cut, green, settled, ingests, deliveries, crashes>>
  BY DEF Open, outside, bounds
<1>3. holder' = Process(a) /\ holder \in {"free", Process(a)}
  BY DEF Open
<1>4. PICK j \in Jobs :
        /\ Set(a, j) /\ j.job = act[a].job /\ j.commit = act[a].commit
        /\ \/ act[a].job = "ingest" /\ j.pc = "drop" /\ j.suite = 1
           \/ j.pc = "judge" /\ j.decided = <<>> /\ j.todo = ToJudge(act[a]) /\ j.suite = act[a].suite
  <2>1. CASE act[a].job = "ingest"
    <3> DEFINE j == [act[a] EXCEPT !.pc = "drop", !.suite = 1]
    <3>1. 1 \in Suites
      BY EvidenceConstants DEF Suites
    <3>2. j \in Jobs /\ j.job = act[a].job /\ j.commit = act[a].commit /\ j.pc = "drop" /\ j.suite = 1
      BY <1>1, <3>1 DEF Jobs, PCs, Ingesting
    <3> QED BY <2>1, <3>2 DEF Open
  <2>2. CASE act[a].job # "ingest"
    <3> DEFINE T == ToJudge(act[a])
               j == [act[a] EXCEPT !.pc = "judge", !.todo = T]
    <3>1. T \in SUBSET Runs
      BY DEF ToJudge
    <3> HIDE DEF T
    <3>2. /\ j \in Jobs /\ j.job = act[a].job /\ j.commit = act[a].commit /\ j.pc = "judge"
          /\ j.decided = <<>> /\ j.todo = T /\ j.suite = act[a].suite
      BY <1>1, <3>1 DEF Jobs, PCs, Gating
    <3>3. Set(a, j)
      BY <2>2 DEF Open, T
    <3> QED BY <3>2, <3>3 DEF T
  <2> QED BY <2>1, <2>2
<1>5. act' \in [Actors -> Jobs] /\ act'[a] = j /\ \A b \in Actors \ {a} : act'[b] = act[b]
  BY <1>4, SetType DEF IInv, TypeOK
<1>6. FileInv'
  <2> SUFFICES ASSUME NEW b \in Actors, act'[b].pc \in Gating \cup Ingesting
               PROVE  holder' = Process(b)
    BY DEF FileInv
  <2>1. CASE b = a
    BY <1>3, <2>1
  <2>2. CASE b # a
    <3>1. holder = Process(b)
      BY <1>5, <2>2 DEF IInv, FileInv
    <3> QED BY <1>3, <3>1, ProcessType
  <2> QED BY <2>1, <2>2
<1>7. IngestInv'
  <2>1. j.job = "ingest" => a = CI /\ j.commit \in Commits
    BY <1>4 DEF IInv, IngestInv
  <2>2. act[a].pc \notin Ingesting /\ (j.pc \in Ingesting => j.job = "ingest" /\ j.suite = 1)
    BY <1>1, <1>4, PhasesDiffer DEF Gating, Ingesting
  <2> QED BY <1>2, <1>4, <2>1, <2>2, ReadStep
<1>8. GateInv(a)'
  <2>0. CoversRun(act[a], rows) /\ (act[a].job = "run" => rows[Asked(act[a])].there)
    BY DEF Open, IInv, GateInv
  <2>1. CASE act[a].job = "ingest" /\ j.pc = "drop"
    BY <1>4, <1>5, <2>1, PhasesDiffer DEF GateInv, Covers, CoversRun, Ingesting
  <2>2. CASE j.pc = "judge" /\ j.decided = <<>> /\ j.todo = ToJudge(act[a]) /\ j.suite = act[a].suite
    <3>1. ASSUME j.job # "run", NEW s \in Suites, NEW c \in Commits, rows[<<c, s>>].there
          PROVE  \E r \in j.todo : r[2] = s
      <4>1. <<c, s>> \in j.todo
        BY <1>4, <2>2, <3>1 DEF ToJudge, Runs
      <4> QED BY <4>1
    <3>2. Covers(j, rows)
      BY <2>2, <3>1, NothingDecided DEF Covers, ToJudge
    <3>3. Asked(j) = Asked(act[a])
      BY <1>4, <2>2 DEF Asked
    <3>4. CoversRun(j, rows)
      BY <1>4, <2>0, <2>2, <3>3 DEF CoversRun, ToJudge
    <3>5. j.job = "run" => a = CI
      BY <1>4 DEF IInv, GateInv
    <3> QED BY <1>2, <1>5, <3>2, <3>4, <3>5 DEF GateInv
  <2> QED BY <1>4, <2>1, <2>2
<1>9. \A b \in Actors \ {a} : GateInv(b)'
  BY <1>2, <1>4, OthersSee
<1>10. holder' \in Processes
  BY <1>3, ProcessType
<1> QED BY <1>2, <1>5, <1>6, <1>7, <1>8, <1>9, <1>10 DEF IInv, TypeOK

LEMMA JudgeInv ==
  ASSUME IInv, NEW a \in Actors, Judge(a)
  PROVE  IInv'
<1>1. PICK r \in act[a].todo :
        /\ Set(a, [act[a] EXCEPT !.pc = "save", !.run = r, !.got = rows[r].verdict,
                                 !.todo = @ \ {r}])
        /\ judged' = judged \ {r}
  BY DEF Judge
<1>2. UNCHANGED <<rows, holder, cut, green, settled, ingests, deliveries, crashes>>
  BY DEF Judge, outside, bounds
<1>3. act[a] \in Jobs /\ act[a].pc = "judge" /\ Covers(act[a], rows) /\ CoversRun(act[a], rows)
  BY DEF Judge, At, IInv, TypeOK, GateInv
<1>4. r \in Runs /\ rows[r].there /\ rows[r].verdict \in Verdicts
  BY <1>3 DEF Jobs, Covers, Gating, IInv, TypeOK, Rows
<1> DEFINE j == [act[a] EXCEPT !.pc = "save", !.run = r, !.got = rows[r].verdict, !.todo = @ \ {r}]
<1>5. /\ j \in Jobs /\ j.pc = "save" /\ j.run = r /\ j.got = rows[r].verdict
      /\ j.todo = act[a].todo \ {r} /\ j.decided = act[a].decided
      /\ j.job = act[a].job /\ j.commit = act[a].commit /\ j.suite = act[a].suite
  <2>1. act[a].todo \ {r} \in SUBSET Runs
    BY <1>3 DEF Jobs
  <2> QED BY <1>3, <1>4, <2>1 DEF Jobs, PCs, Gating
<1>6. Set(a, j)
  BY <1>1
<1> HIDE DEF j
<1>7. Covers(j, rows) /\ CoversRun(j, rows)
  <2>1. Covers(j, rows)
    BY <1>3, <1>4, <1>5 DEF Covers, Gating
  <2>2. Asked(j) = Asked(act[a])
    BY <1>5 DEF Asked
  <2>3. CoversRun(j, rows)
    BY <1>3, <1>5, <2>2 DEF CoversRun, Gating
  <2> QED BY <2>1, <2>3
<1>8. GateInv(a)'
  BY <1>2, <1>5, <1>6, <1>7, SetType DEF GateInv, IInv, TypeOK
<1>9. j.job = "ingest" => a = CI /\ j.commit \in Commits
  BY <1>5 DEF IInv, IngestInv
<1>11. j.job = "run" => a = CI /\ Asked(j) \in Runs
  BY <1>5, <1>7 DEF IInv, GateInv, CoversRun
<1>10. /\ FileInv' /\ IngestInv' /\ \A b \in Actors : GateInv(b)'
       /\ act' \in [Actors -> Jobs] /\ holder' \in Processes
  BY <1>2, <1>3, <1>5, <1>6, <1>8, <1>9, <1>11, GateStep DEF Gating, Ingesting
<1> QED BY <1>1, <1>2, <1>10 DEF IInv, TypeOK

LEMMA SaveInv ==
  ASSUME IInv, NEW a \in Actors, Save(a)
  PROVE  IInv'
<1> DEFINE r == act[a].run
           d == Decide(act[a].decided, r[2], act[a].got)
           j == [act[a] EXCEPT !.pc = "judge", !.run = <<>>, !.got = "none", !.decided = d]
<1>1. UNCHANGED <<rows, holder, cut, green, settled, ingests, deliveries, crashes>>
  BY DEF Save, outside, bounds
<1>2. act[a] \in Jobs /\ act[a].pc = "save" /\ Covers(act[a], rows) /\ CoversRun(act[a], rows)
  BY DEF Save, At, IInv, TypeOK, GateInv
<1>3. judged' = judged \cup {r} /\ Set(a, j)
  BY <1>2 DEF Save, Jobs
<1>4. PICK c \in Commits, s \in Suites : r = <<c, s>>
  BY <1>2 DEF Covers, Runs
<1>5. rows[<<c, s>>].there /\ act[a].got = rows[<<c, s>>].verdict /\ act[a].got \in Verdicts
  <2>1. rows[r].there /\ act[a].got = rows[r].verdict /\ r \in Runs
    BY <1>2 DEF Covers
  <2> QED BY <1>4, <2>1 DEF IInv, TypeOK, Rows
<1>6. d \in Decisions /\ DOMAIN d = DOMAIN act[a].decided \cup {s}
  <2>1. act[a].decided \in Decisions /\ r[2] = s
    BY <1>2, <1>4 DEF Jobs
  <2> QED BY <1>5, <2>1, DecideType DEF Decide
<1>7. \A t \in DOMAIN d : d[t] = IF t = s THEN act[a].got ELSE act[a].decided[t]
  BY <1>4 DEF Decide
<1> HIDE DEF d
<1>8. /\ j \in Jobs /\ j.pc = "judge" /\ j.decided = d /\ j.todo = act[a].todo
      /\ j.job = act[a].job /\ j.commit = act[a].commit /\ j.suite = act[a].suite
  BY <1>2, <1>6 DEF Jobs, PCs, Gating
<1> HIDE DEF j
<1>9. Covers(j, rows)
  <2>1. \A q \in j.todo : rows[q].there
    BY <1>2, <1>8 DEF Covers, Gating
  <2>2. ASSUME NEW t \in DOMAIN d
        PROVE  \E b \in Commits : rows[<<b, t>>].there /\ rows[<<b, t>>].verdict = d[t]
    <3>1. CASE t = s
      BY <1>5, <1>7, <3>1
    <3>2. CASE t # s
      BY <1>2, <1>6, <1>7, <3>2 DEF Covers, Gating
    <3> QED BY <3>1, <3>2
  <2>3. ASSUME j.job # "run", NEW t \in Suites, \E b \in Commits : rows[<<b, t>>].there
        PROVE  t \in DOMAIN d \/ \E q \in j.todo : q[2] = t
    <3>1. t \in DOMAIN act[a].decided \/ (\E q \in act[a].todo : q[2] = t) \/ r[2] = t
      BY <1>2, <1>8, <2>3 DEF Covers, Gating
    <3> QED BY <1>4, <1>6, <1>8, <3>1
  <2> QED BY <1>8, <2>1, <2>2, <2>3 DEF Covers
<1>14. CoversRun(j, rows)
  <2> SUFFICES ASSUME j.job = "run" PROVE CoversRun(j, rows)
    BY DEF CoversRun
  <2>1. /\ Asked(act[a]) \in Runs /\ act[a].todo = {} /\ r = Asked(act[a])
        /\ act[a].decided = <<>>
    BY <1>2, <1>8 DEF CoversRun, Gating
  <2>2. Asked(j) = Asked(act[a]) /\ s = j.suite /\ r = Asked(j)
    BY <1>4, <1>8, <2>1 DEF Asked
  <2>3. act[a].got = rows[Asked(j)].verdict /\ rows[Asked(j)].there
    BY <1>2, <2>2 DEF Covers
  <2>4. d = [t \in {j.suite} |-> rows[Asked(j)].verdict]
    BY <1>4, <2>1, <2>2, <2>3, NothingDecided DEF d, Decide
  <2> QED BY <1>8, <2>1, <2>2, <2>3, <2>4 DEF CoversRun
<1>10. GateInv(a)'
  BY <1>1, <1>3, <1>8, <1>9, <1>14, SetType DEF GateInv, IInv, TypeOK
<1>11. j.job = "ingest" => a = CI /\ j.commit \in Commits
  BY <1>8 DEF IInv, IngestInv
<1>15. j.job = "run" => a = CI /\ Asked(j) \in Runs
  BY <1>8, <1>14 DEF IInv, GateInv, CoversRun
<1>12. /\ FileInv' /\ IngestInv' /\ \A b \in Actors : GateInv(b)'
       /\ act' \in [Actors -> Jobs] /\ holder' \in Processes
  BY <1>1, <1>2, <1>3, <1>8, <1>10, <1>11, <1>15, GateStep DEF Gating, Ingesting
<1>13. judged' \subseteq Runs
  BY <1>2, <1>3 DEF IInv, TypeOK, Covers
<1> QED BY <1>1, <1>12, <1>13 DEF IInv, TypeOK

LEMMA JudgedInv ==
  ASSUME IInv, NEW a \in Actors, Judged(a)
  PROVE  IInv'
<1> DEFINE j == [act[a] EXCEPT !.pc = "post"]
<1>1. UNCHANGED <<rows, judged, holder, cut, green, settled, ingests, deliveries, crashes>>
  BY DEF Judged, outside, bounds
<1>2. /\ act[a] \in Jobs /\ act[a].pc = "judge" /\ act[a].todo = {}
      /\ Covers(act[a], rows) /\ CoversRun(act[a], rows)
  BY DEF Judged, At, IInv, TypeOK, GateInv
<1>3. /\ j \in Jobs /\ j.pc = "post" /\ j.todo = {} /\ j.decided = act[a].decided
      /\ j.job = act[a].job /\ j.commit = act[a].commit /\ j.suite = act[a].suite
  BY <1>2 DEF Jobs, PCs, Gating
<1>4. Set(a, j)
  BY DEF Judged
<1> HIDE DEF j
<1>5. Covers(j, rows) /\ CoversRun(j, rows)
  <2>1. Covers(j, rows)
    BY <1>2, <1>3 DEF Covers, Gating
  <2>2. Asked(j) = Asked(act[a])
    BY <1>3 DEF Asked
  <2>3. CoversRun(j, rows)
    BY <1>2, <1>3, <2>2 DEF CoversRun, Gating
  <2> QED BY <2>1, <2>3
<1>6. GateInv(a)'
  BY <1>1, <1>3, <1>4, <1>5, SetType DEF GateInv, IInv, TypeOK
<1>7. j.job = "ingest" => a = CI /\ j.commit \in Commits
  BY <1>3 DEF IInv, IngestInv
<1>9. j.job = "run" => a = CI /\ Asked(j) \in Runs
  BY <1>3, <1>5 DEF IInv, GateInv, CoversRun
<1>8. /\ FileInv' /\ IngestInv' /\ \A b \in Actors : GateInv(b)'
      /\ act' \in [Actors -> Jobs] /\ holder' \in Processes
  BY <1>1, <1>2, <1>3, <1>4, <1>6, <1>7, <1>9, GateStep DEF Gating, Ingesting
<1> QED BY <1>1, <1>8 DEF IInv, TypeOK

LEMMA OperatorInv ==
  ASSUME IInv, OperatorJudged \/ RolloutFails
  PROVE  IInv'
<1> DEFINE a == Operator
           j == IF OperatorJudged THEN [act[a] EXCEPT !.pc = "apply"] ELSE [Idle EXCEPT !.pc = "open"]
<1>0. a \in Actors /\ act[a] \in Jobs
  BY WhoIsWho DEF IInv, TypeOK
<1>1. CASE OperatorJudged /\ Verdict(Operator) # "ALLOW"
  <2>1. /\ Set(a, Idle) /\ holder' = Released(a) /\ act[a].pc = "judge" /\ settled' = TRUE
        /\ UNCHANGED <<rows, judged, cut, green, ingests, deliveries, crashes>>
    BY <1>1 DEF OperatorJudged, At, bounds
  <2>2. green' \in BOOLEAN /\ settled' \in BOOLEAN /\ act[a].pc \in Gating /\ act[a].pc \notin Ingesting
    BY <2>1 DEF IInv, TypeOK, Gating, Ingesting
  <2> QED BY <1>0, <2>1, <2>2, IdleInv
<1>2. CASE ~(OperatorJudged /\ Verdict(Operator) # "ALLOW")
  <2>1. UNCHANGED <<rows, judged, cut, green, settled, ingests, deliveries, crashes>>
    BY <1>2 DEF OperatorJudged, RolloutFails, outside, bounds
  <2>2. /\ j \in Jobs /\ Set(a, j) /\ j.pc \in {"open", "apply"}
        /\ j.pc = "open" => j.decided = <<>>
        /\ j.job = "ingest" => act[a].job = "ingest" /\ j.commit = act[a].commit
        /\ j.job = "run" => act[a].job = "run" /\ Asked(j) = Asked(act[a])
        /\ \/ holder' = holder /\ act[a].pc = "apply"
           \/ holder' = Released(a) /\ act[a].pc = "judge"
    <3>1. CASE OperatorJudged
      <4>1. [act[a] EXCEPT !.pc = "apply"] \in Jobs
        BY <1>0 DEF Jobs, PCs
      <4> QED BY <1>0, <1>2, <3>1, <4>1 DEF OperatorJudged, At, Jobs, Asked
    <3>2. CASE ~OperatorJudged
      <4>1. /\ [Idle EXCEPT !.pc = "open"] \in Jobs
            /\ [Idle EXCEPT !.pc = "open"].decided = <<>> /\ [Idle EXCEPT !.pc = "open"].job = "gate"
            /\ [Idle EXCEPT !.pc = "open"].pc = "open"
        BY NothingDecided DEF Idle, Jobs, PCs
      <4>2. RolloutFails
        BY <3>2
      <4> QED BY <3>2, <4>1, <4>2 DEF RolloutFails, At
    <3> QED BY <3>1, <3>2
  <2> HIDE DEF j
  <2>3. j.job = "ingest" => a = CI /\ j.commit \in Commits
    BY <1>0, <2>2 DEF IInv, IngestInv
  <2>5. j.job = "run" => a = CI /\ Asked(j) \in Runs
    BY <1>0, <2>2 DEF IInv, GateInv, CoversRun
  <2>4. /\ FileInv' /\ IngestInv' /\ \A b \in Actors : GateInv(b)'
        /\ act' \in [Actors -> Jobs] /\ holder' \in Processes
    BY <1>0, <2>1, <2>2, <2>3, <2>5, GateStep DEF Gating, Ingesting
  <2> QED BY <2>1, <2>4 DEF IInv, TypeOK
<1> QED BY <1>1, <1>2

\* A step of an ingest, whatever it writes: no gate is there to see it.
LEMMA IngestStep ==
  ASSUME IInv, NEW j \in Jobs, Set(CI, j), act[CI].pc \in Ingesting, j.pc \in Ingesting \cup {"idle"},
         j.job # "run",
         \/ holder' = holder
         \/ holder' = Released(CI) /\ j.pc = "idle"
  PROVE  /\ FileInv' /\ \A b \in Actors : GateInv(b)'
         /\ act' \in [Actors -> Jobs] /\ holder' \in Processes
         /\ act'[CI] = j /\ \A b \in Actors \ {CI} : act'[b] = act[b]
<1>1. /\ act' \in [Actors -> Jobs]
      /\ act'[CI] = j /\ \A b \in Actors \ {CI} : act'[b] = act[b]
  BY WhoIsWho, SetType DEF IInv, TypeOK
<1>2. FileInv' /\ holder' \in Processes
  BY WhoIsWho, FileStep, PhasesDiffer
<1>3. ASSUME NEW b \in Actors
      PROVE  GateInv(b)'
  <2>1. CASE b = CI
    BY <1>1, <2>1, PhasesDiffer DEF GateInv, Covers, CoversRun, Gating, Ingesting
  <2>2. CASE b # CI
    <3>1. act'[b] = act[b] /\ act[b].pc \notin Gating
      BY <1>1, <2>2, IngestIsAlone
    <3>2. /\ act[b].pc = "open" => act[b].decided = <<>>
          /\ act[b].job = "run" => b = CI /\ Asked(act[b]) \in Runs
      BY DEF IInv, GateInv, Covers, CoversRun
    <3> QED BY <3>1, <3>2 DEF GateInv, Covers, CoversRun, Gating
  <2> QED BY <2>1, <2>2
<1> QED BY <1>1, <1>2, <1>3

\* The commit and the suite that are written.
LEMMA CurrentType ==
  ASSUME IInv, act[CI].pc \in Ingesting
  PROVE  /\ act[CI] \in Jobs /\ act[CI].job = "ingest"
         /\ act[CI].commit \in Commits /\ act[CI].suite \in Suites /\ Current \in Runs
  BY WhoIsWho DEF IInv, TypeOK, IngestInv, Current, Runs

LEMMA WriteInv ==
  ASSUME IInv, NEW pc \in Ingesting, NEW next \in Ingesting, NEW new \in Rows, Write(pc, next, new)
  PROVE  IInv'
<1> DEFINE j == [act[CI] EXCEPT !.pc = next]
           c == act[CI].commit
           s == act[CI].suite
<1>1. UNCHANGED <<judged, holder, cut, green, settled, ingests, deliveries, crashes>>
  BY DEF Write, outside, bounds
<1>2. /\ act[CI] \in Jobs /\ act[CI].job = "ingest" /\ act[CI].pc \in Ingesting
      /\ c \in Commits /\ s \in Suites /\ <<c, s>> \in Runs
  BY CurrentType DEF Write, At, Current
<1>3. rows' = [rows EXCEPT ![<<c, s>>] = new] /\ Set(CI, j)
  BY DEF Write, Current
<1>4. j \in Jobs /\ j.pc = next /\ j.job = "ingest" /\ j.commit = c /\ j.suite = s
  BY <1>2, PhasesDiffer DEF Jobs
<1> HIDE DEF j
<1>5. /\ FileInv' /\ \A b \in Actors : GateInv(b)'
      /\ act' \in [Actors -> Jobs] /\ holder' \in Processes
      /\ act'[CI] = j /\ \A b \in Actors \ {CI} : act'[b] = act[b]
  BY <1>1, <1>2, <1>3, <1>4, IngestStep
<1>6. rows' \in [Runs -> Rows] /\ \A r \in Runs : r # <<c, s>> => rows'[r] = rows[r]
  BY <1>2, <1>3 DEF IInv, TypeOK
<1>7. \A b \in Actors :
        /\ act'[b].job = "ingest" => b = CI /\ act'[b].commit \in Commits
        /\ act'[b].pc \in Ingesting => act'[b].job = "ingest" /\ act'[b].suite \in Suites
  <2>1. \A b \in Actors :
          /\ act[b].job = "ingest" => b = CI /\ act[b].commit \in Commits
          /\ act[b].pc \in Ingesting => act[b].job = "ingest" /\ act[b].suite \in Suites
    BY DEF IInv, IngestInv
  <2> QED BY <1>2, <1>4, <1>5, <2>1
<1>8. ASSUME NEW t \in Suites, t < s
      PROVE  rows'[<<c, t>>].there /\ rows'[<<c, t>>].whole
  <2>1. rows[<<c, t>>].there /\ rows[<<c, t>>].whole
    BY <1>2, <1>8 DEF IInv, IngestInv, Whole
  <2>2. <<c, t>> \in Runs /\ <<c, t>> # <<c, s>>
    BY <1>2, <1>8, EvidenceConstants DEF Runs, Suites
  <2> QED BY <1>6, <2>1, <2>2
<1>9. ASSUME NEW b \in Commits, b # c, b \notin cut, NEW t \in Suites, rows'[<<b, t>>].there, NEW u \in Suites
      PROVE  rows'[<<b, u>>].there /\ rows'[<<b, u>>].whole
  <2>1. \A q \in Suites : <<b, q>> \in Runs /\ rows'[<<b, q>>] = rows[<<b, q>>]
    BY <1>6, <1>9 DEF Runs
  <2> QED BY <1>9, <2>1 DEF IInv, IngestInv, Whole
<1>10. IngestInv'
  BY <1>1, <1>4, <1>5, <1>7, <1>8, <1>9 DEF IngestInv, Whole
<1> QED BY <1>1, <1>5, <1>6, <1>10 DEF IInv, TypeOK

LEMMA FillInv ==
  ASSUME IInv, FillSamples
  PROVE  IInv'
<1> DEFINE c == act[CI].commit
           s == act[CI].suite
<1>1. PICK v \in Results : rows' = [rows EXCEPT ![<<c, s>>] = WholeRun(v)]
  BY DEF FillSamples, Current
<1>2. UNCHANGED <<judged, green, settled, ingests, deliveries, crashes>>
  BY DEF FillSamples, outside, bounds
<1>3. /\ act[CI] \in Jobs /\ act[CI].job = "ingest" /\ act[CI].pc \in Ingesting
      /\ c \in Commits /\ s \in Suites /\ <<c, s>> \in Runs
  BY CurrentType DEF FillSamples, At, Current, Ingesting
<1>4. /\ rows' \in [Runs -> Rows] /\ \A r \in Runs : r # <<c, s>> => rows'[r] = rows[r]
      /\ rows'[<<c, s>>].there /\ rows'[<<c, s>>].whole
  <2>1. WholeRun(v) \in Rows /\ WholeRun(v).there /\ WholeRun(v).whole
    BY EvidenceConstants DEF WholeRun, Rows
  <2> QED BY <1>1, <1>3, <2>1 DEF IInv, TypeOK
<1>5. ASSUME NEW t \in Suites, t <= s
      PROVE  rows'[<<c, t>>].there /\ rows'[<<c, t>>].whole
  <2>1. CASE t = s
    BY <1>4, <2>1
  <2>2. CASE t # s
    <3>1. t < s
      BY <1>3, <1>5, <2>2, EvidenceConstants DEF Suites
    <3>2. rows[<<c, t>>].there /\ rows[<<c, t>>].whole
      BY <1>3, <3>1 DEF IInv, IngestInv, Whole
    <3>3. <<c, t>> \in Runs /\ <<c, t>> # <<c, s>>
      BY <1>3, <2>2 DEF Runs
    <3> QED BY <1>4, <3>2, <3>3
  <2> QED BY <2>1, <2>2
<1>6. ASSUME NEW b \in Commits, b # c, b \notin cut, NEW t \in Suites, rows'[<<b, t>>].there, NEW u \in Suites
      PROVE  rows'[<<b, u>>].there /\ rows'[<<b, u>>].whole
  <2>1. \A q \in Suites : <<b, q>> \in Runs /\ rows'[<<b, q>>] = rows[<<b, q>>]
    BY <1>4, <1>6 DEF Runs
  <2> QED BY <1>6, <2>1 DEF IInv, IngestInv, Whole
<1>7. \A b \in Actors :
        /\ act[b].job = "ingest" => b = CI /\ act[b].commit \in Commits
        /\ act[b].pc \in Ingesting => act[b].job = "ingest" /\ act[b].suite \in Suites
  BY DEF IInv, IngestInv
<1>8. CASE s = NumSuites
  <2>1. Set(CI, Idle) /\ cut' = cut \ {c} /\ holder' = Released(CI)
    BY <1>8 DEF FillSamples
  <2>2. Idle \in Jobs /\ Idle.pc = "idle" /\ Idle.job = "gate"
    BY IdleType DEF Idle
  <2>3. /\ FileInv' /\ \A b \in Actors : GateInv(b)'
        /\ act' \in [Actors -> Jobs] /\ holder' \in Processes
        /\ act'[CI] = Idle /\ \A b \in Actors \ {CI} : act'[b] = act[b]
    BY <1>3, <2>1, <2>2, IngestStep
  <2>4. \A t \in Suites : t <= s
    BY <1>8, EvidenceConstants DEF Suites
  <2>5. Idle.pc \notin Ingesting
    BY <2>2, PhasesDiffer
  <2>6. IngestInv'
    <3>1. \A b \in Actors :
            /\ act'[b].job = "ingest" => b = CI /\ act'[b].commit \in Commits
            /\ act'[b].pc \in Ingesting => act'[b].job = "ingest" /\ act'[b].suite \in Suites
      BY <1>7, <2>2, <2>3, <2>5
    <3>2. ASSUME NEW b \in Commits, b \notin cut', NEW t \in Suites, rows'[<<b, t>>].there, NEW u \in Suites
          PROVE  rows'[<<b, u>>].there /\ rows'[<<b, u>>].whole
      <4>1. CASE b = c
        BY <1>5, <2>4, <4>1
      <4>2. CASE b # c
        BY <1>6, <2>1, <3>2, <4>2
      <4> QED BY <4>1, <4>2
    <3> QED BY <2>3, <2>5, <3>1, <3>2 DEF IngestInv, Whole
  <2>7. cut' \subseteq Commits
    BY <2>1 DEF IInv, TypeOK
  <2> QED BY <1>2, <1>4, <2>3, <2>6, <2>7 DEF IInv, TypeOK
<1>9. CASE s # NumSuites
  <2> DEFINE j == [act[CI] EXCEPT !.pc = "drop", !.suite = s + 1]
  <2>1. Set(CI, j) /\ UNCHANGED <<cut, holder>>
    BY <1>3, <1>9 DEF FillSamples, Jobs
  <2>2. s + 1 \in Suites
    BY <1>3, <1>9, EvidenceConstants DEF Suites
  <2>3. j \in Jobs /\ j.pc = "drop" /\ j.job = "ingest" /\ j.commit = c /\ j.suite = s + 1
    BY <1>3, <2>2 DEF Jobs, PCs, Ingesting
  <2> HIDE DEF j
  <2>4. /\ FileInv' /\ \A b \in Actors : GateInv(b)'
        /\ act' \in [Actors -> Jobs] /\ holder' \in Processes
        /\ act'[CI] = j /\ \A b \in Actors \ {CI} : act'[b] = act[b]
    BY <1>3, <2>1, <2>3, IngestStep DEF Ingesting
  <2>5. IngestInv'
    <3>1. \A b \in Actors :
            /\ act'[b].job = "ingest" => b = CI /\ act'[b].commit \in Commits
            /\ act'[b].pc \in Ingesting => act'[b].job = "ingest" /\ act'[b].suite \in Suites
      BY <1>3, <1>7, <2>2, <2>3, <2>4
    <3>2. \A t \in Suites : t < s + 1 => t <= s
      BY <1>3, EvidenceConstants DEF Suites
    <3>3. j.pc \in Ingesting
      BY <2>3 DEF Ingesting
    <3> QED BY <1>5, <1>6, <2>1, <2>3, <2>4, <3>1, <3>2, <3>3 DEF IngestInv, Whole
  <2> QED BY <1>2, <1>4, <2>1, <2>4, <2>5 DEF IInv, TypeOK
<1> QED BY <1>8, <1>9

LEMMA CrashInv ==
  ASSUME IInv, Crash
  PROVE  IInv'
<1> DEFINE c == act[CI].commit
<1>1. /\ act[CI].pc \in Ingesting /\ cut' = cut \cup {c} /\ holder' = Released(CI) /\ Set(CI, Idle)
      /\ crashes' \in 0..MaxCrashes
      /\ UNCHANGED <<rows, judged, green, settled, ingests, deliveries>>
  <2>1. crashes < MaxCrashes /\ crashes' = crashes + 1 /\ crashes \in 0..MaxCrashes
    BY DEF Crash, IInv, TypeOK
  <2>2. crashes' \in 0..MaxCrashes
    BY <2>1, EvidenceConstants
  <2> QED BY <2>2 DEF Crash, outside
<1>2. Idle \in Jobs /\ Idle.pc = "idle" /\ Idle.job = "gate"
  BY IdleType DEF Idle
<1>3. /\ FileInv' /\ \A b \in Actors : GateInv(b)'
      /\ act' \in [Actors -> Jobs] /\ holder' \in Processes
      /\ act'[CI] = Idle /\ \A b \in Actors \ {CI} : act'[b] = act[b]
  BY <1>1, <1>2, IngestStep
<1>4. IngestInv'
  <2>1. Idle.pc \notin Ingesting
    BY <1>2, PhasesDiffer
  <2>2. \A b \in Actors :
          /\ act'[b].job = "ingest" => b = CI /\ act'[b].commit \in Commits
          /\ act'[b].pc \in Ingesting => act'[b].job = "ingest" /\ act'[b].suite \in Suites
    <3>1. \A b \in Actors :
            /\ act[b].job = "ingest" => b = CI /\ act[b].commit \in Commits
            /\ act[b].pc \in Ingesting => act[b].job = "ingest" /\ act[b].suite \in Suites
      BY DEF IInv, IngestInv
    <3> QED BY <1>2, <1>3, <2>1, <3>1
  <2>3. ASSUME NEW b \in Commits, b \notin cut', NEW t \in Suites, rows[<<b, t>>].there, NEW u \in Suites
        PROVE  rows[<<b, u>>].there /\ rows[<<b, u>>].whole
    BY <1>1, <2>3 DEF IInv, IngestInv, Whole
  <2> QED BY <1>1, <1>3, <2>1, <2>2, <2>3 DEF IngestInv, Whole
<1>5. cut' \subseteq Commits
  BY <1>1, CurrentType DEF IInv, TypeOK
<1> QED BY <1>1, <1>3, <1>4, <1>5 DEF IInv, TypeOK

-----------------------------------------------------------------------------
(* Every step. *)

LEMMA AdvanceInv ==
  ASSUME IInv, NEW a \in Actors, Advance(a)
  PROVE  IInv'
<1>1. CASE Locked(a) \/ UnknownRun(a)
  <2>1. /\ Set(a, Idle) /\ act[a].pc = "open" /\ holder' = holder
        /\ UNCHANGED <<rows, judged, cut, green, settled, ingests, deliveries, crashes>>
    BY <1>1 DEF Locked, UnknownRun, At, outside, bounds
  <2>2. act[a].pc \notin Ingesting /\ green' \in BOOLEAN /\ settled' \in BOOLEAN
    BY <2>1 DEF Ingesting, IInv, TypeOK
  <2> QED BY <2>1, <2>2, IdleInv
<1>2. CASE Conflict(a) \/ Skip(a)
  <2>1. /\ Set(a, Idle) /\ act[a].pc \in {"save", "judge"} /\ holder' = Released(a)
        /\ UNCHANGED <<rows, judged, cut, green, settled, ingests, deliveries, crashes>>
    BY <1>2 DEF Conflict, Skip, At, outside, bounds
  <2>2. act[a].pc \in Gating /\ act[a].pc \notin Ingesting /\ green' \in BOOLEAN /\ settled' \in BOOLEAN
    BY <2>1 DEF Gating, Ingesting, IInv, TypeOK
  <2> QED BY <2>1, <2>2, IdleInv
<1>3. CASE Post(a)
  <2>1. /\ Set(a, Idle) /\ act[a].pc = "post" /\ holder' = Released(a)
        /\ UNCHANGED <<rows, judged, cut, settled, ingests, deliveries, crashes>>
    BY <1>3 DEF Post, At, bounds
  <2>2. act[a].pc \in Gating /\ act[a].pc \notin Ingesting /\ settled' \in BOOLEAN
    BY <2>1 DEF Gating, Ingesting, IInv, TypeOK
  <2>3. green' \in BOOLEAN
    BY <1>3 DEF Post, IInv, TypeOK
  <2> QED BY <2>1, <2>2, <2>3, IdleInv
<1> QED BY <1>1, <1>2, <1>3, OpenInv, JudgeInv, SaveInv, JudgedInv DEF Advance

LEMMA IngestStepsInv ==
  ASSUME IInv, IngestSteps
  PROVE  IInv'
<1>1. {"drop", "create", "clear", "insert", "fill"} \subseteq Ingesting
  BY DEF Ingesting
<1>2. CASE DropRun \/ CreateRun
  <2>1. act[CI].pc \in Ingesting
    BY <1>1, <1>2 DEF DropRun, CreateRun, Write, At
  <2>2. rows[Current] \in Rows
    BY <2>1, CurrentType DEF IInv, TypeOK
  <2>3. [rows[Current] EXCEPT !.there = FALSE] \in Rows /\ [rows[Current] EXCEPT !.there = TRUE] \in Rows
    BY <2>2 DEF Rows
  <2> QED BY <1>1, <1>2, <2>3, WriteInv DEF DropRun, CreateRun
<1>3. CASE ClearSamples
  <2>1. [NoRun EXCEPT !.there = TRUE] \in Rows
    BY DEF NoRun, Rows, Verdicts
  <2> QED BY <1>1, <1>3, <2>1, WriteInv DEF ClearSamples
<1>4. CASE InsertSamples
  <2>1. \A v \in Partial : [there |-> TRUE, verdict |-> v, whole |-> FALSE] \in Rows
    BY EvidenceConstants DEF Rows
  <2> QED BY <1>1, <1>4, <2>1, WriteInv DEF InsertSamples
<1>5. CASE FillSamples
  BY <1>5, FillInv
<1> QED BY <1>2, <1>3, <1>4, <1>5 DEF IngestSteps

LEMMA CommandsInv ==
  ASSUME IInv,
         \/ Check \/ Deliver \/ Apply
         \/ (\E c \in Commits : Ingest(c)) \/ (\E r \in Runs : CheckRun(r))
  PROVE  IInv'
<1>1. \A n, m : m \in Nat /\ n \in 0..m /\ n < m => n + 1 \in 0..m
  OBVIOUS
<1>2. /\ MaxIngests \in Nat /\ MaxDeliveries \in Nat
      /\ ingests \in 0..MaxIngests /\ deliveries \in 0..MaxDeliveries
  BY EvidenceConstants DEF IInv, TypeOK
<1>3. CASE Check
  BY <1>1, <1>2, <1>3, WhoIsWho, BeginInv DEF Check
<1>4. CASE Deliver
  <2>1. (CHOOSE t \in Threads : At(t, "idle")) \in Actors
    BY <1>4, WhoIsWho DEF Deliver
  <2> QED BY <1>1, <1>2, <1>4, <2>1, BeginInv DEF Deliver
<1>5. CASE Apply
  BY <1>1, <1>2, <1>5, WhoIsWho, BeginInv DEF Apply
<1>6. CASE \E c \in Commits : Ingest(c)
  BY <1>1, <1>2, <1>6, WhoIsWho, BeginInv DEF Ingest
<1>7. CASE \E r \in Runs : CheckRun(r)
  <2>1. PICK r \in Runs : CheckRun(r)
    BY <1>7
  <2>2. r[1] \in Commits /\ r[2] \in Suites /\ <<r[1], r[2]>> \in Runs
    BY DEF Runs
  <2> QED BY <1>1, <1>2, <2>1, <2>2, WhoIsWho, BeginInv DEF CheckRun
<1> QED BY <1>3, <1>4, <1>5, <1>6, <1>7

LEMMA NextInv == IInv /\ [Next]_vars => IInv'
<1> SUFFICES ASSUME IInv, [Next]_vars PROVE IInv'
  OBVIOUS
<1>1. CASE Rollout
  <2>1. /\ Set(Operator, Idle) /\ act[Operator].pc = "apply" /\ holder' = holder /\ settled' = TRUE
        /\ UNCHANGED <<rows, judged, cut, green, ingests, deliveries, crashes>>
    BY <1>1 DEF Rollout, At, bounds
  <2>2. act[Operator].pc \notin Ingesting /\ green' \in BOOLEAN
    BY <2>1 DEF Ingesting, IInv, TypeOK
  <2> QED BY <2>1, <2>2, WhoIsWho, IdleInv
<1>2. CASE UNCHANGED vars
  <2>1. UNCHANGED <<rows, judged, holder, act, cut, green, settled, ingests, deliveries, crashes>>
    BY <1>2 DEF vars, outside, bounds
  <2> QED BY <2>1 DEF IInv, TypeOK, FileInv, IngestInv, Whole, GateInv
<1> QED BY <1>1, <1>2, AdvanceInv, IngestStepsInv, CrashInv, CommandsInv, OperatorInv DEF Next

LEMMA Inductive == Spec => []IInv
  BY InitInv, NextInv, PTL DEF Spec

-----------------------------------------------------------------------------
(* The theorems. *)

\* Every reachable state has the types of the declarations.
THEOREM EvidenceTypes == Spec => []TypeOK
  BY Inductive, PTL DEF IInv

\* A gate with the store open finds every commit's runs complete, unless an ingest of
\* the commit was killed: the file has one process, and the one that ingests does not gate.
THEOREM NoHalfIngestIsJudged == Spec => []GateSeesWholeRuns
<1>1. IInv => GateSeesWholeRuns
  <2> SUFFICES ASSUME IInv, NEW a \in Actors, NEW c \in Commits, act[a].pc \in Gating,
                      \E s \in Suites : rows[<<c, s>>].there, c \notin cut
               PROVE  \A s \in Suites : Whole(c, s)
    BY DEF GateSeesWholeRuns
  <2>1. act[CI].pc \notin Ingesting
    BY IngestIsAlone
  <2> QED BY <2>1 DEF IInv, IngestInv
<1> QED BY <1>1, Inductive, PTL

LEMMA PostIsCurrent == IInv => VerdictIsCurrent
<1> SUFFICES ASSUME IInv, NEW a \in Actors, act[a].pc = "post"
             PROVE  IF act[a].job = "run"
                    THEN /\ rows[Asked(act[a])].there
                         /\ act[a].decided = [s \in {act[a].suite} |-> rows[Asked(act[a])].verdict]
                    ELSE /\ DOMAIN act[a].decided = {s \in Suites : HasRun(s)}
                         /\ \A s \in DOMAIN act[a].decided :
                              \E c \in Commits : /\ rows[<<c, s>>].there
                                                 /\ rows[<<c, s>>].verdict = act[a].decided[s]
  BY DEF VerdictIsCurrent, At
<1>1. Covers(act[a], rows) /\ CoversRun(act[a], rows) /\ act[a] \in Jobs
  BY DEF IInv, GateInv, TypeOK
<1>2. CASE act[a].job = "run"
  BY <1>1, <1>2 DEF CoversRun, Gating
<1>3. CASE act[a].job # "run"
  <2>1. \A s \in DOMAIN act[a].decided :
          \E c \in Commits : rows[<<c, s>>].there /\ rows[<<c, s>>].verdict = act[a].decided[s]
    BY <1>1 DEF Covers, Gating
  <2>2. \A s \in Suites : HasRun(s) => s \in DOMAIN act[a].decided
    BY <1>1, <1>3 DEF Covers, Gating, HasRun
  <2>3. DOMAIN act[a].decided \subseteq Suites
    BY <1>1, DecidedSuites DEF Jobs
  <2> QED BY <1>3, <2>1, <2>2, <2>3 DEF HasRun
<1> QED BY <1>2, <1>3

\* A verdict about to be posted decides every suite that has a run, by a run as it still is;
\* or, for a command that was asked for one run, that run as it still is.
THEOREM PostedIsCurrent == Spec => []VerdictIsCurrent
  BY PostIsCurrent, Inductive, PTL

\* No step turns the pull request green while all runs of some suite block, but the post of a
\* single run that was asked for and does not block: only a post turns it, of a verdict that
\* is current, and one blocked suite makes the verdict of all suites BLOCK.
THEOREM GreenIsNotBlocked == Spec => BlockedIsNotGreen
<1>1. ASSUME IInv, Next, ~green, green'
      PROVE  NoSuiteBlocked \/ PostsOneRun
  <2>1. PICK a \in Actors : Post(a)
    BY <1>1 DEF Next, Advance, Open, UnknownRun, Locked, Judge, Save, Conflict, Judged, Skip, IngestSteps,
                DropRun, CreateRun, ClearSamples, InsertSamples, Write, FillSamples, Crash, Check, CheckRun,
                Deliver, Apply, Begin, OperatorJudged, Rollout, RolloutFails, Ingest, outside
  <2>2. act[a].pc = "post" /\ State(a) = "success"
    BY <1>1, <2>1 DEF Post, At
  <2>3. \A s \in DOMAIN act[a].decided : act[a].decided[s] # "BLOCK"
    BY <2>2 DEF State, ExitCode, Verdict, Aggregate
  <2>4. VerdictIsCurrent
    BY <1>1, PostIsCurrent
  <2>5. CASE act[a].job # "run"
    <3>1. /\ DOMAIN act[a].decided = {s \in Suites : HasRun(s)}
          /\ \A s \in DOMAIN act[a].decided :
               \E c \in Commits : rows[<<c, s>>].there /\ rows[<<c, s>>].verdict = act[a].decided[s]
      BY <2>2, <2>4, <2>5 DEF VerdictIsCurrent, At
    <3>2. NoSuiteBlocked
      BY <2>3, <3>1 DEF NoSuiteBlocked
    <3> QED BY <3>2
  <2>6. CASE act[a].job = "run"
    <3>1. act[a].decided = [s \in {act[a].suite} |-> rows[Asked(act[a])].verdict]
      BY <2>2, <2>4, <2>6 DEF VerdictIsCurrent, At
    <3>2. rows[Asked(act[a])].verdict # "BLOCK"
      BY <2>3, <3>1
    <3>3. a = CI
      BY <1>1, <2>6 DEF IInv, GateInv
    <3>4. act'[CI].pc = "idle"
      BY <1>1, <2>1, <3>3, IdleType, SetType DEF Post, IInv, TypeOK
    <3> QED BY <2>2, <2>6, <3>2, <3>3, <3>4 DEF PostsOneRun, At
  <2> QED BY <2>5, <2>6
<1>2. IInv /\ [Next]_vars => [~green /\ green' => NoSuiteBlocked \/ PostsOneRun]_vars
  BY <1>1
<1>3. [][~green /\ green' => NoSuiteBlocked \/ PostsOneRun]_vars => BlockedIsNotGreen
  BY DEF BlockedIsNotGreen
<1> QED BY <1>2, <1>3, Inductive, PTL DEF Spec
=============================================================================
