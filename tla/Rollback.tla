------------------------------- MODULE Rollback -------------------------------
(***************************************************************************)
(* The rollback orchestrator, agentctl.rollback.rollback: Phases 0 to 4,   *)
(* run by operator processes that may crash between any two commits and be *)
(* resumed, while deploys, canaries, pushes and seals go on around them.   *)
(* Routing changes are the indivisible steps of AtomicRouting, which       *)
(* RoutingTxn implements; every other action here is one commit, or one    *)
(* call on a state store.  One project.                                    *)
(*                                                                         *)
(* The coordinate of a deployment's vector and memory pointer is the       *)
(* deployment itself, and a store's digest is the coordinate it is at.  A  *)
(* restore is one call on its store (the JSON stubs, for one process, do   *)
(* not make it so); under pgvector it commits with its audit record, which *)
(* is Restore followed at once by AuditRestore.                            *)
(***************************************************************************)
EXTENDS RoutingTables, Sequences

CONSTANTS Orchs,         \* operator processes (CLI or dashboard)
          Irreversible,  \* deployments whose manifest holds a side_effect pointer
          Pointers,      \* deployment -> its manifest's other pointers, in order
          Migration,     \* deployment -> migration_version of its schema pointer
          SeedSealed,    \* deployments sealed when the project was set up
          CanaryPct,     \* the canary weight asked for
          MaxVersions,   \* bound on routing changes by others
          MaxRollbacks,  \* bound on rollbacks
          MaxCrashes     \* bound on crashes

Classes == {"vector_store", "relational_schema", "memory_graph"}

ASSUME ConstantsAssumption ==
  /\ Irreversible \subseteq Deps
  /\ SeedSealed \subseteq Deps
  /\ Pointers \in [Deps -> Seq(Classes)]
  /\ Migration \in [Deps -> Nat]
  \* a checkpoint seals the two reversible stores together (seed), or neither (a push)
  /\ \A d \in Deps :
       "vector_store" \in Range(Pointers[d]) <=> "memory_graph" \in Range(Pointers[d])
  /\ MaxVersions \in Nat /\ MaxRollbacks \in Nat /\ MaxCrashes \in Nat

VARIABLES version, table, status,  \* routing: AtomicRouting's variables
          sealed,    \* deployments with a sealed checkpoint
          vector,    \* deployment whose namespace the vector alias serves
          memory,    \* deployment whose head the memory graph is at
          schema,    \* live migration version of the schema store
          rollbacks, \* the rollbacks rows; the index is the id
          audit,     \* audit_log, as <<rollback id, action, deployment>>
          pc,        \* what each operator process does next
          job,       \* the rollback it works on
          next,      \* its position in the target's pointers
          todo,      \* from_deps it has still to inspect
          unroll,    \* its unrollbackable list, as <<class, deployment>>
          crashes    \* crashes so far

Routing == INSTANCE AtomicRouting

routing == <<version, table, status>>
stores == <<vector, memory, schema>>
local == <<job, next, todo, unroll>>
vars == <<routing, sealed, stores, rollbacks, audit, pc, local, crashes>>

Resumable == {"routing_flipped", "state_realigning"}   \* _RESUMABLE
Final == {"completed", "compensating"}
RollbackStatus == {"initiated"} \cup Resumable \cup Final

PCs == {"idle", "flip", "mark", "audit_flip", "realign", "restore", "audit_restore",
        "inspect", "audit_outcome"}
Actions == {"routing_flip", "vector_store", "memory_graph", "relational_schema",
            "flag_forward_fix", "side_effect", "rollback_resume", "rollback_outcome"}
Items == (Classes \cup {"side_effect"}) \X Deps

Row == [to : Deps, from : SUBSET Deps, status : RollbackStatus, unroll : SUBSET Items,
        owed : SUBSET Deps,       \* (not in the code) damage of the arms active in Phase 0
        demoted : SUBSET Deps,    \* (not in the code) damage of the arms its flip demoted
        version : Nat,            \* routing version its flip installed, 0 before
        shared : BOOLEAN]         \* (not in the code) resumed while a process worked on it

Ids == 1..Len(rollbacks)

TypeOK ==
  /\ Routing!TypeOK
  /\ sealed \in SUBSET Deps
  /\ vector \in Deps /\ memory \in Deps /\ schema \in Nat
  /\ rollbacks \in Seq(Row)
  /\ audit \subseteq Ids \X Actions \X Deps
  /\ pc \in [Orchs -> PCs]
  /\ job \in [Orchs -> Nat]
  /\ \A o \in Orchs : pc[o] # "idle" => job[o] \in Ids
  /\ next \in [Orchs -> Nat \ {0}]
  /\ \A o \in Orchs : pc[o] \in {"restore", "audit_restore"} =>
                        next[o] \in 1..Len(Pointers[rollbacks[job[o]].to])
  /\ todo \in [Orchs -> SUBSET Deps]
  /\ unroll \in [Orchs -> SUBSET Items]
  /\ crashes \in Nat

\* The project as seed leaves it: one deployment live, the stores at its coordinates.
Init ==
  /\ version = 1
  /\ sealed = SeedSealed
  /\ \E d \in SeedSealed :
       /\ table = FullTo(d)
       /\ status = [e \in Deps |-> IF e = d THEN "active" ELSE "ready"]
       /\ vector = d /\ memory = d /\ schema = Migration[d]
  /\ rollbacks = <<>>
  /\ audit = {}
  /\ pc = [o \in Orchs |-> "idle"]
  /\ job = [o \in Orchs |-> 0]
  /\ next = [o \in Orchs |-> 1]
  /\ todo = [o \in Orchs |-> {}]
  /\ unroll = [o \in Orchs |-> {}]
  /\ crashes = 0

-----------------------------------------------------------------------------
Target(o) == rollbacks[job[o]].to
Manifest(o) == Pointers[Target(o)]
Go(o, label) == pc' = [pc EXCEPT ![o] = label]
SetStatus(o, s) == rollbacks' = [rollbacks EXCEPT ![job[o]].status = s]
Damaging(S) == S \cap sealed \cap Irreversible
Record(o, action, d) == audit' = audit \cup {<<job[o], action, d>>}

\* Phase 0: read the active deployments, check the target's checkpoint and insert the
\* rollbacks row.  A target without a sealed checkpoint is refused and nothing changes.
Initiate(o, d) ==
  LET actives == {e \in Deps : status[e] = "active"}
  IN  /\ pc[o] = "idle"
      /\ Len(rollbacks) < MaxRollbacks
      /\ d \in sealed
      /\ rollbacks' = Append(rollbacks,
           [to |-> d, from |-> actives \ {d}, status |-> "initiated", unroll |-> {},
            owed |-> Damaging(actives \ {d}), demoted |-> {}, version |-> 0,
            shared |-> FALSE])
      /\ job' = [job EXCEPT ![o] = Len(rollbacks) + 1]
      /\ Go(o, "flip")
      /\ UNCHANGED <<routing, sealed, stores, audit, next, todo, unroll, crashes>>

\* Phase 1: flip_routing commits by itself.
Flip(o) ==
  /\ pc[o] = "flip"
  /\ Routing!Flip(Target(o))
  /\ rollbacks' = [rollbacks EXCEPT
       ![job[o]].demoted = Damaging({e \in Deps \ {Target(o)} : status[e] = "active"}),
       ![job[o]].version = version + 1]
  /\ Go(o, "mark")
  /\ UNCHANGED <<sealed, stores, audit, local, crashes>>

\* The status is moved by a transaction of its own.
MarkFlipped(o) ==
  /\ pc[o] = "mark"
  /\ SetStatus(o, "routing_flipped")
  /\ Go(o, "audit_flip")
  /\ UNCHANGED <<routing, sealed, stores, audit, local, crashes>>

AuditFlip(o) ==
  /\ pc[o] = "audit_flip"
  /\ Record(o, "routing_flip", Target(o))
  /\ Go(o, "realign")
  /\ UNCHANGED <<routing, sealed, stores, rollbacks, local, crashes>>

\* Mutant of AtPointer: one past the last pointer.
PastLastPointer(o, n) ==
  IF n <= Len(Manifest(o)) + 1
  THEN Go(o, "restore") /\ next' = [next EXCEPT ![o] = n]
  ELSE Go(o, "inspect") /\ next' = [next EXCEPT ![o] = 1]

\* The pointers come in order, then the arms that were rolled past.  Phase 3 walks the
\* pointers again, from the first.
AtPointer(o, n) ==
  IF n <= Len(Manifest(o))
  THEN Go(o, "restore") /\ next' = [next EXCEPT ![o] = n]
  ELSE Go(o, "inspect") /\ next' = [next EXCEPT ![o] = 1]

\* Mutant of Realign: one of the arms stands for all of them.
RealignOneArm(o) ==
  /\ pc[o] = "realign"
  /\ SetStatus(o, "state_realigning")
  /\ todo' = [todo EXCEPT ![o] = {d \in rollbacks[job[o]].from :
                                    d = CHOOSE e \in rollbacks[job[o]].from : TRUE}]
  /\ unroll' = [unroll EXCEPT ![o] = {}]
  /\ AtPointer(o, 1)
  /\ UNCHANGED <<routing, sealed, stores, audit, job, crashes>>

\* Phase 2 begins with an empty unrollbackable list and all of from_deps to inspect.
Realign(o) ==
  /\ pc[o] = "realign"
  /\ SetStatus(o, "state_realigning")
  /\ todo' = [todo EXCEPT ![o] = rollbacks[job[o]].from]
  /\ unroll' = [unroll EXCEPT ![o] = {}]
  /\ AtPointer(o, 1)
  /\ UNCHANGED <<routing, sealed, stores, audit, job, crashes>>

\* SchemaStoreStub.restore refuses a down-migration.
Refused(o) == Manifest(o)[next[o]] = "relational_schema" /\ Migration[Target(o)] < schema

\* store.restore of the next pointer of the target's manifest.
Restore(o) ==
  /\ pc[o] = "restore"
  /\ LET class == Manifest(o)[next[o]]
     IN  /\ vector' = IF class = "vector_store" THEN Target(o) ELSE vector
         /\ memory' = IF class = "memory_graph" THEN Target(o) ELSE memory
         /\ schema' = IF class = "relational_schema" /\ ~ Refused(o)
                      THEN Migration[Target(o)] ELSE schema
         /\ unroll' = IF Refused(o)
                      THEN [unroll EXCEPT ![o] = @ \cup {<<class, Target(o)>>}] ELSE unroll
  /\ Go(o, "audit_restore")
  /\ UNCHANGED <<routing, sealed, rollbacks, audit, job, next, todo, crashes>>

AuditRestore(o) ==
  LET class == Manifest(o)[next[o]]
  IN  /\ pc[o] = "audit_restore"
      /\ Record(o, IF <<class, Target(o)>> \in unroll[o] THEN "flag_forward_fix" ELSE class,
                Target(o))
      /\ AtPointer(o, next[o] + 1)
      /\ UNCHANGED <<routing, sealed, stores, rollbacks, job, todo, unroll, crashes>>

\* Mutant of Inspect: a resumed run takes the audit records for written.
InspectAuditsOnce(o, d) ==
  /\ pc[o] = "inspect"
  /\ d \in todo[o]
  /\ todo' = [todo EXCEPT ![o] = @ \ {d}]
  /\ IF d \in sealed \cap Irreversible
     THEN /\ unroll' = [unroll EXCEPT ![o] = @ \cup {<<"side_effect", d>>}]
          /\ IF <<job[o], "rollback_resume", Target(o)>> \in audit
             THEN UNCHANGED audit
             ELSE Record(o, "side_effect", d)
     ELSE UNCHANGED <<audit, unroll>>
  /\ UNCHANGED <<routing, sealed, stores, rollbacks, pc, job, next, crashes>>

\* Every from_dep with a sealed manifest: an irreversible pointer is recorded as
\* compensated or flagged; an unsealed deployment is passed over.
Inspect(o, d) ==
  /\ pc[o] = "inspect"
  /\ d \in todo[o]
  /\ todo' = [todo EXCEPT ![o] = @ \ {d}]
  /\ IF d \in sealed \cap Irreversible
     THEN /\ Record(o, "side_effect", d)
          /\ unroll' = [unroll EXCEPT ![o] = @ \cup {<<"side_effect", d>>}]
     ELSE UNCHANGED <<audit, unroll>>
  /\ UNCHANGED <<routing, sealed, stores, rollbacks, pc, job, next, crashes>>

\* Mutant of At: only the memory graph is verified.
AtUnchecked(o) == [vector_store |-> TRUE, memory_graph |-> memory = Target(o),
                   relational_schema |-> TRUE]

\* Phase 3: every pointer's store in turn, when a vector or memory store is not at the
\* target's digest.  The schema pointer is forward_fix, so it is not looked at.
At(o) == [vector_store |-> vector = Target(o), memory_graph |-> memory = Target(o),
          relational_schema |-> TRUE]

Verify(o) ==
  LET class == Manifest(o)[next[o]]
  IN  /\ pc[o] = "inspect"
      /\ todo[o] = {}
      /\ next[o] <= Len(Manifest(o))
      /\ unroll' = IF At(o)[class] THEN unroll
                   ELSE [unroll EXCEPT ![o] = @ \cup {<<class, Target(o)>>}]
      /\ next' = [next EXCEPT ![o] = @ + 1]
      /\ UNCHANGED <<routing, sealed, stores, rollbacks, audit, pc, job, todo, crashes>>

\* Phase 4: completed only when nothing is unrollbackable.
Outcome(o) ==
  /\ pc[o] = "inspect"
  /\ todo[o] = {}
  /\ next[o] > Len(Manifest(o))
  /\ rollbacks' = [rollbacks EXCEPT
       ![job[o]].status = IF unroll[o] = {} THEN "completed" ELSE "compensating",
       ![job[o]].unroll = unroll[o]]
  /\ Go(o, "audit_outcome")
  /\ UNCHANGED <<routing, sealed, stores, audit, local, crashes>>

\* The process forgets its call.
Rest(o) ==
  /\ Go(o, "idle")
  /\ job' = [job EXCEPT ![o] = 0]
  /\ next' = [next EXCEPT ![o] = 1]
  /\ todo' = [todo EXCEPT ![o] = {}]
  /\ unroll' = [unroll EXCEPT ![o] = {}]

AuditOutcome(o) ==
  /\ pc[o] = "audit_outcome"
  /\ Record(o, "rollback_outcome", Target(o))
  /\ Rest(o)
  /\ UNCHANGED <<routing, sealed, stores, rollbacks, crashes>>

\* The process dies, or a database or store error ends the call: what was committed stays.
Crash(o) ==
  /\ pc[o] # "idle"
  /\ crashes < MaxCrashes
  /\ crashes' = crashes + 1
  /\ Rest(o)
  /\ UNCHANGED <<routing, sealed, stores, rollbacks, audit>>

\* Another process is still working on rollback i: resume_rollback cannot see it.
OpenElsewhere(o, i) == \E q \in Orchs \ {o} : pc[q] # "idle" /\ job[q] = i

\* Mutant of Resume: a rollback that crashed while it realigned is not found.
ResumeFlippedOnly(o, i) ==
  /\ pc[o] = "idle"
  /\ rollbacks[i].status = "routing_flipped"
  /\ job' = [job EXCEPT ![o] = i]
  /\ audit' = audit \cup {<<i, "rollback_resume", rollbacks[i].to>>}
  /\ rollbacks' = [rollbacks EXCEPT ![i].shared = @ \/ OpenElsewhere(o, i)]
  /\ Go(o, "realign")
  /\ UNCHANGED <<routing, sealed, stores, next, todo, unroll, crashes>>

\* resume_rollback: the id asked for, or the most recent resumable rollback.  Routing is
\* left alone; Phases 2 to 4 start again from the row.
Resume(o, i) ==
  /\ pc[o] = "idle"
  /\ rollbacks[i].status \in Resumable
  /\ job' = [job EXCEPT ![o] = i]
  /\ audit' = audit \cup {<<i, "rollback_resume", rollbacks[i].to>>}
  /\ rollbacks' = [rollbacks EXCEPT ![i].shared = @ \/ OpenElsewhere(o, i)]
  /\ Go(o, "realign")
  /\ UNCHANGED <<routing, sealed, stores, next, todo, unroll, crashes>>

-----------------------------------------------------------------------------
(* The rest of the control plane. *)

\* set_canary below 100%.
Canary(d) ==
  /\ version < MaxVersions
  /\ Primaries(table, d) # {}
  /\ table' \in CanaryRules(table, d, Bps(CanaryPct))
  /\ Routing!InstallCanary(d)
  /\ UNCHANGED <<sealed, stores, rollbacks, audit, pc, local, crashes>>

\* The push pipeline makes a preview, or an allowed deployment, the live route.
Deploy(d) ==
  /\ version < MaxVersions
  /\ Routing!Flip(d)
  /\ UNCHANGED <<sealed, stores, rollbacks, audit, pc, local, crashes>>

Push(d) ==
  /\ Routing!Push(d)
  /\ UNCHANGED <<sealed, stores, rollbacks, audit, pc, local, crashes>>

\* seal_checkpoint, once per deployment.
Seal(d) ==
  /\ d \notin sealed
  /\ sealed' = sealed \cup {d}
  /\ UNCHANGED <<routing, stores, rollbacks, audit, pc, local, crashes>>

\* What an open call does next, in order.
Step(o) ==
  \/ Flip(o)         \/ MarkFlipped(o)  \/ AuditFlip(o) \/ Realign(o)
  \/ Restore(o)      \/ AuditRestore(o) \/ (\E d \in Deps : Inspect(o, d))
  \/ Verify(o)       \/ Outcome(o)      \/ AuditOutcome(o)

SomeResume(o) == \E i \in Ids : Resume(o, i)

Next ==
  \/ \E o \in Orchs :
       \/ \E d \in Deps : Initiate(o, d)
       \/ Step(o)
       \/ Crash(o)
       \/ SomeResume(o)
  \/ \E d \in Deps : Canary(d) \/ Deploy(d) \/ Push(d) \/ Seal(d)

Spec == Init /\ [][Next]_vars

\* An open call goes on until it ends or crashes, and an operator does not leave a
\* resumable rollback alone for ever.
Fairness == \A o \in Orchs : WF_vars(Step(o)) /\ WF_vars(SomeResume(o))

FairSpec == Spec /\ Fairness

-----------------------------------------------------------------------------
\* An honest outcome: a rollback reported completed rolled past no sealed irreversible
\* effect of any arm that was active when it began, through crashes and resumes.
CompletedHidesNothing ==
  \A i \in Ids : rollbacks[i].status = "completed" => rollbacks[i].owed = {}

\* Everything a final row lists as not rolled back, except the drift found by Phase 3,
\* has its own audit record, whichever run of Phases 2 to 4 wrote the row.
UnrollbackableAudited ==
  \A i \in Ids : \A item \in rollbacks[i].unroll :
    /\ item[1] = "side_effect" => <<i, "side_effect", item[2]>> \in audit
    /\ item[1] = "relational_schema" => <<i, "flag_forward_fix", item[2]>> \in audit

\* A rollback that is mid-flight is driven to an outcome, across crashes.
ResumableFinishes ==
  \A i \in 1..MaxRollbacks :
    (i \in Ids /\ rollbacks[i].status \in Resumable)
      ~> (i \in Ids /\ rollbacks[i].status \in Final)

\* When no rollback is left to resume and the two reversible stores are at different
\* deployments, as interleaved realignments can leave them, some rollback owned up to
\* the drift: Phase 3 of the last writer sees what the other one wrote, through crashes
\* and resumes.  Not promised when a rollback was resumed while it was still running:
\* the later of its two outcomes overwrites the other.
Reversible == {"vector_store", "memory_graph"}
Admits(list) == \E item \in list : item[1] \in Reversible

SplitStateIsOwned ==
  /\ \A o \in Orchs : pc[o] = "idle"
  /\ \A i \in Ids : rollbacks[i].status \notin Resumable /\ ~ rollbacks[i].shared
  /\ vector # memory
  => \E i \in Ids : Admits(rollbacks[i].unroll)

-----------------------------------------------------------------------------
(* The inductive invariant behind the theorems of RollbackProofs. *)

\* Phases 2 to 4, once the list of arms to inspect has been taken from the row.
Working == {"restore", "audit_restore", "inspect"}

\* Phase 0 wrote every damaging arm it read into the row, and a seal is for ever.
OwedInRow ==
  \A i \in Ids : rollbacks[i].owed \subseteq rollbacks[i].from \cap sealed \cap Irreversible

\* A run of Phases 2 to 4 has still to inspect each of them, or has it on its list.
OwedIsCarried ==
  \A o \in Orchs :
    pc[o] \in Working => \A d \in rollbacks[job[o]].owed :
                            d \in todo[o] \/ <<"side_effect", d>> \in unroll[o]

\* What the code commits before an item may reach the row, or is about to commit.
ListIsAudited ==
  \A o \in Orchs : pc[o] \in Working => \A item \in unroll[o] :
    /\ item[1] = "side_effect" => <<job[o], "side_effect", item[2]>> \in audit
    /\ item[1] = "relational_schema" =>
         \/ <<job[o], "flag_forward_fix", item[2]>> \in audit
         \/ /\ pc[o] = "audit_restore"
            /\ item = <<Manifest(o)[next[o]], Target(o)>>

IInv == /\ TypeOK /\ OwedInRow /\ OwedIsCarried /\ ListIsAudited
        /\ CompletedHidesNothing /\ UnrollbackableAudited

\* The statuses the row of a call may have, while no other process has it.
StatusAt == [idle |-> RollbackStatus, flip |-> {"initiated"}, mark |-> {"initiated"},
             audit_flip |-> {"routing_flipped"}, realign |-> Resumable,
             restore |-> {"state_realigning"}, audit_restore |-> {"state_realigning"},
             inspect |-> {"state_realigning"}, audit_outcome |-> Final]

\* A row that was not resumed while it was open has one process, and its status says how
\* far that process is.
RowsAreOwned ==
  \A o \in Orchs : pc[o] # "idle" /\ ~ rollbacks[job[o]].shared =>
    /\ rollbacks[job[o]].status \in StatusAt[pc[o]]
    /\ \A q \in Orchs \ {o} : pc[q] # "idle" => job[q] # job[o]

\* Phase 3 of o's call has found a store off the target, or one of the pointers it has
\* still to look at will show it.
WillSeeDrift(o) ==
  \/ Admits(unroll[o])
  \/ \E k \in next[o]..Len(Manifest(o)) : ~ At(o)[Manifest(o)[k]]

\* Rollback i lists the drift, or it is mid-flight and cannot end without listing it.
Answers(i) ==
  \/ rollbacks[i].status \in Final /\ Admits(rollbacks[i].unroll)
  \/ /\ rollbacks[i].status = "state_realigning"
     /\ Reversible \subseteq Range(Pointers[rollbacks[i].to])
     /\ \A o \in Orchs : pc[o] = "inspect" /\ job[o] = i => WillSeeDrift(o)

SplitIsAnswered ==
  \/ vector = memory
  \/ \E i \in Ids : rollbacks[i].shared
  \/ \E i \in Ids : Answers(i)

SplitInv == IInv /\ RowsAreOwned /\ SplitIsAnswered

-----------------------------------------------------------------------------
(* What the code's comments and docstrings claim; the violation runs refute them. *)

\* "the flip (Phase 1) has committed, but the realignment did not finish": a rollback
\* whose flip has committed and that no process works on is in a resumable status.
FlippedIsResumable ==
  \A i \in Ids :
    /\ rollbacks[i].version > 0
    /\ \A o \in Orchs : pc[o] # "idle" => job[o] # i
    => rollbacks[i].status \in Resumable \cup Final

\* "we must inspect EVERY demoted arm": none that the flip itself demoted is hidden by a
\* completed outcome.
DemotedArmsInspected ==
  \A i \in Ids : rollbacks[i].status = "completed" => rollbacks[i].demoted = {}
=============================================================================
