---------------------------- MODULE RollbackProofs ----------------------------
(***************************************************************************)
(* The rollback orchestrator for any number of operator processes,         *)
(* deployments, rollbacks and crashes: type correctness, that neither an   *)
(* outcome nor its audit trail hides an irreversible effect, and that a    *)
(* split of the two reversible stores is owned up to.                      *)
(***************************************************************************)
EXTENDS Rollback, SequenceTheorems, TLAPS

LEMMA FullToType == \A d \in Deps : FullTo(d) \in Table
  BY DEF FullTo, Table, Full

\* The instance of AtomicRouting speaks of the same tables and statuses.
LEMMA SameData == /\ Routing!Table = Table
                  /\ Routing!Status = Status
                  /\ \A d \in Deps : Routing!FullTo(d) = FullTo(d)
  BY DEF Routing!Table, Table, Routing!Full, Full, Routing!Status, Status, Routing!FullTo, FullTo

\* The manifest of a deployment lists classes only.
LEMMA ManifestType ==
  \A d \in Deps : /\ Pointers[d] \in Seq(Classes)
                  /\ Len(Pointers[d]) \in Nat
                  /\ \A n \in 1..Len(Pointers[d]) : Pointers[d][n] \in Classes
  BY ConstantsAssumption, LenProperties, ElementOfSeq

\* Writing one row leaves the others alone.
LEMMA WriteRow ==
  ASSUME NEW rows \in Seq(Row), NEW j \in 1..Len(rows), NEW r \in Row,
         NEW new, new = [rows EXCEPT ![j] = r]
  PROVE  /\ new \in Seq(Row)
         /\ Len(new) = Len(rows)
         /\ \A i \in 1..Len(rows) : new[i] = IF i = j THEN r ELSE rows[i]
<1>1. new \in Seq(Row) /\ Len(new) = Len(rows)
  BY ExceptSeq
<1>2. DOMAIN rows = 1..Len(rows)
  BY LenProperties
<1> QED BY <1>1, <1>2

\* The row an open call works on.
LEMMA OpenCall == ASSUME TypeOK, NEW o \in Orchs, pc[o] # "idle"
                  PROVE  job[o] \in Ids /\ rollbacks[job[o]] \in Row /\ Target(o) \in Deps
<1>1. job[o] \in Ids
  BY DEF TypeOK
<1>2. rollbacks[job[o]] \in Row
  BY <1>1, ElementOfSeq DEF TypeOK, Ids
<1> QED BY <1>1, <1>2 DEF Target, Row

LEMMA InitInv == Init => IInv
<1> SUFFICES ASSUME Init PROVE IInv
  OBVIOUS
<1> USE EmptySeq
<1>1. PICK d \in SeedSealed : /\ table = FullTo(d)
                              /\ status = [e \in Deps |-> IF e = d THEN "active" ELSE "ready"]
                              /\ vector = d /\ memory = d /\ schema = Migration[d]
  BY DEF Init
<1>2. d \in Deps /\ schema \in Nat
  BY <1>1, ConstantsAssumption
<1>3. Routing!TypeOK
  BY <1>1, <1>2, FullToType, SameData DEF Init, Routing!TypeOK, Status
<1>4. rollbacks = <<>> /\ Ids = {} /\ audit = {}
  BY DEF Init, Ids
<1>5. TypeOK
  BY <1>1, <1>2, <1>3, <1>4, ConstantsAssumption DEF Init, TypeOK, PCs
<1>6. OwedInRow /\ CompletedHidesNothing /\ UnrollbackableAudited
  BY <1>4 DEF OwedInRow, CompletedHidesNothing, UnrollbackableAudited
<1>7. OwedIsCarried /\ ListIsAudited
  BY DEF Init, OwedIsCarried, ListIsAudited, Working
<1> QED BY <1>5, <1>6, <1>7 DEF IInv

-----------------------------------------------------------------------------
(* One lemma per kind of step. *)

\* The rest of the control plane: routing stays well typed and seals are only added.
LEMMA EnvironmentInv ==
  ASSUME IInv, Routing!TypeOK', sealed \subseteq sealed', sealed' \subseteq Deps,
         UNCHANGED <<stores, rollbacks, audit, pc, local, crashes>>
  PROVE  IInv'
<1> USE DEF IInv, stores, local, Ids
<1>1. TypeOK'
  BY DEF TypeOK
<1>2. OwedInRow' /\ CompletedHidesNothing' /\ UnrollbackableAudited'
  BY DEF OwedInRow, CompletedHidesNothing, UnrollbackableAudited
<1>3. OwedIsCarried' /\ ListIsAudited'
  BY DEF OwedIsCarried, ListIsAudited, Manifest, Target
<1> QED BY <1>1, <1>2, <1>3

LEMMA RoutingFlipType == ASSUME TypeOK, NEW d \in Deps, Routing!Flip(d) PROVE Routing!TypeOK'
  BY FullToType, SameData DEF TypeOK, Routing!TypeOK, Routing!Flip, Routing!Flipped, Status

LEMMA OthersInv ==
  ASSUME IInv, NEW d \in Deps, Canary(d) \/ Deploy(d) \/ Push(d) \/ Seal(d) PROVE IInv'
<1> USE DEF IInv
<1>1. CASE Canary(d)
  <2>1. Routing!TypeOK'
    BY <1>1, SameData DEF Canary, TypeOK, Routing!TypeOK, Routing!InstallCanary, Status
  <2> QED BY <1>1, <2>1, EnvironmentInv DEF Canary, TypeOK
<1>2. CASE Deploy(d)
  BY <1>2, RoutingFlipType, EnvironmentInv DEF Deploy, TypeOK
<1>3. CASE Push(d)
  <2>1. Routing!TypeOK'
    BY <1>3, PushStatusAssumption, SameData DEF Push, TypeOK, Routing!TypeOK, Routing!Push, Status
  <2> QED BY <1>3, <2>1, EnvironmentInv DEF Push, TypeOK
<1>4. CASE Seal(d)
  <2>1. Routing!TypeOK'
    BY <1>4 DEF Seal, TypeOK, routing, Routing!TypeOK
  <2> QED BY <1>4, <2>1, EnvironmentInv DEF Seal, TypeOK
<1> QED BY <1>1, <1>2, <1>3, <1>4

LEMMA InitiateInv == ASSUME IInv, NEW o \in Orchs, NEW d \in Deps, Initiate(o, d) PROVE IInv'
<1> DEFINE n == Len(rollbacks) + 1
           from == {e \in Deps : status[e] = "active"} \ {d}
           row == [to |-> d, from |-> from, status |-> "initiated", unroll |-> {},
                   owed |-> Damaging(from), demoted |-> {}, version |-> 0,
                   shared |-> FALSE]
<1> USE DEF IInv
<1>1. row \in Row
  BY DEF Row, RollbackStatus, Damaging
<1>2. rollbacks' = Append(rollbacks, row)
  BY DEF Initiate
<1>3. /\ rollbacks' \in Seq(Row) /\ Len(rollbacks) \in Nat /\ Len(rollbacks') = n
      /\ \A i \in Ids : rollbacks'[i] = rollbacks[i]
      /\ rollbacks'[n] = row
  BY <1>1, <1>2, AppendProperties, LenProperties DEF TypeOK, Ids
<1>4. Ids \subseteq Ids' /\ Ids' = Ids \cup {n}
  BY <1>3 DEF Ids
<1>5. /\ pc' = [pc EXCEPT ![o] = "flip"] /\ job' = [job EXCEPT ![o] = n]
      /\ UNCHANGED <<version, table, status, sealed, vector, memory, schema, audit, next,
                     todo, unroll, crashes>>
  BY DEF Initiate, Go, routing, stores
<1> HIDE DEF n, row
<1>6. TypeOK'
  <2>1. Routing!TypeOK'
    BY <1>5 DEF TypeOK, Routing!TypeOK
  <2>2. n \in Nat /\ n \in Ids'
    BY <1>3, <1>4 DEF n
  <2>3. audit' \subseteq Ids' \X Actions \X Deps
    BY <1>4, <1>5 DEF TypeOK
  <2>4. \A q \in Orchs : pc'[q] # "idle" => job'[q] \in Ids'
    BY <1>4, <1>5, <2>2 DEF TypeOK
  <2>5. \A q \in Orchs : pc'[q] \in {"restore", "audit_restore"} =>
                           next'[q] \in 1..Len(Pointers[rollbacks'[job'[q]].to])
    BY <1>3, <1>5 DEF TypeOK
  <2>6. pc' \in [Orchs -> PCs] /\ job' \in [Orchs -> Nat]
    BY <1>5, <2>2 DEF TypeOK, PCs
  <2> QED BY <1>3, <1>5, <2>1, <2>3, <2>4, <2>5, <2>6 DEF TypeOK
<1>7. OwedInRow'
  BY <1>3, <1>4, <1>5 DEF OwedInRow, row, Damaging
<1>8. OwedIsCarried' /\ ListIsAudited'
  <2>1. ASSUME NEW q \in Orchs, pc'[q] \in Working
        PROVE  pc[q] = pc'[q] /\ job'[q] = job[q] /\ rollbacks'[job'[q]] = rollbacks[job[q]]
    <3>1. q # o /\ pc[q] = pc'[q] /\ job'[q] = job[q]
      BY <1>5, <2>1 DEF TypeOK, Working
    <3>2. job[q] \in Ids
      BY <2>1, <3>1 DEF TypeOK, Working
    <3> QED BY <1>3, <3>1, <3>2
  <2>2. OwedIsCarried'
    BY <1>5, <2>1 DEF OwedIsCarried, Working
  <2>3. ListIsAudited'
    BY <1>5, <2>1 DEF ListIsAudited, Manifest, Target
  <2> QED BY <2>2, <2>3
<1>9. CompletedHidesNothing' /\ UnrollbackableAudited'
  BY <1>3, <1>4, <1>5 DEF CompletedHidesNothing, UnrollbackableAudited, row
<1> QED BY <1>6, <1>7, <1>8, <1>9

-----------------------------------------------------------------------------
(* The steps of an open call. *)

\* What a step may do to the rows: nothing to where they go, come from and owe, a
\* completed outcome only where nothing is owed, and only audited items listed.
RowsAdvance ==
  /\ rollbacks' \in Seq(Row)
  /\ Len(rollbacks') = Len(rollbacks)
  /\ \A i \in Ids :
       /\ rollbacks'[i].to = rollbacks[i].to
       /\ rollbacks'[i].from = rollbacks[i].from
       /\ rollbacks'[i].owed = rollbacks[i].owed
       /\ rollbacks'[i].status = "completed" =>
            rollbacks[i].status = "completed" \/ rollbacks[i].owed = {}
       /\ \A item \in rollbacks'[i].unroll :
            /\ item[1] = "side_effect" => <<i, "side_effect", item[2]>> \in audit'
            /\ item[1] = "relational_schema" => <<i, "flag_forward_fix", item[2]>> \in audit'

\* A step of o that takes its call to label l, row j, position n, inspections t, list u.
LEMMA CallStepInv ==
  ASSUME IInv, RowsAdvance, NEW o \in Orchs, NEW l \in PCs, NEW j \in Nat, NEW n \in Nat \ {0},
         NEW t \in SUBSET Deps, NEW u \in SUBSET Items,
         pc' = [pc EXCEPT ![o] = l], job' = [job EXCEPT ![o] = j],
         next' = [next EXCEPT ![o] = n], todo' = [todo EXCEPT ![o] = t],
         unroll' = [unroll EXCEPT ![o] = u],
         l # "idle" => j \in Ids,
         l \in {"restore", "audit_restore"} => n \in 1..Len(Pointers[rollbacks[j].to]),
         l \in Working => \A d \in rollbacks[j].owed : d \in t \/ <<"side_effect", d>> \in u,
         l \in Working => \A item \in u :
           /\ item[1] = "side_effect" => <<j, "side_effect", item[2]>> \in audit'
           /\ item[1] = "relational_schema" =>
                \/ <<j, "flag_forward_fix", item[2]>> \in audit'
                \/ /\ l = "audit_restore"
                   /\ item = <<Pointers[rollbacks[j].to][n], rollbacks[j].to>>,
         audit \subseteq audit', audit' \subseteq Ids \X Actions \X Deps,
         Routing!TypeOK', sealed' = sealed,
         vector' \in Deps, memory' \in Deps, schema' \in Nat, crashes' \in Nat
  PROVE  IInv'
<1> USE DEF IInv
<1>1. Ids' = Ids
  BY DEF RowsAdvance, Ids
<1>2. \A q \in Orchs : /\ pc'[q] = IF q = o THEN l ELSE pc[q]
                       /\ job'[q] = IF q = o THEN j ELSE job[q]
                       /\ next'[q] = IF q = o THEN n ELSE next[q]
                       /\ todo'[q] = IF q = o THEN t ELSE todo[q]
                       /\ unroll'[q] = IF q = o THEN u ELSE unroll[q]
  BY DEF TypeOK
<1>3. \A q \in Orchs : pc'[q] # "idle" => job'[q] \in Ids
  BY <1>2 DEF TypeOK
<1>4. \A q \in Orchs : pc'[q] # "idle" => /\ rollbacks'[job'[q]].to = rollbacks[job'[q]].to
                                          /\ rollbacks'[job'[q]].owed = rollbacks[job'[q]].owed
  BY <1>3 DEF RowsAdvance
<1>5. TypeOK'
  <2>1. /\ pc' \in [Orchs -> PCs] /\ job' \in [Orchs -> Nat] /\ next' \in [Orchs -> Nat \ {0}]
        /\ todo' \in [Orchs -> SUBSET Deps] /\ unroll' \in [Orchs -> SUBSET Items]
    BY DEF TypeOK
  <2>2. \A q \in Orchs : pc'[q] \in {"restore", "audit_restore"} =>
                           next'[q] \in 1..Len(Pointers[rollbacks'[job'[q]].to])
    BY <1>2, <1>4 DEF TypeOK
  <2>3. rollbacks' \in Seq(Row) /\ sealed' \in SUBSET Deps
    BY DEF TypeOK, RowsAdvance
  <2> QED BY <1>1, <1>3, <2>1, <2>2, <2>3 DEF TypeOK
<1>6. OwedInRow' /\ CompletedHidesNothing' /\ UnrollbackableAudited'
  BY <1>1 DEF OwedInRow, CompletedHidesNothing, UnrollbackableAudited, RowsAdvance
<1>7. OwedIsCarried'
  <2> SUFFICES ASSUME NEW q \in Orchs, pc'[q] \in Working, NEW d \in rollbacks'[job'[q]].owed
               PROVE  d \in todo'[q] \/ <<"side_effect", d>> \in unroll'[q]
    BY DEF OwedIsCarried
  <2>1. d \in rollbacks[job'[q]].owed
    BY <1>4 DEF Working
  <2> QED BY <1>2, <2>1 DEF OwedIsCarried
<1>8. ListIsAudited'
  <2> SUFFICES ASSUME NEW q \in Orchs, pc'[q] \in Working, NEW item \in unroll'[q]
               PROVE  /\ item[1] = "side_effect" => <<job'[q], "side_effect", item[2]>> \in audit'
                      /\ item[1] = "relational_schema" =>
                           \/ <<job'[q], "flag_forward_fix", item[2]>> \in audit'
                           \/ /\ pc'[q] = "audit_restore"
                              /\ item = <<Pointers[rollbacks'[job'[q]].to][next'[q]],
                                          rollbacks'[job'[q]].to>>
    BY DEF ListIsAudited, Manifest, Target
  <2>1. rollbacks'[job'[q]].to = rollbacks[job'[q]].to
    BY <1>4 DEF Working
  <2>2. CASE q = o
    BY <1>2, <2>1, <2>2
  <2>3. CASE q # o
    BY <1>2, <2>1, <2>3 DEF ListIsAudited, Manifest, Target
  <2> QED BY <2>2, <2>3
<1> QED BY <1>5, <1>6, <1>7, <1>8

\* The rows are not written, and the audit log only grows.
LEMMA SameRows == ASSUME IInv, rollbacks' = rollbacks, audit \subseteq audit' PROVE RowsAdvance
BY DEF IInv, TypeOK, RowsAdvance, UnrollbackableAudited

\* One row gets a new status, demoted set, version or list.
LEMMA OneRow ==
  ASSUME IInv, audit \subseteq audit', NEW j \in Ids, NEW r \in Row,
         rollbacks' = [rollbacks EXCEPT ![j] = r],
         r.to = rollbacks[j].to, r.from = rollbacks[j].from, r.owed = rollbacks[j].owed,
         r.status = "completed" => rollbacks[j].status = "completed" \/ r.owed = {},
         \A item \in r.unroll :
           /\ item[1] = "side_effect" => <<j, "side_effect", item[2]>> \in audit'
           /\ item[1] = "relational_schema" => <<j, "flag_forward_fix", item[2]>> \in audit'
  PROVE  RowsAdvance
<1>1. /\ rollbacks' \in Seq(Row) /\ Len(rollbacks') = Len(rollbacks)
      /\ \A i \in Ids : rollbacks'[i] = IF i = j THEN r ELSE rollbacks[i]
  BY WriteRow DEF IInv, TypeOK, Ids
<1> QED BY <1>1 DEF IInv, UnrollbackableAudited, RowsAdvance

\* A step of Phases 0 and 1 leaves what the call knows alone.
LEMMA EarlyStepInv ==
  ASSUME IInv, RowsAdvance, NEW o \in Orchs, pc[o] # "idle",
         NEW l \in PCs \ Working, Go(o, l), UNCHANGED <<sealed, stores, local, crashes>>,
         audit \subseteq audit', audit' \subseteq Ids \X Actions \X Deps, Routing!TypeOK'
  PROVE  IInv'
<1>1. job[o] \in Nat /\ job[o] \in Ids /\ l # "restore" /\ l # "audit_restore"
  BY DEF IInv, TypeOK, Working
<1>2. /\ pc' = [pc EXCEPT ![o] = l] /\ job' = [job EXCEPT ![o] = job[o]]
      /\ next' = [next EXCEPT ![o] = next[o]] /\ todo' = [todo EXCEPT ![o] = todo[o]]
      /\ unroll' = [unroll EXCEPT ![o] = unroll[o]]
  BY DEF Go, local, IInv, TypeOK
<1>3. next[o] \in Nat \ {0} /\ todo[o] \in SUBSET Deps /\ unroll[o] \in SUBSET Items
  BY DEF IInv, TypeOK
<1>4. vector' \in Deps /\ memory' \in Deps /\ schema' \in Nat /\ crashes' \in Nat
  BY DEF IInv, TypeOK, stores
<1> QED BY <1>1, <1>2, <1>3, <1>4, CallStepInv

\* Routing and the stores stay typed when they stay as they are.
LEMMA RoutingSame == ASSUME IInv, UNCHANGED routing PROVE Routing!TypeOK'
BY DEF IInv, TypeOK, Routing!TypeOK, routing

\* A record of the audit log for a rollback of the table.
LEMMA RecordType ==
  ASSUME IInv, NEW o \in Orchs, pc[o] # "idle", NEW action \in Actions, NEW d \in Deps,
         Record(o, action, d)
  PROVE  /\ audit \subseteq audit' /\ audit' \subseteq Ids \X Actions \X Deps
         /\ <<job[o], action, d>> \in audit'
BY OpenCall DEF IInv, TypeOK, Record

LEMMA FlipInv == ASSUME IInv, NEW o \in Orchs, Flip(o) PROVE IInv'
<1> DEFINE r == [rollbacks[job[o]] EXCEPT
                   !.demoted = Damaging({e \in Deps \ {Target(o)} : status[e] = "active"}),
                   !.version = version + 1]
<1>1. /\ pc[o] = "flip" /\ job[o] \in Ids /\ rollbacks[job[o]] \in Row
      /\ Target(o) \in Deps /\ audit' = audit
  BY OpenCall DEF Flip, IInv
<1>2. r \in Row
  <2>1. version + 1 \in Nat
    BY DEF IInv, TypeOK, Routing!TypeOK
  <2>2. Damaging({e \in Deps \ {Target(o)} : status[e] = "active"}) \in SUBSET Deps
    BY DEF Damaging
  <2> QED BY <1>1, <2>1, <2>2 DEF Row
<1>3. /\ r.to = rollbacks[job[o]].to /\ r.from = rollbacks[job[o]].from
      /\ r.owed = rollbacks[job[o]].owed /\ r.unroll = rollbacks[job[o]].unroll
      /\ r.status = rollbacks[job[o]].status
  BY <1>1 DEF Row
<1>4. rollbacks' = [rollbacks EXCEPT ![job[o]] = r]
  BY <1>1 DEF Flip
<1>5. RowsAdvance
  <2> HIDE DEF r
  <2> QED BY <1>1, <1>2, <1>3, <1>4, OneRow DEF IInv, UnrollbackableAudited
<1>6. Routing!TypeOK'
  BY <1>1, RoutingFlipType DEF Flip, IInv
<1>7. "mark" \in PCs \ Working
  BY DEF PCs, Working
<1>8. audit' \subseteq Ids \X Actions \X Deps
  BY <1>1 DEF IInv, TypeOK
<1> QED BY <1>1, <1>5, <1>6, <1>7, <1>8, EarlyStepInv DEF Flip

\* A new status other than completed.
LEMMA StatusRow ==
  ASSUME IInv, NEW o \in Orchs, pc[o] # "idle", NEW s \in RollbackStatus \ {"completed"},
         SetStatus(o, s), audit' = audit
  PROVE  RowsAdvance
<1> DEFINE r == [rollbacks[job[o]] EXCEPT !.status = s]
<1>1. job[o] \in Ids /\ rollbacks[job[o]] \in Row
  BY OpenCall DEF IInv
<1>2. r \in Row /\ r.status = s
      /\ r.to = rollbacks[job[o]].to /\ r.from = rollbacks[job[o]].from
      /\ r.owed = rollbacks[job[o]].owed /\ r.unroll = rollbacks[job[o]].unroll
  BY <1>1 DEF Row
<1>3. rollbacks' = [rollbacks EXCEPT ![job[o]] = r]
  BY <1>1 DEF SetStatus
<1> HIDE DEF r
<1> QED BY <1>1, <1>2, <1>3, OneRow DEF IInv, UnrollbackableAudited

LEMMA MarkFlippedInv == ASSUME IInv, NEW o \in Orchs, MarkFlipped(o) PROVE IInv'
<1>1. pc[o] # "idle" /\ audit' = audit
  BY DEF MarkFlipped
<1>2. RowsAdvance
  BY <1>1, StatusRow DEF MarkFlipped, RollbackStatus, Resumable, Final
<1>3. audit' \subseteq Ids \X Actions \X Deps /\ "audit_flip" \in PCs \ Working
  BY <1>1 DEF IInv, TypeOK, PCs, Working
<1> QED BY <1>1, <1>2, <1>3, RoutingSame, EarlyStepInv DEF MarkFlipped

LEMMA AuditFlipInv == ASSUME IInv, NEW o \in Orchs, AuditFlip(o) PROVE IInv'
<1>1. pc[o] # "idle" /\ Target(o) \in Deps /\ "routing_flip" \in Actions
  BY OpenCall DEF AuditFlip, IInv, Actions
<1>2. audit \subseteq audit' /\ audit' \subseteq Ids \X Actions \X Deps
  BY <1>1, RecordType DEF AuditFlip
<1>3. RowsAdvance /\ "realign" \in PCs \ Working
  BY <1>2, SameRows DEF AuditFlip, PCs, Working
<1> QED BY <1>1, <1>2, <1>3, RoutingSame, EarlyStepInv DEF AuditFlip

\* What a call knows is typed, and so are the stores when they stay as they are.
LEMMA LocalType == ASSUME IInv, NEW o \in Orchs
                   PROVE  /\ job[o] \in Nat /\ next[o] \in Nat \ {0}
                          /\ todo[o] \in SUBSET Deps /\ unroll[o] \in SUBSET Items
                          /\ UNCHANGED job => job' = [job EXCEPT ![o] = job[o]]
                          /\ UNCHANGED next => next' = [next EXCEPT ![o] = next[o]]
                          /\ UNCHANGED todo => todo' = [todo EXCEPT ![o] = todo[o]]
                          /\ UNCHANGED unroll => unroll' = [unroll EXCEPT ![o] = unroll[o]]
                          /\ UNCHANGED pc => pc' = [pc EXCEPT ![o] = pc[o]]
BY DEF IInv, TypeOK

LEMMA StoresType == ASSUME IInv, UNCHANGED <<stores, crashes>>
                    PROVE  vector' \in Deps /\ memory' \in Deps /\ schema' \in Nat /\ crashes' \in Nat
BY DEF IInv, TypeOK, stores

LEMMA RealignInv == ASSUME IInv, NEW o \in Orchs, Realign(o) PROVE IInv'
<1> DEFINE l == IF 1 <= Len(Manifest(o)) THEN "restore" ELSE "inspect"
           from == rollbacks[job[o]].from
<1>1. /\ pc[o] # "idle" /\ audit' = audit /\ job[o] \in Ids
      /\ rollbacks[job[o]] \in Row /\ Target(o) \in Deps
  BY OpenCall DEF Realign, IInv
<1>2. RowsAdvance
  BY <1>1, StatusRow DEF Realign, RollbackStatus, Resumable, Final
<1>3. /\ pc' = [pc EXCEPT ![o] = l] /\ next' = [next EXCEPT ![o] = 1]
      /\ todo' = [todo EXCEPT ![o] = from] /\ unroll' = [unroll EXCEPT ![o] = {}]
      /\ job' = [job EXCEPT ![o] = job[o]]
  BY LocalType DEF Realign, AtPointer, Go
<1>4. l \in PCs /\ from \in SUBSET Deps
  BY <1>1 DEF PCs, Row
<1>5. l = "restore" => 1 \in 1..Len(Pointers[rollbacks[job[o]].to])
  BY <1>1, ManifestType DEF Manifest, Target
<1>6. \A d \in rollbacks[job[o]].owed : d \in from
  BY <1>1 DEF IInv, OwedInRow
<1>7. audit \subseteq audit' /\ audit' \subseteq Ids \X Actions \X Deps /\ Routing!TypeOK'
  BY <1>1, RoutingSame DEF Realign, IInv, TypeOK
<1>8. l # "audit_restore" /\ {} \in SUBSET Items /\ 1 \in Nat \ {0}
  OBVIOUS
<1>9. sealed' = sealed /\ UNCHANGED <<stores, crashes>> /\ job[o] \in Nat
  BY LocalType DEF Realign
<1> HIDE DEF l, from
<1> QED BY <1>1, <1>2, <1>3, <1>4, <1>5, <1>6, <1>7, <1>8, <1>9, StoresType, CallStepInv

LEMMA RestoreInv == ASSUME IInv, NEW o \in Orchs, Restore(o) PROVE IInv'
<1> DEFINE class == Manifest(o)[next[o]]
           u == IF Refused(o) THEN unroll[o] \cup {<<class, Target(o)>>} ELSE unroll[o]
<1>1. pc[o] = "restore" /\ job[o] \in Ids /\ Target(o) \in Deps
  BY OpenCall DEF Restore, IInv
<1>2. next[o] \in 1..Len(Pointers[Target(o)])
  BY <1>1 DEF IInv, TypeOK, Target
<1>3. class \in Classes
  BY <1>1, <1>2, ManifestType DEF Manifest
<1>4. u \in SUBSET Items
  BY <1>1, <1>3, LocalType DEF Items
<1>5. /\ pc' = [pc EXCEPT ![o] = "audit_restore"] /\ unroll' = [unroll EXCEPT ![o] = u]
      /\ next' = [next EXCEPT ![o] = next[o]] /\ todo' = [todo EXCEPT ![o] = todo[o]]
      /\ job' = [job EXCEPT ![o] = job[o]]
  BY LocalType DEF Restore, Go
<1>6. vector' \in Deps /\ memory' \in Deps /\ schema' \in Nat /\ crashes' \in Nat
  BY <1>1, ConstantsAssumption DEF Restore, IInv, TypeOK
<1>7. \A d \in rollbacks[job[o]].owed : d \in todo[o] \/ <<"side_effect", d>> \in u
  BY <1>1 DEF IInv, OwedIsCarried, Working
<1>8. \A item \in u :
        /\ item[1] = "side_effect" => <<job[o], "side_effect", item[2]>> \in audit
        /\ item[1] = "relational_schema" =>
             \/ <<job[o], "flag_forward_fix", item[2]>> \in audit
             \/ item = <<Pointers[rollbacks[job[o]].to][next[o]], rollbacks[job[o]].to>>
  <2>1. ASSUME NEW item \in unroll[o]
        PROVE  /\ item[1] = "side_effect" => <<job[o], "side_effect", item[2]>> \in audit
               /\ item[1] = "relational_schema" =>
                    <<job[o], "flag_forward_fix", item[2]>> \in audit
    BY <1>1, <2>1 DEF IInv, ListIsAudited, Working
  <2>2. <<class, Target(o)>>[1] # "side_effect"
    BY <1>3 DEF Classes
  <2>3. <<class, Target(o)>> = <<Pointers[rollbacks[job[o]].to][next[o]], rollbacks[job[o]].to>>
    BY DEF Manifest, Target
  <2> QED BY <2>1, <2>2, <2>3
<1>9. RowsAdvance /\ audit' = audit /\ sealed' = sealed
  BY SameRows DEF Restore
<1>10. audit' \subseteq Ids \X Actions \X Deps /\ Routing!TypeOK' /\ "audit_restore" \in PCs
  BY <1>9, RoutingSame DEF IInv, TypeOK, Restore, PCs
<1>11. next[o] \in 1..Len(Pointers[rollbacks[job[o]].to])
  BY <1>2 DEF Target
<1> HIDE DEF u, class
<1> QED BY <1>1, <1>4, <1>5, <1>6, <1>7, <1>8, <1>9, <1>10, <1>11, LocalType, CallStepInv

LEMMA AuditRestoreInv == ASSUME IInv, NEW o \in Orchs, AuditRestore(o) PROVE IInv'
<1> DEFINE class == Manifest(o)[next[o]]
           action == IF <<class, Target(o)>> \in unroll[o] THEN "flag_forward_fix" ELSE class
           l == IF next[o] + 1 <= Len(Manifest(o)) THEN "restore" ELSE "inspect"
           n == IF next[o] + 1 <= Len(Manifest(o)) THEN next[o] + 1 ELSE 1
<1>1. pc[o] = "audit_restore" /\ job[o] \in Ids /\ Target(o) \in Deps
  BY OpenCall DEF AuditRestore, IInv
<1>2. next[o] \in 1..Len(Pointers[Target(o)]) /\ Len(Pointers[Target(o)]) \in Nat
  BY <1>1, ManifestType DEF IInv, TypeOK, Target
<1>3. class \in Classes
  BY <1>1, <1>2, ManifestType DEF Manifest
<1>4. action \in Actions /\ Record(o, action, Target(o))
  BY <1>3 DEF Actions, Classes, AuditRestore
<1>5. /\ audit \subseteq audit' /\ audit' \subseteq Ids \X Actions \X Deps
      /\ <<job[o], action, Target(o)>> \in audit'
  BY <1>1, <1>4, RecordType
<1>6. /\ pc' = [pc EXCEPT ![o] = l] /\ next' = [next EXCEPT ![o] = n]
      /\ todo' = [todo EXCEPT ![o] = todo[o]] /\ job' = [job EXCEPT ![o] = job[o]]
      /\ unroll' = [unroll EXCEPT ![o] = unroll[o]]
  BY LocalType DEF AuditRestore, AtPointer, Go, IInv, TypeOK
<1>7. \A item \in unroll[o] :
        /\ item[1] = "side_effect" => <<job[o], "side_effect", item[2]>> \in audit'
        /\ item[1] = "relational_schema" => <<job[o], "flag_forward_fix", item[2]>> \in audit'
  <2> SUFFICES ASSUME NEW item \in unroll[o]
               PROVE  /\ item[1] = "side_effect" => <<job[o], "side_effect", item[2]>> \in audit'
                      /\ item[1] = "relational_schema" =>
                           <<job[o], "flag_forward_fix", item[2]>> \in audit'
    OBVIOUS
  <2>1. CASE item = <<class, Target(o)>>
    <3>1. action = "flag_forward_fix" /\ item[2] = Target(o) /\ item[1] # "side_effect"
      BY <1>3, <2>1 DEF Classes
    <3> QED BY <1>5, <3>1
  <2>2. CASE item # <<class, Target(o)>>
    BY <1>1, <1>5, <2>2 DEF IInv, ListIsAudited, Working
  <2> QED BY <2>1, <2>2
<1>8. \A d \in rollbacks[job[o]].owed : d \in todo[o] \/ <<"side_effect", d>> \in unroll[o]
  BY <1>1 DEF IInv, OwedIsCarried, Working
<1>9. l = "restore" => n \in 1..Len(Pointers[rollbacks[job[o]].to])
  BY <1>2 DEF Manifest, Target
<1>10. /\ l \in PCs /\ l # "audit_restore" /\ sealed' = sealed
       /\ n \in Nat \ {0}
  BY <1>2 DEF PCs, AuditRestore
<1>11. RowsAdvance /\ Routing!TypeOK' /\ UNCHANGED <<stores, crashes>>
  BY <1>5, SameRows, RoutingSame DEF AuditRestore
<1> HIDE DEF l, n, class, action
<1> QED BY <1>1, <1>5, <1>6, <1>7, <1>8, <1>9, <1>10, <1>11, LocalType, StoresType, CallStepInv

LEMMA InspectInv ==
  ASSUME IInv, NEW o \in Orchs, NEW d \in Deps, Inspect(o, d) PROVE IInv'
<1> DEFINE damaging == d \in sealed \cap Irreversible
           t == todo[o] \ {d}
           u == IF damaging THEN unroll[o] \cup {<<"side_effect", d>>} ELSE unroll[o]
<1>1. pc[o] = "inspect" /\ job[o] \in Ids
  BY OpenCall DEF Inspect, IInv
<1>2. /\ audit \subseteq audit' /\ audit' \subseteq Ids \X Actions \X Deps
      /\ damaging => <<job[o], "side_effect", d>> \in audit'
  <2>1. CASE damaging
    <3>1. Record(o, "side_effect", d) /\ "side_effect" \in Actions
      BY <2>1 DEF Inspect, Actions
    <3> QED BY <1>1, <3>1, RecordType
  <2>2. CASE ~ damaging
    BY <2>2 DEF Inspect, IInv, TypeOK
  <2> QED BY <2>1, <2>2
<1>3. /\ pc' = [pc EXCEPT ![o] = "inspect"] /\ next' = [next EXCEPT ![o] = next[o]]
      /\ todo' = [todo EXCEPT ![o] = t] /\ job' = [job EXCEPT ![o] = job[o]]
      /\ unroll' = [unroll EXCEPT ![o] = u]
  BY <1>1, LocalType DEF Inspect
<1>4. t \in SUBSET Deps /\ u \in SUBSET Items /\ "inspect" \in PCs
  BY LocalType DEF Items, PCs
<1>5. \A e \in rollbacks[job[o]].owed : e \in t \/ <<"side_effect", e>> \in u
  <2> SUFFICES ASSUME NEW e \in rollbacks[job[o]].owed PROVE e \in t \/ <<"side_effect", e>> \in u
    OBVIOUS
  <2>1. e \in sealed \cap Irreversible
    BY <1>1 DEF IInv, OwedInRow
  <2>2. e \in todo[o] \/ <<"side_effect", e>> \in unroll[o]
    BY <1>1 DEF IInv, OwedIsCarried, Working
  <2> QED BY <2>1, <2>2
<1>6. \A item \in u :
        /\ item[1] = "side_effect" => <<job[o], "side_effect", item[2]>> \in audit'
        /\ item[1] = "relational_schema" => <<job[o], "flag_forward_fix", item[2]>> \in audit'
  BY <1>1, <1>2 DEF IInv, ListIsAudited, Working
<1>7. /\ RowsAdvance /\ Routing!TypeOK' /\ sealed' = sealed
      /\ UNCHANGED <<stores, crashes>>
  BY <1>2, SameRows, RoutingSame DEF Inspect
<1> HIDE DEF t, u
<1> QED BY <1>1, <1>2, <1>3, <1>4, <1>5, <1>6, <1>7, LocalType, StoresType, CallStepInv

LEMMA VerifyInv == ASSUME IInv, NEW o \in Orchs, Verify(o) PROVE IInv'
<1> DEFINE class == Manifest(o)[next[o]]
           u == IF At(o)[class] THEN unroll[o] ELSE unroll[o] \cup {<<class, Target(o)>>}
<1>1. pc[o] = "inspect" /\ job[o] \in Ids /\ Target(o) \in Deps
  BY OpenCall DEF Verify, IInv
<1>2. /\ pc' = [pc EXCEPT ![o] = "inspect"] /\ next' = [next EXCEPT ![o] = next[o] + 1]
      /\ todo' = [todo EXCEPT ![o] = todo[o]] /\ job' = [job EXCEPT ![o] = job[o]]
      /\ unroll' = [unroll EXCEPT ![o] = u]
  BY <1>1, LocalType DEF Verify
<1>3. class \in Classes /\ next[o] + 1 \in Nat \ {0}
  <2>1. next[o] \in Nat \ {0} /\ next[o] <= Len(Manifest(o))
    BY LocalType DEF Verify
  <2>2. next[o] \in 1..Len(Pointers[Target(o)])
    BY <1>1, <2>1, ManifestType DEF Manifest
  <2> QED BY <1>1, <2>1, <2>2, ManifestType DEF Manifest
<1>4. u \in SUBSET Items /\ "inspect" \in PCs
  BY <1>1, <1>3, LocalType DEF Items, PCs
<1>5. \A e \in rollbacks[job[o]].owed : e \in todo[o] \/ <<"side_effect", e>> \in u
  BY <1>1 DEF IInv, OwedIsCarried, Working
<1>6. \A item \in u :
        /\ item[1] = "side_effect" => <<job[o], "side_effect", item[2]>> \in audit
        /\ item[1] = "relational_schema" => <<job[o], "flag_forward_fix", item[2]>> \in audit
  <2>1. \A item \in unroll[o] :
          /\ item[1] = "side_effect" => <<job[o], "side_effect", item[2]>> \in audit
          /\ item[1] = "relational_schema" => <<job[o], "flag_forward_fix", item[2]>> \in audit
    BY <1>1 DEF IInv, ListIsAudited, Working
  <2>2. class \in Classes /\ ~ At(o)[class] => class # "side_effect" /\ class # "relational_schema"
    BY DEF Classes, At
  <2> QED BY <1>3, <2>1, <2>2
<1>7. /\ RowsAdvance /\ Routing!TypeOK' /\ sealed' = sealed /\ audit' = audit
      /\ UNCHANGED <<stores, crashes>> /\ audit' \subseteq Ids \X Actions \X Deps
  BY SameRows, RoutingSame DEF Verify, IInv, TypeOK
<1> HIDE DEF u, class
<1> QED BY <1>1, <1>2, <1>3, <1>4, <1>5, <1>6, <1>7, LocalType, StoresType, CallStepInv

LEMMA OutcomeInv == ASSUME IInv, NEW o \in Orchs, Outcome(o) PROVE IInv'
<1> DEFINE s == IF unroll[o] = {} THEN "completed" ELSE "compensating"
           r == [rollbacks[job[o]] EXCEPT !.status = s, !.unroll = unroll[o]]
<1>1. /\ pc[o] = "inspect" /\ todo[o] = {} /\ job[o] \in Ids /\ rollbacks[job[o]] \in Row
      /\ audit' = audit /\ unroll[o] \in SUBSET Items
  BY OpenCall, LocalType DEF Outcome, IInv
<1>2. s \in RollbackStatus
  BY DEF RollbackStatus, Final
<1>3. /\ r \in Row /\ r.status = s /\ r.unroll = unroll[o]
      /\ r.to = rollbacks[job[o]].to /\ r.from = rollbacks[job[o]].from
      /\ r.owed = rollbacks[job[o]].owed
  BY <1>1, <1>2 DEF Row
<1>4. r.status = "completed" => r.owed = {}
  <2>1. \A d \in rollbacks[job[o]].owed : <<"side_effect", d>> \in unroll[o]
    BY <1>1 DEF IInv, OwedIsCarried, Working
  <2>2. s = "completed" => unroll[o] = {}
    OBVIOUS
  <2>3. rollbacks[job[o]].owed \in SUBSET Deps
    BY <1>1 DEF Row
  <2>4. s = "completed" => rollbacks[job[o]].owed = {}
    BY <2>1, <2>2, <2>3
  <2> HIDE DEF r, s
  <2> QED BY <1>3, <2>4
<1>5. \A item \in r.unroll :
        /\ item[1] = "side_effect" => <<job[o], "side_effect", item[2]>> \in audit'
        /\ item[1] = "relational_schema" => <<job[o], "flag_forward_fix", item[2]>> \in audit'
  BY <1>1, <1>3 DEF IInv, ListIsAudited, Working
<1>6. rollbacks' = [rollbacks EXCEPT ![job[o]] = r]
  BY <1>1 DEF Outcome
<1>7. RowsAdvance
  <2> HIDE DEF r
  <2> QED BY <1>1, <1>3, <1>4, <1>5, <1>6, OneRow
<1>8. audit' \subseteq Ids \X Actions \X Deps /\ "audit_outcome" \in PCs \ Working
  BY <1>1 DEF IInv, TypeOK, PCs, Working
<1> QED BY <1>1, <1>7, <1>8, RoutingSame, EarlyStepInv DEF Outcome

\* The call ends: nothing of it is left but what was committed.
LEMMA RestInv ==
  ASSUME IInv, NEW o \in Orchs, Rest(o), UNCHANGED <<routing, sealed, stores, rollbacks>>,
         crashes' \in Nat, audit \subseteq audit', audit' \subseteq Ids \X Actions \X Deps
  PROVE  IInv'
<1>1. /\ pc' = [pc EXCEPT ![o] = "idle"] /\ job' = [job EXCEPT ![o] = 0]
      /\ next' = [next EXCEPT ![o] = 1] /\ todo' = [todo EXCEPT ![o] = {}]
      /\ unroll' = [unroll EXCEPT ![o] = {}]
  BY DEF Rest, Go
<1>2. vector' \in Deps /\ memory' \in Deps /\ schema' \in Nat
  BY DEF IInv, TypeOK, stores
<1>3. "idle" \in PCs /\ "idle" \notin Working /\ 1 \in Nat \ {0}
  BY DEF PCs, Working
<1>4. RowsAdvance /\ Routing!TypeOK'
  BY SameRows, RoutingSame
<1> QED BY <1>1, <1>2, <1>3, <1>4, CallStepInv

LEMMA EndInv == ASSUME IInv, NEW o \in Orchs, AuditOutcome(o) \/ Crash(o) PROVE IInv'
<1>1. CASE AuditOutcome(o)
  <2>1. pc[o] # "idle" /\ Target(o) \in Deps /\ "rollback_outcome" \in Actions
    BY <1>1, OpenCall DEF AuditOutcome, IInv, Actions
  <2>2. audit \subseteq audit' /\ audit' \subseteq Ids \X Actions \X Deps
    BY <1>1, <2>1, RecordType DEF AuditOutcome
  <2> QED BY <1>1, <2>2, RestInv DEF AuditOutcome, IInv, TypeOK
<1>2. CASE Crash(o)
  BY <1>2, RestInv DEF Crash, IInv, TypeOK
<1> QED BY <1>1, <1>2

LEMMA ResumeInv == ASSUME IInv, NEW o \in Orchs, NEW i \in Ids, Resume(o, i) PROVE IInv'
<1> DEFINE b == rollbacks[i].shared \/ OpenElsewhere(o, i)
           r == [rollbacks[i] EXCEPT !.shared = b]
<1>1. rollbacks[i] \in Row /\ i \in Nat /\ "rollback_resume" \in Actions
  BY ElementOfSeq DEF IInv, TypeOK, Ids, Actions
<1>2. audit \subseteq audit' /\ audit' \subseteq Ids \X Actions \X Deps
  BY <1>1 DEF Resume, IInv, TypeOK, Row
<1>3. /\ pc' = [pc EXCEPT ![o] = "realign"] /\ job' = [job EXCEPT ![o] = i]
      /\ next' = [next EXCEPT ![o] = next[o]] /\ todo' = [todo EXCEPT ![o] = todo[o]]
      /\ unroll' = [unroll EXCEPT ![o] = unroll[o]]
  BY LocalType DEF Resume, Go
<1>4. "realign" \in PCs /\ "realign" \notin Working /\ b \in BOOLEAN
  BY <1>1 DEF PCs, Working, OpenElsewhere, Row
<1>5. rollbacks' = [rollbacks EXCEPT ![i] = r]
  BY DEF Resume
<1>6. /\ r \in Row /\ r.to = rollbacks[i].to /\ r.from = rollbacks[i].from
      /\ r.owed = rollbacks[i].owed /\ r.unroll = rollbacks[i].unroll
      /\ r.status = rollbacks[i].status
  <2> HIDE DEF b
  <2> QED BY <1>1, <1>4 DEF Row
<1>7. rollbacks[i].status = "completed" => rollbacks[i].owed = {}
  BY DEF IInv, CompletedHidesNothing
<1> HIDE DEF b, r
<1>8. \A item \in r.unroll :
        /\ item[1] = "side_effect" => <<i, "side_effect", item[2]>> \in audit'
        /\ item[1] = "relational_schema" => <<i, "flag_forward_fix", item[2]>> \in audit'
  BY <1>2, <1>6 DEF IInv, UnrollbackableAudited
<1>9. RowsAdvance
  BY <1>2, <1>5, <1>6, <1>7, <1>8, OneRow
<1>10. Routing!TypeOK' /\ sealed' = sealed /\ UNCHANGED <<stores, crashes>>
  BY RoutingSame DEF Resume
<1> QED BY <1>1, <1>2, <1>3, <1>4, <1>9, <1>10, LocalType, StoresType, CallStepInv

-----------------------------------------------------------------------------
LEMMA Invariance == Spec => []IInv
<1>1. IInv /\ [Next]_vars => IInv'
  <2> SUFFICES ASSUME IInv, [Next]_vars PROVE IInv'
    OBVIOUS
  <2>1. ASSUME NEW o \in Orchs, NEW d \in Deps, Initiate(o, d) PROVE IInv'
    BY <2>1, InitiateInv
  <2>2. ASSUME NEW o \in Orchs, Step(o) PROVE IInv'
    BY <2>2, FlipInv, MarkFlippedInv, AuditFlipInv, RealignInv, RestoreInv, AuditRestoreInv,
       InspectInv, VerifyInv, OutcomeInv, EndInv DEF Step
  <2>3. ASSUME NEW o \in Orchs, Crash(o) \/ SomeResume(o) PROVE IInv'
    BY <2>3, EndInv, ResumeInv DEF SomeResume
  <2>4. ASSUME NEW d \in Deps, Canary(d) \/ Deploy(d) \/ Push(d) \/ Seal(d) PROVE IInv'
    BY <2>4, OthersInv
  <2>5. CASE UNCHANGED vars
    <3>1. Routing!TypeOK'
      BY <2>5, RoutingSame DEF vars
    <3> QED BY <2>5, <3>1, EnvironmentInv DEF vars, IInv, TypeOK
  <2> QED BY <2>1, <2>2, <2>3, <2>4, <2>5 DEF Next
<1> QED BY <1>1, InitInv, PTL DEF Spec

\* The rows, the audit log and every process keep their types.
THEOREM RollbackTypeCorrect == Spec => []TypeOK
  BY Invariance, PTL DEF IInv

\* However many operators, crashes and resumes: a rollback that reports completed rolled
\* past no sealed irreversible effect of an arm that was active when it began.
THEOREM HonestOutcome == Spec => []CompletedHidesNothing
  BY Invariance, PTL DEF IInv

\* However many operators, crashes and resumes: whatever a final row lists as not rolled
\* back has its own record in the audit log.
THEOREM AuditedOutcome == Spec => []UnrollbackableAudited
  BY Invariance, PTL DEF IInv

-----------------------------------------------------------------------------
(* A split of the two stores is owned up to: SplitInv is inductive. *)

\* The other processes go on from where they are.
OthersKeep(o) ==
  \A q \in Orchs \ {o} : /\ pc'[q] = pc[q] /\ job'[q] = job[q]
                         /\ next'[q] = next[q] /\ unroll'[q] = unroll[q]

\* No row is added, moved or shared, and only row j may get a new status or list.
RowsKeep(j) ==
  /\ Ids' = Ids
  /\ \A i \in Ids : /\ rollbacks'[i].to = rollbacks[i].to
                    /\ rollbacks'[i].shared = rollbacks[i].shared
                    /\ i # j => /\ rollbacks'[i].status = rollbacks[i].status
                                /\ rollbacks'[i].unroll = rollbacks[i].unroll

LEMMA SameRowsKeep == ASSUME rollbacks' = rollbacks, NEW j PROVE RowsKeep(j)
BY DEF RowsKeep, Ids

LEMMA OneRowKeeps ==
  ASSUME IInv, NEW j \in Ids, NEW r \in Row, rollbacks' = [rollbacks EXCEPT ![j] = r],
         r.to = rollbacks[j].to, r.shared = rollbacks[j].shared
  PROVE  RowsKeep(j) /\ rollbacks'[j] = r
<1>1. /\ Len(rollbacks') = Len(rollbacks)
      /\ \A i \in Ids : rollbacks'[i] = IF i = j THEN r ELSE rollbacks[i]
  BY WriteRow DEF IInv, TypeOK, Ids
<1> QED BY <1>1 DEF RowsKeep, Ids

\* A call moves to l, and its row gets a status that fits l.
LEMMA OwnedStep ==
  ASSUME IInv, RowsAreOwned, NEW o \in Orchs, pc[o] # "idle", OthersKeep(o), RowsKeep(job[o]),
         pc'[o] # "idle" =>
           /\ job'[o] = job[o]
           /\ ~ rollbacks[job[o]].shared => rollbacks'[job[o]].status \in StatusAt[pc'[o]]
  PROVE  RowsAreOwned'
<1> SUFFICES ASSUME NEW p \in Orchs, pc'[p] # "idle", ~ rollbacks'[job'[p]].shared
             PROVE  /\ rollbacks'[job'[p]].status \in StatusAt[pc'[p]]
                    /\ \A q \in Orchs \ {p} : pc'[q] # "idle" => job'[q] # job'[p]
  BY DEF RowsAreOwned, StatusAt
<1>1. pc[p] # "idle" /\ job'[p] = job[p]
  BY DEF OthersKeep
<1>2. job[p] \in Ids /\ ~ rollbacks[job[p]].shared
  BY <1>1, OpenCall DEF IInv, RowsKeep
<1>3. \A q \in Orchs \ {p} : pc[q] # "idle" => job[q] # job[p]
  BY <1>1, <1>2 DEF RowsAreOwned
<1>4. \A q \in Orchs \ {p} : pc'[q] # "idle" => job'[q] # job'[p]
  BY <1>1, <1>3 DEF OthersKeep
<1>5. CASE p = o
  BY <1>1, <1>2, <1>4, <1>5
<1>6. CASE p # o
  <2>1. job[p] # job[o] /\ pc'[p] = pc[p]
    BY <1>3, <1>6 DEF OthersKeep
  <2>2. rollbacks'[job'[p]].status \in StatusAt[pc'[p]]
    BY <1>1, <1>2, <2>1 DEF RowsKeep, RowsAreOwned
  <2> QED BY <1>4, <2>2
<1> QED BY <1>5, <1>6

\* Rollback i is neither written nor read at Phase 3 by the process that moves.
LEMMA AnswersElsewhere ==
  ASSUME NEW o \in Orchs, NEW i \in Ids, OthersKeep(o), Answers(i),
         UNCHANGED <<vector, memory>>,
         rollbacks'[i].to = rollbacks[i].to, rollbacks'[i].status = rollbacks[i].status,
         rollbacks'[i].unroll = rollbacks[i].unroll, pc'[o] = "inspect" => job'[o] # i
  PROVE  Answers(i)'
<1>1. CASE rollbacks[i].status \in Final /\ Admits(rollbacks[i].unroll)
  BY <1>1 DEF Answers, Admits
<1>2. CASE /\ rollbacks[i].status = "state_realigning"
           /\ Reversible \subseteq Range(Pointers[rollbacks[i].to])
           /\ \A q \in Orchs : pc[q] = "inspect" /\ job[q] = i => WillSeeDrift(q)
  <2>1. ASSUME NEW q \in Orchs, pc'[q] = "inspect", job'[q] = i PROVE WillSeeDrift(q)'
    <3>1. q # o /\ pc[q] = "inspect" /\ job[q] = i
      BY <2>1 DEF OthersKeep
    <3>2. WillSeeDrift(q)
      BY <1>2, <3>1
    <3>3. /\ unroll'[q] = unroll[q] /\ next'[q] = next[q]
          /\ Target(q)' = Target(q) /\ Manifest(q)' = Manifest(q) /\ At(q)' = At(q)
      BY <2>1, <3>1 DEF OthersKeep, Target, Manifest, At
    <3> QED BY <3>2, <3>3 DEF WillSeeDrift, Admits
  <2> QED BY <1>2, <2>1 DEF Answers
<1> QED BY <1>1, <1>2 DEF Answers

\* The one process of rollback i goes on, and can still not end without listing the drift.
LEMMA AnswersStill ==
  ASSUME RowsAreOwned, NEW o \in Orchs, NEW i \in Ids, pc[o] # "idle", job[o] = i,
         ~ rollbacks[i].shared, OthersKeep(o),
         rollbacks'[i].status = "state_realigning", rollbacks'[i].to = Target(o),
         Reversible \subseteq Range(Manifest(o)), pc'[o] = "inspect" => WillSeeDrift(o)'
  PROVE  Answers(i)'
<1>1. ASSUME NEW q \in Orchs, pc'[q] = "inspect", job'[q] = i PROVE WillSeeDrift(q)'
  <2>1. q = o
    BY <1>1 DEF OthersKeep, RowsAreOwned
  <2> QED BY <1>1, <2>1
<1>2. Reversible \subseteq Range(Pointers[rollbacks'[i].to])
  BY DEF Manifest
<1> QED BY <1>1, <1>2 DEF Answers

\* What each step of an open call does to its row and to its place.
LEMMA StepRow ==
  ASSUME IInv, NEW o \in Orchs, Step(o)
  PROVE  /\ pc[o] # "idle" /\ job[o] \in Ids
         /\ OthersKeep(o) /\ RowsKeep(job[o])
         /\ pc'[o] # "idle" => job'[o] = job[o]
         /\ Flip(o) => rollbacks'[job[o]].status = rollbacks[job[o]].status
         /\ MarkFlipped(o) => rollbacks'[job[o]].status = "routing_flipped"
         /\ Realign(o) => rollbacks'[job[o]].status = "state_realigning"
         /\ Outcome(o) => /\ rollbacks'[job[o]].status \in Final
                          /\ rollbacks'[job[o]].unroll = unroll[o]
<1> DEFINE j == job[o]
           row == rollbacks[job[o]]
<1>1. pc[o] # "idle"
  BY DEF Step, Flip, MarkFlipped, AuditFlip, Realign, Restore, AuditRestore, Inspect, Verify,
         Outcome, AuditOutcome
<1>2. j \in Ids /\ row \in Row
  BY <1>1, OpenCall DEF IInv
<1>3. OthersKeep(o) /\ (pc'[o] # "idle" => job'[o] = j)
  <2>1. CASE Flip(o) \/ MarkFlipped(o) \/ AuditFlip(o) \/ Outcome(o)
    BY <2>1 DEF Flip, MarkFlipped, AuditFlip, Outcome, Go, local, OthersKeep, IInv, TypeOK
  <2>2. CASE Realign(o) \/ AuditRestore(o)
    BY <2>2 DEF Realign, AuditRestore, AtPointer, Go, OthersKeep, IInv, TypeOK
  <2>3. CASE Restore(o) \/ (\E d \in Deps : Inspect(o, d)) \/ Verify(o)
    BY <2>3 DEF Restore, Inspect, Verify, Go, OthersKeep, IInv, TypeOK
  <2>4. CASE AuditOutcome(o)
    BY <2>4 DEF AuditOutcome, Rest, Go, OthersKeep, IInv, TypeOK
  <2> QED BY <2>1, <2>2, <2>3, <2>4 DEF Step
<1>4. ASSUME Flip(o) PROVE RowsKeep(j) /\ rollbacks'[j].status = row.status
  <2> DEFINE r == [row EXCEPT
                     !.demoted = Damaging({e \in Deps \ {Target(o)} : status[e] = "active"}),
                     !.version = version + 1]
  <2>1. /\ version + 1 \in Nat
        /\ Damaging({e \in Deps \ {Target(o)} : status[e] = "active"}) \in SUBSET Deps
    BY DEF IInv, TypeOK, Routing!TypeOK, Damaging
  <2>2. r \in Row /\ r.to = row.to /\ r.shared = row.shared /\ r.status = row.status
    BY <1>2, <2>1 DEF Row
  <2>3. rollbacks' = [rollbacks EXCEPT ![j] = r]
    BY <1>4 DEF Flip
  <2> HIDE DEF r
  <2> QED BY <1>2, <2>2, <2>3, OneRowKeeps
<1>5. ASSUME NEW s \in RollbackStatus, SetStatus(o, s) PROVE RowsKeep(j) /\ rollbacks'[j].status = s
  <2> DEFINE r == [row EXCEPT !.status = s]
  <2>1. r \in Row /\ r.to = row.to /\ r.shared = row.shared /\ r.status = s
    BY <1>2 DEF Row
  <2>2. rollbacks' = [rollbacks EXCEPT ![j] = r]
    BY <1>5 DEF SetStatus
  <2> HIDE DEF r
  <2> QED BY <1>2, <2>1, <2>2, OneRowKeeps
<1>6. ASSUME MarkFlipped(o) PROVE RowsKeep(j) /\ rollbacks'[j].status = "routing_flipped"
  BY <1>5, <1>6 DEF MarkFlipped, RollbackStatus, Resumable
<1>7. ASSUME Realign(o) PROVE RowsKeep(j) /\ rollbacks'[j].status = "state_realigning"
  BY <1>5, <1>7 DEF Realign, RollbackStatus, Resumable
<1>8. ASSUME Outcome(o)
      PROVE  /\ RowsKeep(j) /\ rollbacks'[j].status \in Final
             /\ rollbacks'[j].unroll = unroll[o]
  <2> DEFINE s == IF unroll[o] = {} THEN "completed" ELSE "compensating"
             r == [row EXCEPT !.status = s, !.unroll = unroll[o]]
  <2>1. s \in RollbackStatus /\ s \in Final
    BY DEF RollbackStatus, Final
  <2>2. r \in Row /\ r.to = row.to /\ r.shared = row.shared /\ r.status = s /\ r.unroll = unroll[o]
    BY <1>2, <2>1, LocalType DEF Row
  <2>3. rollbacks' = [rollbacks EXCEPT ![j] = r]
    BY <1>8 DEF Outcome
  <2> HIDE DEF r, s
  <2> QED BY <1>2, <2>1, <2>2, <2>3, OneRowKeeps
<1>9. ASSUME AuditFlip(o) \/ Restore(o) \/ AuditRestore(o) \/ (\E d \in Deps : Inspect(o, d))
             \/ Verify(o) \/ AuditOutcome(o)
      PROVE  RowsKeep(j)
  BY <1>9, SameRowsKeep DEF AuditFlip, Restore, AuditRestore, Inspect, Verify, AuditOutcome
<1>10. RowsKeep(j)
  BY <1>4, <1>6, <1>7, <1>8, <1>9 DEF Step
<1> QED BY <1>1, <1>2, <1>3, <1>4, <1>6, <1>7, <1>8, <1>10

\* Each step leaves a row that has one process in a status that fits where the process is.
LEMMA StepOwned == ASSUME IInv, RowsAreOwned, NEW o \in Orchs, Step(o) PROVE RowsAreOwned'
<1> DEFINE s == rollbacks[job[o]].status
           t == rollbacks'[job[o]].status
           one == ~ rollbacks[job[o]].shared
<1>1. /\ pc[o] # "idle" /\ job[o] \in Ids
      /\ OthersKeep(o) /\ RowsKeep(job[o])
      /\ pc'[o] # "idle" => job'[o] = job[o]
  BY StepRow
<1>2. one => s \in StatusAt[pc[o]]
  BY <1>1 DEF RowsAreOwned
<1>3. ASSUME pc'[o] # "idle", one PROVE t \in StatusAt[pc'[o]]
  <2>1. CASE Flip(o)
    <3>1. pc[o] = "flip" /\ pc'[o] = "mark" /\ t = s
      BY <2>1, StepRow DEF Flip, Go, IInv, TypeOK
    <3> QED BY <1>2, <1>3, <3>1 DEF StatusAt
  <2>2. CASE MarkFlipped(o)
    <3>1. pc'[o] = "audit_flip" /\ t = "routing_flipped"
      BY <2>2, StepRow DEF MarkFlipped, Go, IInv, TypeOK
    <3> QED BY <3>1 DEF StatusAt
  <2>3. CASE AuditFlip(o)
    <3>1. pc[o] = "audit_flip" /\ pc'[o] = "realign" /\ t = s
      BY <2>3 DEF AuditFlip, Go, IInv, TypeOK
    <3> QED BY <1>2, <1>3, <3>1 DEF StatusAt, Resumable
  <2>4. CASE Realign(o)
    <3>1. pc'[o] \in {"restore", "inspect"} /\ t = "state_realigning"
      BY <2>4, StepRow DEF Realign, AtPointer, Go, IInv, TypeOK
    <3> QED BY <3>1 DEF StatusAt
  <2>5. CASE Restore(o) \/ AuditRestore(o)
    <3>1. /\ pc[o] \in {"restore", "audit_restore"} /\ t = s
          /\ pc'[o] \in {"restore", "audit_restore", "inspect"}
      BY <2>5 DEF Restore, AuditRestore, AtPointer, Go, IInv, TypeOK
    <3> QED BY <1>2, <1>3, <3>1 DEF StatusAt
  <2>6. CASE (\E d \in Deps : Inspect(o, d)) \/ Verify(o)
    <3>1. pc[o] = "inspect" /\ pc'[o] = "inspect" /\ t = s
      BY <2>6 DEF Inspect, Verify, IInv, TypeOK
    <3> QED BY <1>2, <1>3, <3>1 DEF StatusAt
  <2>7. CASE Outcome(o)
    <3>1. pc'[o] = "audit_outcome" /\ t \in Final
      BY <2>7, StepRow DEF Outcome, Go, IInv, TypeOK
    <3> QED BY <3>1 DEF StatusAt
  <2>8. CASE AuditOutcome(o)
    BY <1>3, <2>8 DEF AuditOutcome, Rest, Go, IInv, TypeOK
  <2> QED BY <2>1, <2>2, <2>3, <2>4, <2>5, <2>6, <2>7, <2>8 DEF Step
<1> QED BY <1>1, <1>3, OwnedStep

\* While no row is shared, a step of an open call leaves a split of the stores answered.
LEMMA StepAnswered ==
  ASSUME SplitInv, NEW o \in Orchs, Step(o), \A i \in Ids : ~ rollbacks[i].shared
  PROVE  vector' = memory' \/ \E i \in Ids : Answers(i)'
<1> DEFINE j == job[o]
<1>1. /\ pc[o] # "idle" /\ j \in Ids /\ OthersKeep(o) /\ RowsKeep(j)
      /\ rollbacks[j].status \in StatusAt[pc[o]] /\ ~ rollbacks[j].shared
      /\ Target(o) = rollbacks[j].to /\ rollbacks'[j].to = Target(o) /\ Target(o) \in Deps
  BY StepRow, OpenCall DEF SplitInv, IInv, RowsAreOwned, RowsKeep, Target
<1>2. ASSUME UNCHANGED <<vector, memory>>, vector # memory,
             \A i \in Ids : Answers(i) /\ i = j => Answers(i)'
      PROVE  \E i \in Ids : Answers(i)'
  <2>1. PICK i \in Ids : Answers(i)
    BY <1>2 DEF SplitInv, SplitIsAnswered
  <2>2. CASE i = j
    BY <1>2, <2>1, <2>2
  <2>3. CASE i # j
    <3>1. /\ rollbacks'[i].to = rollbacks[i].to /\ rollbacks'[i].status = rollbacks[i].status
          /\ rollbacks'[i].unroll = rollbacks[i].unroll
      BY <1>1, <2>3 DEF RowsKeep
    <3>2. pc'[o] = "inspect" => job'[o] # i
      BY <2>3, StepRow DEF SplitInv
    <3> QED BY <1>1, <1>2, <2>1, <3>1, <3>2, AnswersElsewhere
  <2> QED BY <2>2, <2>3
<1>3. ASSUME rollbacks'[j].status = "state_realigning", Reversible \subseteq Range(Manifest(o)),
             pc'[o] = "inspect" => WillSeeDrift(o)'
      PROVE  \A i \in Ids : i = j => Answers(i)'
  BY <1>1, <1>3, AnswersStill DEF SplitInv
<1>4. ASSUME NEW i \in Ids, Answers(i), i = j, rollbacks[j].status \notin Final
      PROVE  /\ rollbacks[j].status = "state_realigning" /\ Reversible \subseteq Range(Manifest(o))
             /\ pc[o] = "inspect" => WillSeeDrift(o)
  BY <1>1, <1>4 DEF Answers, Manifest
<1>5. CASE Flip(o) \/ MarkFlipped(o) \/ AuditFlip(o)
  <2>1. pc[o] \in {"flip", "mark", "audit_flip"} /\ UNCHANGED <<vector, memory>>
    BY <1>5 DEF Flip, MarkFlipped, AuditFlip, stores
  <2>2. rollbacks[j].status \in {"initiated", "routing_flipped"}
    BY <1>1, <2>1 DEF StatusAt
  <2>3. \A i \in Ids : ~ (Answers(i) /\ i = j)
    BY <1>4, <2>2 DEF Final
  <2> QED BY <1>2, <2>1, <2>3
<1>6. CASE Realign(o)
  <2>1. rollbacks'[j].status = "state_realigning" /\ UNCHANGED <<vector, memory>>
    BY <1>6, StepRow DEF Realign, stores, SplitInv
  <2>2. rollbacks[j].status \notin Final
    BY <1>1, <1>6 DEF Realign, StatusAt, Resumable, Final
  <2>3. ASSUME NEW i \in Ids, Answers(i), i = j PROVE Answers(i)'
    <3>1. Reversible \subseteq Range(Manifest(o))
      BY <1>4, <2>2, <2>3
    <3>2. pc'[o] = "restore"
      <4>1. Range(Manifest(o)) # {}
        BY <3>1 DEF Reversible
      <4>2. Len(Manifest(o)) \in Nat /\ DOMAIN Manifest(o) = 1..Len(Manifest(o))
        BY <1>1, ManifestType, LenProperties DEF Manifest
      <4>3. 1 <= Len(Manifest(o))
        BY <4>1, <4>2 DEF Range
      <4> QED BY <1>6, <4>3 DEF Realign, AtPointer, Go, SplitInv, IInv, TypeOK
    <3> QED BY <1>3, <2>1, <2>3, <3>1, <3>2
  <2> QED BY <1>2, <2>1, <2>3
<1>7. CASE Restore(o)
  <2>1. /\ pc[o] = "restore" /\ pc'[o] = "audit_restore" /\ rollbacks' = rollbacks
        /\ rollbacks[j].status = "state_realigning"
    BY <1>1, <1>7 DEF Restore, Go, StatusAt, SplitInv, IInv, TypeOK
  <2>2. CASE Manifest(o)[next[o]] \in Reversible
    <3>1. next[o] \in 1..Len(Manifest(o)) /\ DOMAIN Manifest(o) = 1..Len(Manifest(o))
      BY <1>1, <2>1, ManifestType, LenProperties DEF SplitInv, IInv, TypeOK, Manifest, Target
    <3>2. \/ "vector_store" \in Range(Manifest(o))
          \/ "memory_graph" \in Range(Manifest(o))
      BY <2>2, <3>1 DEF Range, Reversible
    <3>3. Reversible \subseteq Range(Manifest(o))
      BY <1>1, <3>2, ConstantsAssumption DEF Reversible, Manifest
    <3>4. \A i \in Ids : i = j => Answers(i)'
      BY <1>3, <2>1, <3>3
    <3> QED BY <1>1, <3>4
  <2>3. CASE Manifest(o)[next[o]] \notin Reversible
    <3>1. UNCHANGED <<vector, memory>>
      BY <1>7, <2>3 DEF Restore, Reversible
    <3>2. \A i \in Ids : Answers(i) /\ i = j => Answers(i)'
      BY <1>3, <1>4, <2>1 DEF Final
    <3> QED BY <1>2, <3>1, <3>2
  <2> QED BY <2>2, <2>3
<1>8. CASE AuditRestore(o)
  <2>1. /\ pc[o] = "audit_restore" /\ UNCHANGED <<vector, memory, rollbacks, job>>
        /\ rollbacks[j].status = "state_realigning"
    BY <1>1, <1>8 DEF AuditRestore, stores, StatusAt
  <2>2. ASSUME NEW i \in Ids, Answers(i), i = j, vector # memory PROVE Answers(i)'
    <3>1. Reversible \subseteq Range(Manifest(o))
      BY <1>4, <2>1, <2>2 DEF Final
    <3>2. PICK c \in Reversible : ~ At(o)[c]
      BY <2>2 DEF At, Reversible
    <3>3. DOMAIN Manifest(o) = 1..Len(Manifest(o))
      BY <1>1, ManifestType, LenProperties DEF Manifest
    <3>4. PICK k \in 1..Len(Manifest(o)) : Manifest(o)[k] = c
      BY <3>1, <3>3 DEF Range
    <3>5. At(o)' = At(o) /\ Manifest(o)' = Manifest(o)
      BY <2>1 DEF At, Manifest, Target
    <3>6. pc'[o] = "inspect" => next'[o] = 1
      BY <1>8, <2>1 DEF AuditRestore, AtPointer, Go, SplitInv, IInv, TypeOK
    <3>7. pc'[o] = "inspect" => WillSeeDrift(o)'
      BY <3>2, <3>4, <3>5, <3>6 DEF WillSeeDrift
    <3> QED BY <1>3, <2>1, <2>2, <3>1, <3>7
  <2> QED BY <1>2, <2>1, <2>2
<1>9. CASE (\E d \in Deps : Inspect(o, d)) \/ Verify(o)
  <2>1. /\ pc[o] = "inspect" /\ pc'[o] = "inspect"
        /\ UNCHANGED <<vector, memory, rollbacks, job>>
        /\ rollbacks[j].status = "state_realigning"
    BY <1>1, <1>9 DEF Inspect, Verify, stores, StatusAt
  <2>2. At(o)' = At(o) /\ Manifest(o)' = Manifest(o)
    BY <2>1 DEF At, Manifest, Target
  <2>3. ASSUME NEW i \in Ids, Answers(i), i = j PROVE Answers(i)'
    <3>1. Reversible \subseteq Range(Manifest(o)) /\ WillSeeDrift(o)
      BY <1>4, <2>1, <2>3 DEF Final
    <3>2. WillSeeDrift(o)'
      <4>1. CASE \E d \in Deps : Inspect(o, d)
        <5>1. unroll[o] \subseteq unroll'[o] /\ next' = next
          BY <4>1 DEF Inspect, SplitInv, IInv, TypeOK
        <5> QED BY <2>2, <3>1, <5>1 DEF WillSeeDrift, Admits
      <4>2. CASE Verify(o)
        <5> DEFINE class == Manifest(o)[next[o]]
        <5>1. /\ next'[o] = next[o] + 1 /\ next[o] \in Nat
              /\ unroll'[o] = IF At(o)[class] THEN unroll[o]
                              ELSE unroll[o] \cup {<<class, Target(o)>>}
          BY <4>2 DEF Verify, SplitInv, IInv, TypeOK
        <5>2. Len(Manifest(o)) \in Nat
          BY <1>1, ManifestType DEF Manifest
        <5>3. CASE Admits(unroll[o])
          BY <5>1, <5>3 DEF WillSeeDrift, Admits
        <5>4. CASE ~ At(o)[class]
          <6>1. class \in Reversible
            <7>1. next[o] \in 1..Len(Manifest(o))
              <8>1. next[o] \in Nat \ {0} /\ next[o] <= Len(Manifest(o))
                BY <4>2, LocalType DEF Verify, SplitInv
              <8> QED BY <5>2, <8>1
            <7>2. class \in Classes
              BY <1>1, <7>1, ManifestType DEF Manifest
            <7> QED BY <5>4, <7>2 DEF At, Classes, Reversible
          <6>2. <<class, Target(o)>> \in unroll'[o] /\ <<class, Target(o)>>[1] \in Reversible
            BY <5>1, <5>4, <6>1
          <6> QED BY <6>2 DEF WillSeeDrift, Admits
        <5>5. CASE At(o)[class] /\ ~ Admits(unroll[o])
          <6>1. PICK k \in next[o]..Len(Manifest(o)) : ~ At(o)[Manifest(o)[k]]
            BY <3>1, <5>5 DEF WillSeeDrift
          <6>2. k \in next'[o]..Len(Manifest(o))
            BY <5>1, <5>2, <5>5, <6>1
          <6> QED BY <2>2, <6>1, <6>2 DEF WillSeeDrift
        <5> QED BY <5>3, <5>4, <5>5
      <4> QED BY <1>9, <4>1, <4>2
    <3> QED BY <1>3, <2>1, <2>3, <3>1, <3>2
  <2> QED BY <1>2, <2>1, <2>3
<1>10. CASE Outcome(o)
  <2>1. /\ pc[o] = "inspect" /\ UNCHANGED <<vector, memory>>
        /\ rollbacks[j].status = "state_realigning" /\ next[o] > Len(Manifest(o))
    BY <1>1, <1>10 DEF Outcome, stores, StatusAt
  <2>2. ASSUME NEW i \in Ids, Answers(i), i = j PROVE Answers(i)'
    <3>1. WillSeeDrift(o)
      BY <1>4, <2>1, <2>2 DEF Final
    <3>2. Len(Manifest(o)) \in Nat /\ next[o] \in Nat
      BY <1>1, ManifestType, LocalType DEF Manifest, SplitInv
    <3>3. Admits(unroll[o])
      BY <2>1, <3>1, <3>2 DEF WillSeeDrift
    <3>4. rollbacks'[i].status \in Final /\ rollbacks'[i].unroll = unroll[o]
      BY <1>10, <2>2, StepRow DEF SplitInv
    <3> QED BY <3>3, <3>4 DEF Answers, Admits
  <2> QED BY <1>2, <2>1, <2>2
<1>11. CASE AuditOutcome(o)
  <2>1. /\ pc[o] = "audit_outcome" /\ pc'[o] = "idle" /\ UNCHANGED <<vector, memory, rollbacks>>
    BY <1>11 DEF AuditOutcome, Rest, Go, stores, SplitInv, IInv, TypeOK
  <2>2. ASSUME NEW i \in Ids, Answers(i), i = j PROVE Answers(i)'
    BY <1>1, <2>1, <2>2, AnswersElsewhere
  <2> QED BY <1>2, <2>1, <2>2
<1> QED BY <1>5, <1>6, <1>7, <1>8, <1>9, <1>10, <1>11 DEF Step

\* The other steps: a crash, a resume, a new rollback, and the rest of the control plane.
LEMMA CrashSplit ==
  ASSUME SplitInv, NEW o \in Orchs, Crash(o) PROVE RowsAreOwned' /\ SplitIsAnswered'
<1>1. /\ pc[o] # "idle" /\ pc'[o] = "idle" /\ UNCHANGED <<vector, memory, rollbacks>>
      /\ OthersKeep(o) /\ RowsKeep(job[o])
  BY SameRowsKeep DEF Crash, Rest, Go, stores, OthersKeep, SplitInv, IInv, TypeOK
<1>2. RowsAreOwned'
  BY <1>1, OwnedStep DEF SplitInv
<1>3. Ids' = Ids
  BY <1>1 DEF Ids
<1>4. \A i \in Ids : Answers(i) => Answers(i)'
  BY <1>1, AnswersElsewhere
<1> QED BY <1>1, <1>2, <1>3, <1>4 DEF SplitInv, SplitIsAnswered

LEMMA ResumeSplit ==
  ASSUME SplitInv, NEW o \in Orchs, NEW i \in Ids, Resume(o, i)
  PROVE  RowsAreOwned' /\ SplitIsAnswered'
<1> DEFINE b == rollbacks[i].shared \/ OpenElsewhere(o, i)
           r == [rollbacks[i] EXCEPT !.shared = b]
<1>1. rollbacks[i] \in Row /\ b \in BOOLEAN
  BY ElementOfSeq DEF SplitInv, IInv, TypeOK, Ids, OpenElsewhere, Row
<1>2. /\ r \in Row /\ r.to = rollbacks[i].to /\ r.status = rollbacks[i].status
      /\ r.unroll = rollbacks[i].unroll /\ r.shared = b
  <2> HIDE DEF b
  <2> QED BY <1>1 DEF Row
<1>3. rollbacks' = [rollbacks EXCEPT ![i] = r]
  BY DEF Resume
<1> HIDE DEF r
<1>4. /\ Len(rollbacks') = Len(rollbacks)
      /\ \A k \in Ids : rollbacks'[k] = IF k = i THEN r ELSE rollbacks[k]
  BY <1>2, <1>3, WriteRow DEF SplitInv, IInv, TypeOK, Ids
<1>5. /\ pc[o] = "idle" /\ pc'[o] = "realign" /\ job'[o] = i /\ OthersKeep(o)
      /\ UNCHANGED <<vector, memory>> /\ rollbacks[i].status \in Resumable
  BY DEF Resume, Go, stores, OthersKeep, SplitInv, IInv, TypeOK
<1>6. Ids' = Ids
  BY <1>4 DEF Ids
<1>7. RowsAreOwned'
  <2> SUFFICES ASSUME NEW p \in Orchs, pc'[p] # "idle", ~ rollbacks'[job'[p]].shared
               PROVE  /\ rollbacks'[job'[p]].status \in StatusAt[pc'[p]]
                      /\ \A q \in Orchs \ {p} : pc'[q] # "idle" => job'[q] # job'[p]
    BY DEF RowsAreOwned, StatusAt
  <2>1. CASE p = o
    <3>1. ~ OpenElsewhere(o, i) /\ rollbacks'[i].status \in Resumable
      BY <1>2, <1>4, <1>5, <2>1
    <3>2. \A q \in Orchs \ {o} : pc'[q] # "idle" => job'[q] # i
      BY <1>5, <3>1 DEF OthersKeep, OpenElsewhere
    <3> QED BY <1>5, <2>1, <3>1, <3>2 DEF StatusAt
  <2>2. CASE p # o
    <3>1. pc[p] # "idle" /\ job'[p] = job[p] /\ pc'[p] = pc[p] /\ job[p] \in Ids
      BY <1>5, <2>2, OpenCall DEF OthersKeep, SplitInv, IInv
    <3>2. job[p] # i
      BY <1>2, <1>4, <2>2, <3>1 DEF OpenElsewhere
    <3>3. rollbacks'[job'[p]] = rollbacks[job[p]] /\ ~ rollbacks[job[p]].shared
      BY <1>4, <3>1, <3>2
    <3>4. /\ rollbacks[job[p]].status \in StatusAt[pc[p]]
          /\ \A q \in Orchs \ {p} : pc[q] # "idle" => job[q] # job[p]
      BY <3>1, <3>3 DEF SplitInv, RowsAreOwned
    <3>5. \A q \in Orchs \ {p} : pc'[q] # "idle" => job'[q] # job'[p]
      BY <1>5, <3>1, <3>2, <3>4 DEF OthersKeep
    <3> QED BY <3>1, <3>3, <3>4, <3>5
  <2> QED BY <2>1, <2>2
<1>8. SplitIsAnswered'
  <2>1. \A k \in Ids : rollbacks[k].shared => rollbacks'[k].shared
    BY <1>2, <1>4
  <2>2. ASSUME NEW k \in Ids, Answers(k) PROVE Answers(k)'
    <3>1. /\ rollbacks'[k].to = rollbacks[k].to /\ rollbacks'[k].status = rollbacks[k].status
          /\ rollbacks'[k].unroll = rollbacks[k].unroll
      BY <1>2, <1>4
    <3> QED BY <1>5, <2>2, <3>1, AnswersElsewhere
  <2> QED BY <1>5, <1>6, <2>1, <2>2 DEF SplitInv, SplitIsAnswered
<1> QED BY <1>7, <1>8

LEMMA InitiateSplit ==
  ASSUME SplitInv, NEW o \in Orchs, NEW d \in Deps, Initiate(o, d)
  PROVE  RowsAreOwned' /\ SplitIsAnswered'
<1> DEFINE n == Len(rollbacks) + 1
           from == {e \in Deps : status[e] = "active"} \ {d}
           row == [to |-> d, from |-> from, status |-> "initiated", unroll |-> {},
                   owed |-> Damaging(from), demoted |-> {}, version |-> 0, shared |-> FALSE]
<1>1. row \in Row /\ rollbacks' = Append(rollbacks, row)
  BY DEF Row, RollbackStatus, Damaging, Initiate
<1>2. /\ Len(rollbacks) \in Nat /\ Len(rollbacks') = n
      /\ \A i \in Ids : rollbacks'[i] = rollbacks[i]
      /\ rollbacks'[n] = row
  BY <1>1, AppendProperties, LenProperties DEF SplitInv, IInv, TypeOK, Ids
<1>3. row.status = "initiated" /\ ~ row.shared
  OBVIOUS
<1>4. n \notin Ids /\ Ids' = Ids \cup {n}
  BY <1>2 DEF Ids
<1>5. /\ pc[o] = "idle" /\ pc'[o] = "flip" /\ job'[o] = n /\ OthersKeep(o)
      /\ UNCHANGED <<vector, memory>>
  BY DEF Initiate, Go, stores, OthersKeep, SplitInv, IInv, TypeOK
<1>6. \A q \in Orchs \ {o} : pc'[q] # "idle" =>
        /\ pc[q] = pc'[q] /\ job'[q] = job[q] /\ job[q] \in Ids
        /\ rollbacks'[job'[q]] = rollbacks[job[q]]
  BY <1>2, <1>5, OpenCall DEF OthersKeep, SplitInv, IInv
<1> HIDE DEF n, row
<1>7. RowsAreOwned'
  <2> SUFFICES ASSUME NEW p \in Orchs, pc'[p] # "idle", ~ rollbacks'[job'[p]].shared
               PROVE  /\ rollbacks'[job'[p]].status \in StatusAt[pc'[p]]
                      /\ \A q \in Orchs \ {p} : pc'[q] # "idle" => job'[q] # job'[p]
    BY DEF RowsAreOwned, StatusAt
  <2>1. CASE p = o
    BY <1>2, <1>3, <1>4, <1>5, <1>6, <2>1 DEF StatusAt
  <2>2. CASE p # o
    <3>1. pc[p] = pc'[p] /\ job'[p] = job[p] /\ job[p] \in Ids
          /\ rollbacks'[job'[p]] = rollbacks[job[p]]
      BY <1>6, <2>2
    <3>2. /\ rollbacks[job[p]].status \in StatusAt[pc[p]]
          /\ \A q \in Orchs \ {p} : pc[q] # "idle" => job[q] # job[p]
      BY <3>1 DEF SplitInv, RowsAreOwned
    <3>3. \A q \in Orchs \ {p} : pc'[q] # "idle" => job'[q] # job'[p]
      BY <1>4, <1>5, <1>6, <3>1, <3>2
    <3> QED BY <3>1, <3>2, <3>3
  <2> QED BY <2>1, <2>2
<1>8. \A i \in Ids : Answers(i) => Answers(i)'
  <2>1. ASSUME NEW i \in Ids, Answers(i) PROVE Answers(i)'
    <3>1. rollbacks'[i] = rollbacks[i]
      BY <1>2
    <3> QED BY <1>5, <2>1, <3>1, AnswersElsewhere
  <2> QED BY <2>1
<1>9. \A i \in Ids : rollbacks[i].shared => rollbacks'[i].shared
  BY <1>2
<1>10. SplitIsAnswered'
  BY <1>4, <1>5, <1>8, <1>9 DEF SplitInv, SplitIsAnswered
<1> QED BY <1>7, <1>10

LEMMA OthersSplit ==
  ASSUME SplitInv, UNCHANGED <<stores, rollbacks, pc, local>>
  PROVE  RowsAreOwned' /\ SplitIsAnswered'
<1>1. RowsAreOwned'
  BY DEF SplitInv, RowsAreOwned, local
<1>2. Ids' = Ids /\ UNCHANGED <<vector, memory>>
  BY DEF Ids, stores
<1>3. \A q \in Orchs : WillSeeDrift(q)' <=> WillSeeDrift(q)
  BY <1>2 DEF WillSeeDrift, Admits, At, Manifest, Target, local
<1>4. \A i \in Ids : Answers(i)' <=> Answers(i)
  BY <1>3 DEF Answers, Admits, local
<1> QED BY <1>1, <1>2, <1>4 DEF SplitInv, SplitIsAnswered

LEMMA StepSplit == ASSUME SplitInv, NEW o \in Orchs, Step(o) PROVE RowsAreOwned' /\ SplitIsAnswered'
<1>1. Ids' = Ids /\ \A i \in Ids : rollbacks'[i].shared = rollbacks[i].shared
  BY StepRow DEF SplitInv, RowsKeep
<1>2. SplitIsAnswered'
  BY <1>1, StepAnswered DEF SplitIsAnswered
<1> QED BY <1>2, StepOwned DEF SplitInv

LEMMA SplitInvariance == Spec => []SplitInv
<1>1. Init => SplitInv
  BY InitInv DEF Init, SplitInv, RowsAreOwned, SplitIsAnswered
<1>2. SplitInv /\ IInv' /\ [Next]_vars => SplitInv'
  <2> SUFFICES ASSUME SplitInv, [Next]_vars PROVE RowsAreOwned' /\ SplitIsAnswered'
    BY DEF SplitInv
  <2>1. ASSUME NEW o \in Orchs, NEW d \in Deps, Initiate(o, d)
        PROVE  RowsAreOwned' /\ SplitIsAnswered'
    BY <2>1, InitiateSplit
  <2>2. ASSUME NEW o \in Orchs, Step(o) \/ Crash(o) \/ SomeResume(o)
        PROVE  RowsAreOwned' /\ SplitIsAnswered'
    BY <2>2, StepSplit, CrashSplit, ResumeSplit DEF SomeResume
  <2>3. ASSUME NEW d \in Deps, Canary(d) \/ Deploy(d) \/ Push(d) \/ Seal(d)
        PROVE  RowsAreOwned' /\ SplitIsAnswered'
    BY <2>3, OthersSplit DEF Canary, Deploy, Push, Seal
  <2>4. CASE UNCHANGED vars
    BY <2>4, OthersSplit DEF vars
  <2> QED BY <2>1, <2>2, <2>3, <2>4 DEF Next
<1> QED BY <1>1, <1>2, Invariance, PTL DEF Spec

\* However many operators and crashes, and whatever order their restores come in: once
\* no rollback is left to resume, and none was resumed while it was still running, two
\* stores at different deployments are listed as drift by the outcome of some rollback.
THEOREM SplitIsOwned == Spec => []SplitStateIsOwned
<1>1. SplitInv => SplitStateIsOwned
  BY DEF SplitInv, SplitIsAnswered, SplitStateIsOwned, Answers, Resumable
<1> QED BY <1>1, SplitInvariance, PTL
=============================================================================
