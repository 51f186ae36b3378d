--------------------------- MODULE RouteCacheProofs ---------------------------
(***************************************************************************)
(* The gateways' copies of the routing table, for any number of gateways,  *)
(* deployments, routing changes and failures: a copy is an installed       *)
(* table and never an older one than before, unless its result broke off.  *)
(***************************************************************************)
EXTENDS RouteCache, SequenceTheorems, TLAPS

LEMMA FullToType == \A d \in Deps : FullTo(d) \in Table
  BY DEF FullTo, Table, Full

\* The instance of AtomicRouting speaks of the same tables and statuses.
LEMMA SameData == /\ Routing!Table = Table
                  /\ Routing!Status = Status
                  /\ \A d \in Deps : Routing!FullTo(d) = FullTo(d)
  BY DEF Routing!Table, Table, Routing!Full, Full, Routing!Status, Status, Routing!FullTo, FullTo

\* What is live is a snapshot, and a part of a table is a table.
LEMMA LiveType == ASSUME TypeOK PROVE Live \in Snapshot
  BY SameData DEF TypeOK, Routing!TypeOK, Live, Snapshot

LEMMA KeptType == ASSUME NEW t \in Table, NEW S \in SUBSET Deps PROVE Kept(t, S) \in Table
<1>1. t.weight \in [Deps -> 0..Full] /\ t.shadow \cap S \subseteq Deps
  BY DEF Table
<1>2. 0 \in 0..Full
  BY DEF Full
<1>3. [d \in Deps |-> IF d \in S THEN t.weight[d] ELSE 0] \in [Deps -> 0..Full]
  BY <1>1, <1>2
<1> QED BY <1>1, <1>3 DEF Kept, Table

LEMMA InitInv == Init => IInv
<1> SUFFICES ASSUME Init PROVE IInv
  OBVIOUS
<1> USE EmptySeq
<1>1. version = 0 /\ table = NoTable /\ tables = <<>> /\ Len(tables) = 0
  BY DEF Init, Routing!Init
<1>2. Live \in Snapshot /\ Live.version = 0 /\ Live.table = NoTable
  BY <1>1 DEF Live, Snapshot
<1>3. Routing!TypeOK
  BY <1>1 DEF Init, Routing!TypeOK, Routing!Status
<1>4. TypeOK
  BY <1>1, <1>2, <1>3 DEF Init, TypeOK
<1>5. HistoryIsComplete /\ ReadWasLive /\ NeverTorn
  BY <1>1, <1>2 DEF Init, HistoryIsComplete, ReadWasLive, NeverTorn, TableAt
<1> QED BY <1>4, <1>5 DEF IInv

-----------------------------------------------------------------------------
(* One lemma per kind of step. *)

\* A routing change appends to the history and leaves every copy alone.
LEMMA ChangedInv ==
  ASSUME IInv, NEW d \in Deps, Routing!Flip(d) \/ Routing!InstallCanary(d), Changed
  PROVE  IInv'
<1> USE DEF IInv
<1>1. table' \in Table /\ version' = version + 1
  BY FullToType, SameData DEF Routing!Flip, Routing!InstallCanary
<1>2. status' \in [Deps -> Status]
  BY SameData DEF TypeOK, Routing!TypeOK, Routing!Flip, Routing!Flipped, Routing!InstallCanary, Status
<1>3. Routing!TypeOK'
  BY <1>1, <1>2, SameData DEF TypeOK, Routing!TypeOK
<1>4. /\ tables' \in Seq(Table) /\ Len(tables') = Len(tables) + 1
      /\ \A v \in 1..Len(tables) : tables'[v] = tables[v]
      /\ tables'[Len(tables) + 1] = table'
  BY <1>1, AppendProperties DEF Changed, TypeOK
<1>5. version \in Nat /\ version = Len(tables)
  BY DEF TypeOK, Routing!TypeOK, HistoryIsComplete
<1>6. TypeOK'
  BY <1>3, <1>4 DEF TypeOK, Changed, Notify
<1>7. HistoryIsComplete'
  BY <1>1, <1>4, <1>5 DEF HistoryIsComplete, TableAt
<1>8. \A v \in 0..version : TableAt(v)' = TableAt(v)
  BY <1>4, <1>5 DEF TableAt
<1>9. \A g \in Gateways : /\ got[g].version \in 0..version
                          /\ cache[g].version \in 0..version
  BY <1>5 DEF ReadWasLive
<1>10. ReadWasLive'
  BY <1>1, <1>5, <1>8, <1>9 DEF ReadWasLive, Changed
<1>11. NeverTorn'
  BY <1>8, <1>9 DEF NeverTorn, Changed
<1> QED BY <1>6, <1>7, <1>10, <1>11

\* A step that only moves connections and labels.
LEMMA ControlInv ==
  ASSUME IInv, TypeOK', UNCHANGED <<routing, got, cache, broken>>
  PROVE  IInv'
  BY DEF IInv, routing, HistoryIsComplete, ReadWasLive, NeverTorn, TableAt

LEMMA WatcherInv ==
  ASSUME IInv, NEW g \in Gateways,
         Listen(g) \/ Wake(g) \/ Tick(g) \/ Poll(g) \/ QueryFails(g) \/ Drop(g) \/ Notice(g)
  PROVE  IInv'
<1>1. UNCHANGED <<routing, got, cache, broken, kind, last>>
  BY DEF Listen, Wake, Tick, Poll, QueryFails, Drop, Notice
<1>2. TypeOK
  BY DEF IInv
<1>3. Routing!TypeOK'
  BY <1>1, <1>2 DEF TypeOK, Routing!TypeOK, routing
<1>4. conn' \in [Gateways -> {"down", "up", "lost"}] /\ notes' \in [Gateways -> BOOLEAN]
  BY <1>2 DEF TypeOK, Listen, Wake, Tick, Poll, QueryFails, Drop, Notice, StartOver
<1>5. pc' \in [Gateways -> {"start", "connect", "wait", "poll", "fetch", "store"}]
  BY <1>2 DEF TypeOK, Listen, Listening, Wake, Tick, Poll, QueryFails, Drop, Notice, StartOver, Go
<1>6. failures' \in Nat
  BY <1>2 DEF TypeOK, Listen, Wake, Tick, Poll, QueryFails, Drop, Notice, Failure
<1>7. TypeOK'
  BY <1>1, <1>2, <1>3, <1>4, <1>5, <1>6 DEF TypeOK, routing
<1> QED BY <1>1, <1>7, ControlInv

LEMMA FetchInv == ASSUME IInv, NEW g \in Gateways, Fetch(g) PROVE IInv'
<1> USE DEF IInv
<1>1. UNCHANGED <<routing, kind, conn, notes, cache, last, broken, failures>>
  BY DEF Fetch
<1>2. got' = [got EXCEPT ![g] = Live] /\ Live \in Snapshot
  BY LiveType DEF Fetch
<1>3. TypeOK'
  BY <1>1, <1>2 DEF TypeOK, Routing!TypeOK, routing, Fetch, Go
<1>4. version \in Nat /\ table = TableAt(version)
  BY DEF TypeOK, Routing!TypeOK, HistoryIsComplete
<1>5. \A h \in Gateways : got'[h] = IF h = g THEN Live ELSE got[h]
  BY <1>2 DEF TypeOK
<1>6. ReadWasLive'
  BY <1>1, <1>4, <1>5 DEF ReadWasLive, Live, routing, TableAt
<1>7. HistoryIsComplete' /\ NeverTorn'
  BY <1>1 DEF HistoryIsComplete, NeverTorn, TableAt, routing
<1> QED BY <1>3, <1>6, <1>7

LEMMA StoreInv == ASSUME IInv, NEW g \in Gateways, Store(g) PROVE IInv'
<1> USE DEF IInv
<1>1. UNCHANGED <<routing, kind, conn, notes, got, failures>>
  BY DEF Store
<1>2. got[g] \in Snapshot /\ got[g].version \in Nat
  BY DEF TypeOK, Snapshot
<1>3. /\ cache' \in [Gateways -> Snapshot] /\ last' \in [Gateways -> Nat]
      /\ broken' \in [Gateways -> BOOLEAN]
      /\ \A h \in Gateways : cache'[h] = IF h = g THEN got[h] ELSE cache[h]
      /\ \A h \in Gateways : broken'[h] = IF h = g THEN FALSE ELSE broken[h]
  BY <1>2 DEF Store, TypeOK
<1>4. TypeOK'
  BY <1>1, <1>3 DEF TypeOK, Routing!TypeOK, routing, Store, Go
<1>5. ReadWasLive'
  BY <1>1, <1>2, <1>3 DEF ReadWasLive, routing, TableAt
<1>6. HistoryIsComplete' /\ NeverTorn'
  BY <1>1, <1>3 DEF HistoryIsComplete, ReadWasLive, NeverTorn, TableAt, routing
<1> QED BY <1>4, <1>5, <1>6

LEMMA BreakOffInv == ASSUME IInv, NEW g \in Gateways, BreakOff(g) PROVE IInv'
<1> USE DEF IInv
<1>1. UNCHANGED <<routing, kind, conn, notes, got, last>> /\ got[g].version > 0
  BY DEF BreakOff
<1>2. got[g].table \in Table
  <2>1. got[g].version \in 1..Len(tables) /\ got[g].table = tables[got[g].version]
    BY <1>1 DEF ReadWasLive, HistoryIsComplete, TableAt, TypeOK, Routing!TypeOK
  <2> QED BY <2>1, ElementOfSeq DEF TypeOK
<1>3. PICK S \in SUBSET Rows(got[g].table) :
        cache' = [cache EXCEPT ![g] = [version |-> IF S = {} THEN 0 ELSE got[g].version,
                                      table |-> Kept(got[g].table, S)]]
  BY DEF BreakOff
<1>4. S \in SUBSET Deps
  BY <1>2 DEF Rows, Table
<1>5. Kept(got[g].table, S) \in Table
  BY <1>2, <1>4, KeptType
<1>6. got[g].version \in Nat
  BY DEF TypeOK, Snapshot
<1>7. /\ cache' \in [Gateways -> Snapshot]
      /\ cache'[g].version \in {0, got[g].version}
      /\ \A h \in Gateways \ {g} : cache'[h] = cache[h]
  BY <1>3, <1>5, <1>6 DEF TypeOK, Snapshot
<1>8. /\ broken' \in [Gateways -> BOOLEAN]
      /\ broken'[g] = (cache'[g] # got[g])
      /\ \A h \in Gateways \ {g} : broken'[h] = broken[h]
  BY Zenon DEF BreakOff, TypeOK
<1>9. TypeOK'
  <2>1. failures' \in Nat
    BY DEF BreakOff, Failure, TypeOK
  <2>2. pc' \in [Gateways -> {"start", "connect", "wait", "poll", "fetch", "store"}]
    BY DEF BreakOff, Go, TypeOK
  <2> QED BY <1>1, <1>7, <1>8, <2>1, <2>2 DEF TypeOK, Routing!TypeOK, routing
<1>10. ReadWasLive'
  BY <1>1, <1>6, <1>7 DEF ReadWasLive, routing, TableAt
<1>11. NeverTorn'
  <2> SUFFICES ASSUME NEW h \in Gateways, ~ broken'[h]
               PROVE  (cache[h].table = TableAt(cache[h].version))'
    BY DEF NeverTorn
  <2>1. CASE h = g
    BY <1>1, <1>8, <2>1 DEF ReadWasLive, routing, TableAt
  <2>2. CASE h # g
    BY <1>1, <1>7, <1>8, <2>2 DEF NeverTorn, routing, TableAt
  <2> QED BY <2>1, <2>2
<1>12. HistoryIsComplete'
  BY <1>1 DEF HistoryIsComplete, TableAt, routing
<1> QED BY <1>9, <1>10, <1>11, <1>12

LEMMA OtherProjectInv == ASSUME IInv, OtherProject PROVE IInv'
<1>1. TypeOK'
  BY DEF IInv, OtherProject, Notify, TypeOK, Routing!TypeOK, routing
<1> QED BY <1>1, ControlInv DEF OtherProject

LEMMA NextInv == ASSUME IInv, [Next]_vars PROVE IInv'
<1>1. ASSUME NEW d \in Deps, Deploy(d) \/ Canary(d) PROVE IInv'
  BY <1>1, ChangedInv DEF Deploy, Canary
<1>2. CASE OtherProject
  BY <1>2, OtherProjectInv
<1>3. ASSUME NEW g \in Gateways,
             Step(g) \/ QueryFails(g) \/ BreakOff(g) \/ Drop(g) \/ Notice(g)
      PROVE  IInv'
  BY <1>3, WatcherInv, FetchInv, StoreInv, BreakOffInv DEF Step
<1>4. CASE UNCHANGED vars
  <2>1. TypeOK'
    BY <1>4 DEF IInv, vars, routing, watcher, TypeOK, Routing!TypeOK
  <2> QED BY <1>4, <2>1, ControlInv DEF vars, watcher
<1> QED BY <1>1, <1>2, <1>3, <1>4 DEF Next

-----------------------------------------------------------------------------
(* The theorems. *)

\* Every reachable state of the gateways and the database is well typed.
THEOREM CacheTypeCorrect == Spec => []TypeOK
<1>1. IInv => TypeOK
  BY DEF IInv
<1> QED BY InitInv, NextInv, <1>1, PTL DEF Spec

\* No gateway routes by a mixture of tables: a copy whose result did not break off is the
\* table that was installed under its version.
THEOREM NotTorn == Spec => []NeverTorn
<1>1. IInv => NeverTorn
  BY DEF IInv
<1> QED BY InitInv, NextInv, <1>1, PTL DEF Spec

\* No reload takes a gateway back to an older table.
THEOREM Forward == Spec => NeverGoesBack
<1> DEFINE Ahead == \A g \in Gateways : ~ broken'[g] => cache'[g].version >= cache[g].version
<1>1. ASSUME IInv, [Next]_vars PROVE [Ahead]_vars
  <2>1. \A g \in Gateways : /\ cache[g].version \in Nat /\ got[g].version \in Nat
                            /\ cache[g].version <= got[g].version
    BY <1>1 DEF IInv, TypeOK, Snapshot, ReadWasLive
  <2>2. ASSUME NEW g \in Gateways, Store(g) PROVE Ahead
    BY <1>1, <2>1, <2>2 DEF Store, IInv, TypeOK
  <2>3. ASSUME NEW g \in Gateways, BreakOff(g) PROVE Ahead
    <3>1. /\ \A h \in Gateways \ {g} : cache'[h] = cache[h]
          /\ broken'[g] = (cache'[g] # got[g])
      BY <1>1, <2>3 DEF BreakOff, IInv, TypeOK
    <3>2. ~ broken'[g] => cache'[g] = got[g]
      BY <3>1, Zenon
    <3> QED BY <2>1, <3>1, <3>2
  <2>4. ASSUME UNCHANGED cache PROVE Ahead
    BY <2>1, <2>4
  <2>5. ASSUME NEW g \in Gateways,
               Step(g) \/ QueryFails(g) \/ BreakOff(g) \/ Drop(g) \/ Notice(g)
        PROVE  Ahead
    <3>1. CASE Store(g) \/ BreakOff(g)
      BY <2>2, <2>3, <3>1
    <3>2. CASE ~ Store(g) /\ ~ BreakOff(g)
      <4>1. UNCHANGED cache
        BY <2>5, <3>2 DEF Step, Listen, Wake, Tick, Poll, Fetch, QueryFails, Drop, Notice
      <4> QED BY <2>4, <4>1
    <3> QED BY <3>1, <3>2
  <2>6. ASSUME NEW d \in Deps, Deploy(d) \/ Canary(d) PROVE Ahead
    <3>1. UNCHANGED cache
      BY <2>6 DEF Deploy, Canary, Changed
    <3> QED BY <2>4, <3>1
  <2>7. CASE OtherProject
    BY <2>4, <2>7 DEF OtherProject
  <2>8. CASE UNCHANGED vars
    BY <2>8
  <2> QED BY <1>1, <2>5, <2>6, <2>7, <2>8 DEF Next
<1> QED BY InitInv, NextInv, <1>1, PTL DEF Spec, NeverGoesBack
=============================================================================
