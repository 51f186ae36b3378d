---------------------------- MODULE KeyCacheProofs ----------------------------
(***************************************************************************)
(* API keys, for any keys, users, projects, requests and lifetimes: what a *)
(* plane answers is no older than it may be, and only owners of a project  *)
(* change who its keys are.                                                *)
(***************************************************************************)
EXTENDS KeyCache, TLAPS

\* The roles, and what is not one.
LEMMA RoleNames ==
  /\ Roles = {"viewer", "developer", "admin", "owner"}
  /\ NoRole \notin Roles /\ "absent" \notin Roles /\ "revoked" \notin Roles
  BY DEF Roles, Rank, NoRole

LEMMA OwnerRank == Rank["owner"] = 3 /\ \A r \in Roles : Rank[r] \in 0..3
  BY DEF Roles, Rank

LEMMA OwnerIsOwner == AtLeast(Bootstrap, "owner")
<1>1. Bootstrap # Nobody /\ Bootstrap.role = "owner"
  BY DEF Bootstrap, Nobody, NoRole
<1> QED BY <1>1, OwnerRank DEF AtLeast

\* A key's row resolves to a principal of its own project, or to nobody.
LEMMA ResolveType ==
  ASSUME NEW k \in Keys, NEW rs \in [Keys -> Roles \cup {"absent", "revoked"}],
         NEW bs \in [Users \X Projects -> Roles \cup {NoRole}]
  PROVE  /\ Resolve(k, rs, bs) \in Principals
         /\ Resolve(k, rs, bs) = Nobody \/ Resolve(k, rs, bs).project = KeyProject[k]
<1>1. KeyProject[k] \in Projects
  BY KeyTypes
<1>2. CASE rs[k] \notin Roles
  BY <1>2 DEF Resolve, Principals
<1>3. CASE rs[k] \in Roles
  <2>1. RoleOf(k, rs, bs) \in Roles
    <3>1. CASE KeyUser[k] = NoUser \/ bs[<<KeyUser[k], KeyProject[k]>>] = NoRole
      BY <1>3, <3>1 DEF RoleOf
    <3>2. CASE ~(KeyUser[k] = NoUser \/ bs[<<KeyUser[k], KeyProject[k]>>] = NoRole)
      <4>1. KeyUser[k] \in Users
        BY <3>2, KeyTypes
      <4>2. <<KeyUser[k], KeyProject[k]>> \in Users \X Projects
        BY <4>1, <1>1
      <4>3. bs[<<KeyUser[k], KeyProject[k]>>] \in Roles
        BY <4>2, <3>2
      <4> QED BY <4>3, <3>2 DEF RoleOf
    <3> QED BY <3>1, <3>2
  <2> QED BY <1>1, <1>3, <2>1 DEF Resolve, Principals
<1> QED BY <1>2, <1>3

LEMMA CurrentType ==
  ASSUME TypeOK, NEW k \in Keys
  PROVE  /\ Current(k) \in Principals
         /\ Current(k) = Nobody \/ Current(k).project = KeyProject[k]
  BY ResolveType DEF TypeOK, Current

\* Only a key whose own row changed, or the binding it goes by, resolves differently.
LEMMA ResolveReads ==
  ASSUME NEW k \in Keys, NEW rs, NEW bs, rs[k] = row[k],
         KeyUser[k] = NoUser \/ bs[<<KeyUser[k], KeyProject[k]>>] = binding[<<KeyUser[k], KeyProject[k]>>]
  PROVE  Resolve(k, rs, bs) = Current(k)
  BY DEF Resolve, RoleOf, Current

LEMMA CallType ==
  ASSUME NEW pc \in {"idle", "read", "granted", "served"}, NEW plane \in Planes,
         NEW k \in Keys \cup {NoKey}, NEW p \in Principals
  PROVE  Call(pc, plane, k, p) \in Requests
<1>1. 0 \in 0..MaxQuery
  BY ClockTypes
<1> QED BY <1>1 DEF Call, Requests

LEMMA RestTypes == /\ Nobody \in Principals /\ Bootstrap \in Principals
                   /\ "go" \in Planes /\ Stale \in Nat /\ TTL <= Stale /\ MaxQuery <= Stale
  BY KeyTypes, ClockTypes, RoleNames DEF Principals, Nobody, Bootstrap, Planes, Stale

LEMMA InitInv == Init => IInv
<1> SUFFICES ASSUME Init PROVE IInv
  OBVIOUS
<1>1. IdleCall.pc = "idle" /\ \A k \in Keys : cache[k].left = 0
  BY DEF IdleCall, Call, Init, Entry
<1>2. IdleCall \in Requests
  BY CallType, RestTypes DEF IdleCall
<1>3. /\ row \in [Keys -> Roles \cup {"absent", "revoked"}]
      /\ binding \in [Users \X Projects -> Roles \cup {NoRole}]
  BY RoleNames DEF Init
<1>4. cache \in [Keys -> Entries]
  BY RestTypes, ClockTypes DEF Init, Entry, Entries
<1>5. age \in [Keys -> 0..Stale]
  BY RestTypes DEF Init
<1>6. TypeOK
  BY <1>2, <1>3, <1>4, <1>5 DEF TypeOK, Init
<1>7. ReadWasCurrent
  BY <1>1 DEF ReadWasCurrent, Init, Waiting
<1>8. StoredWasCurrent
  BY <1>1 DEF StoredWasCurrent, Fresh
<1> QED BY <1>6, <1>7, <1>8 DEF IInv

-----------------------------------------------------------------------------
(* One lemma per kind of step. *)

\* Time passes: ages and lifetimes move together.
LEMMA TickInv == ASSUME IInv, Tick PROVE IInv'
<1> USE DEF IInv
<1>1. UNCHANGED <<row, binding>> /\ \A k \in Keys : Current(k)' = Current(k)
  BY DEF Tick, tables, Current
<1>2. /\ age' \in [Keys -> 0..Stale]
      /\ \A k \in Keys : age[k] < Stale => age'[k] = age[k] + 1
      /\ \A k \in Keys : age'[k] <= age[k] + 1
  BY RestTypes DEF Tick, TypeOK
<1>3. ASSUME NEW k \in Keys
      PROVE  /\ cache'[k] \in Entries
             /\ cache'[k].left > 0 =>
                  /\ cache[k].left = cache'[k].left + 1
                  /\ cache'[k].who = cache[k].who
  <2>1. CASE cache[k].left <= 1
    BY <2>1, RestTypes, ClockTypes DEF Tick, Entry, Entries
  <2>2. CASE ~(cache[k].left <= 1)
    <3>1. cache'[k] = [cache[k] EXCEPT !.left = cache[k].left - 1]
      BY <2>2 DEF Tick
    <3>2. cache[k] \in Entries
      BY DEF TypeOK
    <3>3. cache[k].left - 1 \in 0..TTL /\ cache[k].left \in Nat
      BY <2>2, <3>2, ClockTypes DEF Entries
    <3> QED BY <3>1, <3>2, <3>3 DEF Entries
  <2> QED BY <2>1, <2>2
<1>4. cache' \in [Keys -> Entries]
  BY <1>3 DEF Tick
<1>5. ASSUME NEW c \in Callers
      PROVE  /\ call'[c] \in Requests
             /\ call'[c].pc = call[c].pc /\ call'[c].key = call[c].key
             /\ call'[c].who = call[c].who
             /\ Waiting(c) => call'[c].age = call[c].age + 1
  BY ClockTypes DEF Tick, TypeOK, Waiting, Requests
<1>6. TypeOK'
  BY <1>1, <1>2, <1>4, <1>5 DEF TypeOK, Tick
<1>7. ReadWasCurrent'
  <2> SUFFICES ASSUME NEW c \in Callers, Waiting(c)'
               PROVE  Told(c)'
    BY DEF ReadWasCurrent
  <2>1. Waiting(c) /\ Told(c)
    BY <1>5 DEF Waiting, ReadWasCurrent
  <2>2. call[c].key # NoKey => call[c].key \in Keys
    BY DEF TypeOK, Requests
  <2>3. call[c].key # NoKey /\ age[call[c].key] <= call[c].age
          => age'[call[c].key] <= call'[c].age
    <3>1. call[c].age \in Nat /\ \A k \in Keys : age[k] \in Nat /\ age'[k] \in Nat
      BY <1>2, ClockTypes, RestTypes DEF TypeOK, Requests
    <3> QED BY <2>1, <2>2, <3>1, <1>2, <1>5
  <2>4. call[c].key # NoKey => Current(call[c].key)' = Current(call[c].key)
    BY <1>1, <1>5, <2>2 DEF Current, tables
  <2> QED BY <2>1, <2>2, <2>3, <2>4, <1>5 DEF Told
<1>8. StoredWasCurrent'
  <2> SUFFICES ASSUME NEW k \in Keys, Fresh(k)'
               PROVE  \/ cache'[k].who = Current(k)'
                      \/ age'[k] <= MaxQuery + (TTL - cache'[k].left)
    BY DEF StoredWasCurrent
  <2>1. /\ cache[k].left = cache'[k].left + 1 /\ cache'[k].who = cache[k].who
        /\ cache'[k].left \in Nat /\ cache[k].left \in Nat
    BY <1>3 DEF Fresh, TypeOK, Entries
  <2>2. cache[k].who = Current(k) \/ age[k] <= MaxQuery + (TTL - cache[k].left)
    BY <2>1 DEF StoredWasCurrent, Fresh
  <2>3. age[k] \in Nat /\ age'[k] \in Nat
    BY <1>2 DEF TypeOK
  <2> QED BY <1>1, <1>2, <2>1, <2>2, <2>3, ClockTypes
<1> QED BY <1>6, <1>7, <1>8

\* A request that waits goes on waiting while no row changes.
LEMMA ToldStays ==
  ASSUME IInv, NEW c \in Callers, Waiting(c)', call'[c] = call[c], UNCHANGED <<tables, age>>
  PROVE  Told(c)'
<1>1. Told(c)
  BY DEF IInv, Waiting, ReadWasCurrent
<1> QED BY <1>1 DEF Told, Current, tables

\* Nor do the entries of the cache go wrong.
LEMMA StoredStays ==
  ASSUME IInv, UNCHANGED <<tables, cache, age>>
  PROVE  StoredWasCurrent'
  BY DEF IInv, tables, StoredWasCurrent, Fresh, Current

\* A request is answered: it is over, served, or the command line goes on.
LEMMA VerdictInv ==
  ASSUME IInv, NEW c \in Callers, NEW plane \in Planes, NEW k \in Keys \cup {NoKey},
         NEW p \in Principals, NEW a \in 0..MaxQuery,
         plane = "cli" /\ k # NoKey =>
           /\ p = Current(k) \/ age[k] <= a
           /\ p = Nobody \/ p.project = KeyProject[k],
         k = NoKey => p = Bootstrap,
         Verdict(c, plane, k, p, a), UNCHANGED <<tables, age>>
  PROVE  ReadWasCurrent' /\ call' \in [Callers -> Requests]
<1> USE DEF IInv
<1> DEFINE On == [Call("granted", plane, k, p) EXCEPT !.age = a]
<1>1. IdleCall \in Requests /\ Served \in Requests /\ IdleCall.pc = "idle" /\ Served.pc = "served"
  BY CallType, RestTypes DEF IdleCall, Served, Call
<1>2. On \in Requests /\ On.pc = "granted" /\ On.key = k /\ On.who = p /\ On.age = a
  BY CallType DEF Call, Requests
<1>3. call'[c] \in {IdleCall, Served, On} /\ \A d \in Callers \ {c} : call'[d] = call[d]
  BY DEF Verdict, TypeOK
<1>4. call' \in [Callers -> Requests]
  BY <1>1, <1>2, <1>3 DEF Verdict, TypeOK
<1>5. call'[c] = On \/ call'[c].pc \in {"idle", "served"}
  BY <1>1, <1>3
<1>6. call'[c] = On => plane = "cli" /\ AtLeast(p, "owner")
  <2>1. CASE ~Allows(plane, p)
    BY <2>1, <1>1, <1>2 DEF Verdict, TypeOK
  <2>2. CASE Allows(plane, p) /\ plane # "cli"
    BY <2>2, <1>1, <1>2 DEF Verdict, TypeOK
  <2>3. CASE Allows(plane, p) /\ plane = "cli"
    BY <2>3 DEF Allows
  <2> QED BY <2>1, <2>2, <2>3
<1>7. ReadWasCurrent'
  <2> SUFFICES ASSUME NEW d \in Callers, Waiting(d)'
               PROVE  Told(d)'
    BY DEF ReadWasCurrent
  <2>1. CASE d # c
    BY <1>3, <2>1, ToldStays
  <2>2. CASE d = c
    <3>1. call'[c] = On
      BY <1>5, <2>2 DEF Waiting
    <3>2. call'[c].key = k /\ call'[c].who = p /\ call'[c].age = a
      BY <1>2, <3>1
    <3>3. Resolve(k, row, binding)' = Resolve(k, row, binding)
      BY DEF tables
    <3> HIDE DEF On
    <3> QED BY <1>6, <2>2, <3>1, <3>2, <3>3 DEF Told, Current
  <2> QED BY <2>1, <2>2
<1> QED BY <1>4, <1>7

\* A request whose call alone changes, and does not wait.
LEMMA OverInv ==
  ASSUME IInv, NEW c \in Callers, NEW r \in {IdleCall, Served},
         call' = [call EXCEPT ![c] = r], UNCHANGED <<tables, cache, age>>
  PROVE  IInv'
<1> USE DEF IInv
<1>1. r \in Requests /\ r.pc \in {"idle", "served"}
  BY CallType, RestTypes DEF IdleCall, Served, Call
<1>2. call' \in [Callers -> Requests]
  BY <1>1 DEF TypeOK
<1>3. call'[c] = r /\ \A d \in Callers \ {c} : call'[d] = call[d]
  BY DEF TypeOK
<1>4. \A d \in Callers : Waiting(d)' => call'[d] = call[d]
  BY <1>1, <1>3 DEF Waiting
<1>5. ReadWasCurrent'
  BY <1>4, ToldStays DEF ReadWasCurrent
<1> QED BY <1>2, <1>5, StoredStays DEF TypeOK, tables

LEMMA KeylessInv ==
  ASSUME IInv, NEW c \in Callers, NEW plane \in Planes, Keyless(c, plane)
  PROVE  IInv'
<1> USE DEF IInv
<1>1. ReadWasCurrent' /\ call' \in [Callers -> Requests]
  <2>1. 0 \in 0..MaxQuery
    BY ClockTypes
  <2> QED BY <2>1, VerdictInv, RestTypes DEF Keyless
<1>2. StoredWasCurrent'
  BY StoredStays DEF Keyless
<1> QED BY <1>1, <1>2 DEF Keyless, TypeOK, tables

LEMMA HitInv ==
  ASSUME IInv, NEW c \in Callers, NEW k \in Keys, Hit(c, k)
  PROVE  IInv'
<1> USE DEF IInv
<1>1. ReadWasCurrent' /\ call' \in [Callers -> Requests]
  <2>1. 0 \in 0..MaxQuery /\ cache[k].who \in Principals
    BY ClockTypes DEF TypeOK, Entries
  <2>2. k # NoKey
    BY KeyTypes
  <2> QED BY <2>1, <2>2, VerdictInv, RestTypes DEF Hit
<1>2. StoredWasCurrent'
  BY StoredStays DEF Hit
<1> QED BY <1>1, <1>2 DEF Hit, TypeOK, tables

LEMMA QueryInv ==
  ASSUME IInv, NEW c \in Callers, NEW plane \in Planes, NEW k \in Keys, Query(c, plane, k)
  PROVE  IInv'
<1> USE DEF IInv
<1> DEFINE new == Call("read", plane, k, Current(k))
<1>1. /\ new \in Requests /\ new.pc = "read" /\ new.key = k /\ new.who = Current(k)
      /\ k # NoKey
  BY CallType, CurrentType, KeyTypes DEF Call
<1>2. call' \in [Callers -> Requests]
  BY <1>1 DEF Query, TypeOK
<1>3. \A j \in Keys : Current(j)' = Current(j)
  BY DEF Query, tables, Current
<1>4. call'[c] = new /\ \A d \in Callers \ {c} : call'[d] = call[d]
  BY DEF Query, TypeOK
<1>5. ReadWasCurrent'
  <2>1. new.who = Nobody \/ new.who.project = KeyProject[k]
    BY <1>1, CurrentType
  <2> HIDE DEF new
  <2>2. UNCHANGED age
    BY DEF Query
  <2> SUFFICES ASSUME NEW d \in Callers, Waiting(d)'
               PROVE  Told(d)'
    BY DEF ReadWasCurrent
  <2>3. CASE d = c
    <3>1. call'[c].key = k /\ call'[c].who = Current(k) /\ call'[c].pc = "read"
      BY <1>1, <1>4
    <3>2. Resolve(k, row, binding)' = Resolve(k, row, binding)
      BY DEF Query, tables
    <3> QED BY <1>1, <1>4, <2>1, <2>3, <3>1, <3>2 DEF Told, Current
  <2>4. CASE d # c
    BY <1>4, <2>2, <2>4, ToldStays DEF Query
  <2> QED BY <2>3, <2>4
<1>6. StoredWasCurrent'
  BY StoredStays DEF Query
<1> QED BY <1>2, <1>5, <1>6 DEF Query, TypeOK, tables

\* The stored result is as old as its call.
LEMMA AnswerInv ==
  ASSUME IInv, NEW c \in Callers, Answer(c)
  PROVE  IInv'
<1> USE DEF IInv
<1> DEFINE was == call[c]
<1>1. /\ was \in Requests /\ Waiting(c) /\ was.pc = "read"
      /\ was.plane \in Planes /\ was.key \in Keys \cup {NoKey} /\ was.who \in Principals
      /\ was.age \in 0..MaxQuery
  BY DEF Answer, TypeOK, Requests, Waiting
<1>2. /\ was.key # NoKey =>
           /\ was.who = Current(was.key) \/ age[was.key] <= was.age
           /\ was.who = Nobody \/ was.who.project = KeyProject[was.key]
      /\ was.key = NoKey => was.who = Bootstrap
  BY <1>1 DEF ReadWasCurrent, Told
<1>3. Verdict(c, was.plane, was.key, was.who, was.age) /\ UNCHANGED <<tables, age>>
  BY DEF Answer
<1>4. ReadWasCurrent' /\ call' \in [Callers -> Requests]
  <2> HIDE DEF was
  <2>1. PICK plane \in Planes, k \in Keys \cup {NoKey}, who \in Principals, a \in 0..MaxQuery :
          plane = was.plane /\ k = was.key /\ who = was.who /\ a = was.age
    BY <1>1
  <2>2. /\ k # NoKey =>
             /\ who = Current(k) \/ age[k] <= a
             /\ who = Nobody \/ who.project = KeyProject[k]
        /\ k = NoKey => who = Bootstrap
    BY <1>2, <2>1 DEF Current
  <2>3. Verdict(c, plane, k, who, a) /\ UNCHANGED <<tables, age>>
    BY <1>3, <2>1
  <2> QED BY <2>2, <2>3, VerdictInv
<1>5. \A k \in Keys : Current(k)' = Current(k)
  BY <1>3 DEF tables, Current
<1>6. CASE was.plane # "go"
  <2>1. UNCHANGED cache
    BY <1>6 DEF Answer
  <2>2. StoredWasCurrent'
    BY <2>1, <1>3, <1>5 DEF StoredWasCurrent, Fresh
  <2> QED BY <1>3, <1>4, <2>1, <2>2 DEF TypeOK, tables
<1>7. CASE was.plane = "go"
  <2> DEFINE new == Entry(was.who, TTL)
  <2>1. new \in Entries /\ new.left = TTL /\ new.who = was.who
    BY <1>1, ClockTypes DEF Entry, Entries
  <2>2. cache' = [cache EXCEPT ![was.key] = new]
    BY <1>7 DEF Answer
  <2>3. cache' \in [Keys -> Entries]
    BY <2>1, <2>2 DEF TypeOK
  <2>4. StoredWasCurrent'
    <3> SUFFICES ASSUME NEW k \in Keys, Fresh(k)'
                 PROVE  \/ cache'[k].who = Current(k)'
                        \/ age'[k] <= MaxQuery + (TTL - cache'[k].left)
      BY DEF StoredWasCurrent
    <3>1. CASE k = was.key
      <4>1. cache'[k] = new /\ k # NoKey
        BY <2>2, <3>1, KeyTypes DEF TypeOK
      <4>2. age[k] \in Nat
        BY DEF TypeOK
      <4>3. k = was.key /\ (was.who = Current(k) \/ age[k] <= was.age)
        BY <1>2, <3>1, <4>1 DEF Current
      <4>4. cache'[k].who = was.who /\ cache'[k].left = TTL
        BY <2>1, <4>1
      <4>5. Current(k)' = Current(k) /\ age'[k] = age[k]
        BY <1>3, <1>5
      <4>6. was.age \in Nat /\ was.age <= MaxQuery /\ MaxQuery + (TTL - TTL) = MaxQuery
        BY <1>1, ClockTypes
      <4> HIDE DEF was, new
      <4> QED BY <4>2, <4>3, <4>4, <4>5, <4>6, ClockTypes
    <3>2. CASE k # was.key
      <4>1. cache'[k] = cache[k] /\ Fresh(k)
        BY <2>2, <3>2 DEF TypeOK, Fresh
      <4> QED BY <4>1, <1>3, <1>5 DEF StoredWasCurrent
    <3> QED BY <3>1, <3>2
  <2> QED BY <1>3, <1>4, <2>3, <2>4 DEF TypeOK, tables
<1> QED BY <1>6, <1>7

-----------------------------------------------------------------------------
(* The commands. *)

\* A command changes who keys of its caller's own project are, and of no other.
LEMMA CommitInv ==
  ASSUME IInv, NEW c \in Callers,
         NEW rs \in [Keys -> Roles \cup {"absent", "revoked"}],
         NEW bs \in [Users \X Projects -> Roles \cup {NoRole}],
         Commit(c, rs, bs)
  PROVE  IInv'
<1> USE DEF IInv
<1>1. /\ row' = rs /\ binding' = bs /\ UNCHANGED cache
      /\ call' = [call EXCEPT ![c] = IdleCall]
  BY DEF Commit
<1>2. \A k \in Keys : \/ age'[k] = 0
                      \/ age'[k] = age[k] /\ Resolve(k, rs, bs) = Current(k)
  BY DEF Commit
<1>3. \A k \in Keys : Current(k)' = Resolve(k, rs, bs)
  BY <1>1 DEF Current
<1>4. age' \in [Keys -> 0..Stale]
  BY RestTypes DEF Commit, TypeOK
<1>5. IdleCall \in Requests /\ IdleCall.pc = "idle"
  BY CallType, RestTypes DEF IdleCall, Call
<1>6. TypeOK'
  BY <1>1, <1>4, <1>5 DEF TypeOK
<1>7. ReadWasCurrent'
  <2> SUFFICES ASSUME NEW d \in Callers, Waiting(d)'
               PROVE  Told(d)'
    BY DEF ReadWasCurrent
  <2>1. call'[d] = call[d] /\ Waiting(d) /\ Told(d)
    BY <1>1, <1>5 DEF TypeOK, Waiting, ReadWasCurrent
  <2>2. CASE call[d].key = NoKey
    BY <2>1, <2>2 DEF Told
  <2>3. CASE call[d].key # NoKey
    <3>1. PICK k \in Keys : k = call[d].key
      BY <2>3 DEF TypeOK, Requests
    <3>2. call[d].age \in Nat
      BY ClockTypes DEF TypeOK, Requests
    <3>3. call[d].who = Current(k) \/ age[k] <= call[d].age
      BY <2>1, <2>3, <3>1 DEF Told, Current
    <3>4. call[d].who = Current(k)' \/ age'[k] <= call[d].age
      BY <1>2, <1>3, <3>2, <3>3
    <3> QED BY <2>1, <2>3, <3>1, <3>4 DEF Told, Current
  <2> QED BY <2>2, <2>3
<1>8. StoredWasCurrent'
  <2> SUFFICES ASSUME NEW k \in Keys, Fresh(k)'
               PROVE  \/ cache'[k].who = Current(k)'
                      \/ age'[k] <= MaxQuery + (TTL - cache'[k].left)
    BY DEF StoredWasCurrent
  <2>1. Fresh(k) /\ cache[k].left \in 0..TTL
    BY <1>1 DEF Fresh, TypeOK, Entries
  <2>2. cache[k].who = Current(k) \/ age[k] <= MaxQuery + (TTL - cache[k].left)
    BY <2>1 DEF StoredWasCurrent
  <2>3. 0 <= MaxQuery + (TTL - cache[k].left)
    BY <2>1, ClockTypes
  <2> QED BY <1>1, <1>2, <1>3, <2>2, <2>3
<1> QED BY <1>6, <1>7, <1>8

\* The commands' rows are rows, and change keys of the caller's project only.
LEMMA CommandRows ==
  ASSUME IInv, NEW c \in Callers, call[c].pc = "granted",
         \/ NoCommand(c)
         \/ \E k \in Keys : RevokeKey(c, k)
         \/ \E role \in Grants : \/ \E u \in Users : CreateUser(c, u, role)
                                 \/ \E k \in Keys : CreateKey(c, k, role)
  PROVE  \E rs \in [Keys -> Roles \cup {"absent", "revoked"}],
            bs \in [Users \X Projects -> Roles \cup {NoRole}] :
           /\ Commit(c, rs, bs)
           /\ \A k \in Keys : Resolve(k, rs, bs) # Current(k) => KeyProject[k] = call[c].who.project
<1> USE DEF IInv
<1> DEFINE Rows == [Keys -> Roles \cup {"absent", "revoked"}]
           Bindings == [Users \X Projects -> Roles \cup {NoRole}]
           home == call[c].who.project
<1>1. row \in Rows /\ binding \in Bindings /\ Grants \subseteq Roles
  BY KeyTypes DEF TypeOK
<1>2. home \in Projects
  BY KeyTypes DEF TypeOK, Requests, Principals, Nobody
<1>3. ASSUME NEW u \in Users, NEW j \in Projects, NEW role \in Roles
      PROVE  /\ Bound(u, j, role) \in Bindings
             /\ \A b \in Users \X Projects : b # <<u, j>> => Bound(u, j, role)[b] = binding[b]
  BY <1>1 DEF Bound
<1>4. ASSUME NEW k \in Keys, NEW s \in Roles \cup {"revoked"}
      PROVE  /\ [row EXCEPT ![k] = s] \in Rows
             /\ \A j \in Keys \ {k} : [row EXCEPT ![k] = s][j] = row[j]
  BY <1>1
<1>5. CASE NoCommand(c)
  BY <1>1, <1>5 DEF NoCommand, Current
<1>6. ASSUME NEW k \in Keys, RevokeKey(c, k)
      PROVE  \E rs \in Rows, bs \in Bindings :
               /\ Commit(c, rs, bs)
               /\ \A j \in Keys : Resolve(j, rs, bs) # Current(j) => KeyProject[j] = home
  <2> DEFINE rs == [row EXCEPT ![k] = "revoked"]
  <2>1. Commit(c, rs, binding) /\ KeyProject[k] = home
    BY <1>6 DEF RevokeKey
  <2>2. rs \in Rows /\ \A j \in Keys \ {k} : rs[j] = row[j]
    BY <1>4
  <2> HIDE DEF rs
  <2>3. \A j \in Keys \ {k} : Resolve(j, rs, binding) = Current(j)
    BY <2>2, ResolveReads
  <2> QED BY <1>1, <2>1, <2>2, <2>3
<1>7. ASSUME NEW role \in Grants, NEW u \in Users, CreateUser(c, u, role)
      PROVE  \E rs \in Rows, bs \in Bindings :
               /\ Commit(c, rs, bs)
               /\ \A j \in Keys : Resolve(j, rs, bs) # Current(j) => KeyProject[j] = home
  <2> DEFINE bs == Bound(u, home, role)
  <2>1. Commit(c, row, bs)
    BY <1>7 DEF CreateUser
  <2>2. bs \in Bindings /\ \A b \in Users \X Projects : b # <<u, home>> => bs[b] = binding[b]
    BY <1>1, <1>2, <1>3
  <2> HIDE DEF bs
  <2>3. \A j \in Keys : KeyProject[j] # home => Resolve(j, row, bs) = Current(j)
    BY <2>2, ResolveReads, KeyTypes
  <2> QED BY <1>1, <2>1, <2>2, <2>3
<1>8. ASSUME NEW role \in Grants, NEW k \in Keys, CreateKey(c, k, role)
      PROVE  \E rs \in Rows, bs \in Bindings :
               /\ Commit(c, rs, bs)
               /\ \A j \in Keys : Resolve(j, rs, bs) # Current(j) => KeyProject[j] = home
  <2> DEFINE rs == Inserted(k, role)
             bs == IF KeyUser[k] = NoUser THEN binding ELSE Bound(KeyUser[k], KeyProject[k], role)
  <2>1. Commit(c, rs, bs) /\ KeyProject[k] = home
    BY <1>8 DEF CreateKey
  <2>2. rs \in Rows /\ \A j \in Keys \ {k} : rs[j] = row[j]
    BY <1>1, <1>4 DEF Inserted
  <2>3. /\ bs \in Bindings
        /\ \A b \in Users \X Projects : b[2] # KeyProject[k] => bs[b] = binding[b]
    BY <1>1, <1>3, KeyTypes
  <2> HIDE DEF rs, bs
  <2>4. \A j \in Keys : KeyProject[j] # home => Resolve(j, rs, bs) = Current(j)
    <3> SUFFICES ASSUME NEW j \in Keys, KeyProject[j] # home
                 PROVE  Resolve(j, rs, bs) = Current(j)
      OBVIOUS
    <3>1. KeyUser[j] # NoUser => <<KeyUser[j], KeyProject[j]>> \in Users \X Projects
      BY KeyTypes
    <3>2. KeyUser[j] # NoUser =>
            bs[<<KeyUser[j], KeyProject[j]>>] = binding[<<KeyUser[j], KeyProject[j]>>]
      BY <2>1, <2>3, <3>1
    <3> QED BY <2>1, <2>2, <3>2, ResolveReads
  <2> QED BY <2>1, <2>2, <2>3, <2>4
<1> QED BY <1>5, <1>6, <1>7, <1>8

LEMMA CommandInv ==
  ASSUME IInv, NEW c \in Callers,
         \/ NoCommand(c)
         \/ \E k \in Keys : RevokeKey(c, k)
         \/ \E role \in Grants : \/ \E u \in Users : CreateUser(c, u, role)
                                 \/ \E k \in Keys : CreateKey(c, k, role)
  PROVE  IInv'
<1>1. call[c].pc = "granted"
  BY DEF NoCommand, RevokeKey, CreateUser, CreateKey, Commit
<1> QED BY <1>1, CommandRows, CommitInv

LEMMA NextInv == IInv /\ [Next]_vars => IInv'
<1> SUFFICES ASSUME IInv, [Next]_vars PROVE IInv'
  OBVIOUS
<1>1. CASE Tick
  BY <1>1, TickInv
<1>2. ASSUME NEW c \in Callers, NEW plane \in Planes, Keyless(c, plane) PROVE IInv'
  BY <1>2, KeylessInv
<1>3. ASSUME NEW c \in Callers, NEW plane \in Planes, NEW k \in Keys, Query(c, plane, k)
      PROVE  IInv'
  BY <1>3, QueryInv
<1>4. ASSUME NEW c \in Callers, NEW k \in Keys, Hit(c, k) PROVE IInv'
  BY <1>4, HitInv
<1>5. ASSUME NEW c \in Callers, Answer(c) PROVE IInv'
  BY <1>5, AnswerInv
<1>6. ASSUME NEW c \in Callers, StoreFails(c) \/ End(c) PROVE IInv'
  <2>1. PICK r \in {IdleCall, Served} :
          call' = [call EXCEPT ![c] = r] /\ UNCHANGED <<tables, cache, age>>
    BY <1>6 DEF StoreFails, End
  <2> QED BY <2>1, OverInv
<1>7. ASSUME NEW c \in Callers,
             \/ NoCommand(c)
             \/ \E k \in Keys : RevokeKey(c, k)
             \/ \E role \in Grants : \/ \E u \in Users : CreateUser(c, u, role)
                                     \/ \E k \in Keys : CreateKey(c, k, role)
      PROVE  IInv'
  BY <1>7, CommandInv
<1>8. CASE UNCHANGED vars
  <2>1. UNCHANGED <<row, binding, cache, call, age>>
    BY <1>8 DEF vars, tables
  <2> QED BY <2>1 DEF IInv, TypeOK, ReadWasCurrent, Told, Waiting, StoredWasCurrent, Fresh, Current
<1> QED BY <1>1, <1>2, <1>3, <1>4, <1>5, <1>6, <1>7, <1>8 DEF Next

LEMMA Inductive == Spec => []IInv
  BY InitInv, NextInv, PTL DEF Spec

-----------------------------------------------------------------------------
(* The theorems. *)

\* Every reachable state has the types of the declarations.
THEOREM KeyTypesHold == Spec => []TypeOK
  BY Inductive, PTL DEF IInv

\* A cache entry or a result under way differs from the rows only if they changed within
\* the TTL and the time of a query, for any number of requests and lengths of both.
THEOREM RecentAnswers == Spec => []AnswersAreRecent
<1>1. IInv => AnswersAreRecent
  <2> SUFFICES ASSUME IInv PROVE AnswersAreRecent
    OBVIOUS
  <2> USE DEF IInv
  <2>1. ASSUME NEW k \in Keys, Fresh(k)
        PROVE  cache[k].who = Current(k) \/ age[k] < Stale
    <3>1. cache[k].left \in 1..TTL /\ age[k] \in Nat
      BY <2>1, RestTypes, ClockTypes DEF TypeOK, Entries, Fresh
    <3>2. cache[k].who = Current(k) \/ age[k] <= MaxQuery + (TTL - cache[k].left)
      BY <2>1 DEF StoredWasCurrent
    <3> QED BY <3>1, <3>2, ClockTypes DEF Stale
  <2>2. ASSUME NEW c \in Callers, Waiting(c), call[c].key # NoKey
        PROVE  call[c].who = Current(call[c].key) \/ age[call[c].key] <= MaxQuery
    <3>1. PICK k \in Keys : k = call[c].key
      BY <2>2 DEF TypeOK, Requests
    <3>2. call[c].age \in 0..MaxQuery /\ age[k] \in 0..Stale
      BY DEF TypeOK, Requests
    <3>3. call[c].who = Current(k) \/ age[k] <= call[c].age
      BY <2>2, <3>1 DEF ReadWasCurrent, Told, Current
    <3>4. call[c].who = Current(k) \/ age[k] <= MaxQuery
      BY <3>2, <3>3, ClockTypes, RestTypes
    <3> QED BY <3>1, <3>4 DEF Current
  <2> QED BY <2>1, <2>2 DEF AnswersAreRecent
<1> QED BY <1>1, Inductive, PTL

\* A key's principal changes only by a command of an owner of its own project (or, at
\* home, of one without a key), as the rows were at most MaxQuery ago.
THEOREM OwnersDecide == Spec => OwnersOnly
<1> DEFINE ByOwner(k) ==
      \E c \in Callers :
        LET by == call[c].key IN
        /\ call[c].pc = "granted" /\ call'[c].pc = "idle"
        /\ \/ by = NoKey /\ KeyProject[k] = Home
           \/ /\ by \in Keys /\ KeyProject[by] = KeyProject[k]
              /\ AtLeast(Current(by), "owner") \/ age[by] <= MaxQuery
    Owned == \A k \in Keys : Resolve(k, row, binding)' # Current(k) => ByOwner(k)
<1>1. ASSUME IInv, Next, NEW k \in Keys, Resolve(k, row, binding)' # Current(k)
      PROVE  ByOwner(k)
  <2> USE DEF IInv
  <2>1. ~(UNCHANGED tables)
    BY <1>1 DEF tables, Current
  <2>2. PICK c \in Callers :
          \/ NoCommand(c)
          \/ \E j \in Keys : RevokeKey(c, j)
          \/ \E role \in Grants : \/ \E u \in Users : CreateUser(c, u, role)
                                  \/ \E j \in Keys : CreateKey(c, j, role)
    BY <1>1, <2>1 DEF Next, Tick, Keyless, Query, Hit, Answer, StoreFails, End
  <2>3. call[c].pc = "granted"
    BY <2>2 DEF NoCommand, RevokeKey, CreateUser, CreateKey, Commit
  <2>4. PICK rs \in [Keys -> Roles \cup {"absent", "revoked"}],
             bs \in [Users \X Projects -> Roles \cup {NoRole}] :
          /\ Commit(c, rs, bs)
          /\ \A j \in Keys : Resolve(j, rs, bs) # Current(j) => KeyProject[j] = call[c].who.project
    BY <1>1, <2>2, <2>3, CommandRows
  <2>5. KeyProject[k] = call[c].who.project
    <3>1. Resolve(k, row, binding)' = Resolve(k, rs, bs)
      BY <2>4 DEF Commit
    <3> QED BY <1>1, <2>4, <3>1
  <2>6. call'[c].pc = "idle"
    BY <1>1, <2>4 DEF Commit, TypeOK, IdleCall, Call
  <2>7. Told(c) /\ call[c].key \in Keys \cup {NoKey} /\ call[c].age \in 0..MaxQuery
    BY <1>1, <2>3 DEF ReadWasCurrent, Waiting, TypeOK, Requests
  <2>8. CASE call[c].key = NoKey
    <3>1. KeyProject[k] = Home
      BY <2>5, <2>7, <2>8 DEF Told, Bootstrap
    <3> QED BY <2>3, <2>6, <2>8, <3>1
  <2>9. CASE call[c].key # NoKey
    <3>1. PICK by \in Keys : by = call[c].key
      BY <2>7, <2>9
    <3>2. AtLeast(call[c].who, "owner")
      BY <2>3, <2>7 DEF Told
    <3>3. KeyProject[by] = KeyProject[k]
      BY <2>5, <2>7, <2>9, <3>1, <3>2 DEF Told, AtLeast
    <3>4. call[c].who = Current(by) \/ age[by] <= call[c].age
      BY <2>7, <2>9, <3>1 DEF Told, Current
    <3>5. age[by] \in Nat
      BY <1>1, RestTypes DEF TypeOK
    <3>6. AtLeast(Current(by), "owner") \/ age[by] <= MaxQuery
      BY <2>7, <3>2, <3>4, <3>5, ClockTypes DEF AtLeast
    <3> QED BY <2>3, <2>6, <3>1, <3>3, <3>6 DEF Current
  <2> QED BY <2>8, <2>9
<1>2. IInv /\ [Next]_vars => [Owned]_vars
  BY <1>1
<1>3. [][Owned]_vars => OwnersOnly
  BY DEF OwnersOnly
<1> QED BY <1>2, <1>3, Inductive, PTL DEF Spec
=============================================================================
