----------------------------- MODULE StoresProofs -----------------------------
(***************************************************************************)
(* The state stores for any projects, namespaces, vectors and logs: each   *)
(* vector store does to its own project what the contract says and nothing *)
(* to another, a moved HEAD loses no event, and the schema store never     *)
(* goes down.                                                              *)
(***************************************************************************)
EXTENDS Stores, SequenceTheorems, TLAPS

LEMMA BumpedPresent ==
  ASSUME NEW versions \in [Ids -> Nat], NEW ids \in SUBSET Ids
  PROVE  /\ Bumped(versions, ids) \in [Ids -> Nat]
         /\ Present(Bumped(versions, ids)) = Present(versions) \cup ids
BY DEF Bumped, Present

-----------------------------------------------------------------------------
(* The vector stores. *)

\* What an upsert does to the members of every namespace.
LEMMA MembersAfter ==
  ASSUME NEW version \in [Namespaces -> [Ids -> Nat]], NEW ns \in Namespaces,
         NEW ids \in SUBSET Ids, NEW after, after = [version EXCEPT ![ns] = Bumped(version[ns], ids)]
  PROVE  /\ after \in [Namespaces -> [Ids -> Nat]]
         /\ Members(after) = Extended(Members(version), ns, ids)
<1>1. /\ Bumped(version[ns], ids) \in [Ids -> Nat]
      /\ Present(Bumped(version[ns], ids)) = Present(version[ns]) \cup ids
  BY BumpedPresent
<1>2. after \in [Namespaces -> [Ids -> Nat]]
  BY <1>1
<1>3. \A n \in Namespaces : Present(after[n]) = IF n = ns THEN Present(version[n]) \cup ids
                                                ELSE Present(version[n])
  BY <1>1
<1>4. Members(after) = Extended(Members(version), ns, ids)
  BY <1>3 DEF Members, Extended
<1> QED BY <1>2, <1>4

LEMMA NothingPresent ==
  NoVersions \in [Namespaces -> [Ids -> Nat]] /\ Members(NoVersions) = [n \in Namespaces |-> {}]
<1>1. \A n \in Namespaces : Present(NoVersions[n]) = {}
  BY DEF NoVersions, Present
<1> QED BY <1>1 DEF NoVersions, Members

\* The JSON stub keeps the contract: an upsert adds to one namespace, the alias swap moves
\* the alias and leaves every namespace as it was.
THEOREM StubKeepsContract ==
  ASSUME NEW v \in StubVectors, NEW ns \in Namespaces, NEW ids \in SUBSET Ids
  PROVE  /\ StubUpsert(v, ns, ids) \in StubVectors /\ StubSetAlias(v, ns) \in StubVectors
         /\ StubView(StubUpsert(v, ns, ids)) = Upserted(StubView(v), ns, ids)
         /\ StubView(StubSetAlias(v, ns)) = Pointed(StubView(v), ns)
<1>1. v.version \in [Namespaces -> [Ids -> Nat]] /\ v.alias \in SUBSET Namespaces
  BY DEF StubVectors
<1>2. PICK after : after = [v.version EXCEPT ![ns] = Bumped(v.version[ns], ids)]
  OBVIOUS
<1>3. /\ after \in [Namespaces -> [Ids -> Nat]]
      /\ Members(after) = Extended(Members(v.version), ns, ids)
  BY <1>1, <1>2, MembersAfter, Zenon
<1>4. StubUpsert(v, ns, ids) = [alias |-> v.alias, version |-> after]
  BY <1>2 DEF StubUpsert
<1>5. StubUpsert(v, ns, ids) \in StubVectors /\ StubSetAlias(v, ns) \in StubVectors
  BY <1>1, <1>3, <1>4 DEF StubVectors, StubSetAlias
<1>6. StubView(StubUpsert(v, ns, ids)) = [alias |-> v.alias, members |-> Members(after)]
  BY <1>4 DEF StubView
<1>7. StubView(StubUpsert(v, ns, ids)) = Upserted(StubView(v), ns, ids)
  <2>1. Upserted(StubView(v), ns, ids)
          = [alias |-> v.alias, members |-> Extended(Members(v.version), ns, ids)]
    BY DEF StubView, Upserted
  <2> QED BY <1>3, <1>6, <2>1
<1>8. StubView(StubSetAlias(v, ns)) = Pointed(StubView(v), ns)
  BY DEF StubSetAlias, StubView, Pointed
<1> QED BY <1>5, <1>7, <1>8

\* pgvector: one project's calls keep the contract and leave every other project's
\* namespaces and alias alone, though the rows share their tables.
THEOREM PgKeepsContract ==
  ASSUME NEW s \in PgVectors, NEW p \in Projects, NEW ns \in Namespaces, NEW ids \in SUBSET Ids
  PROVE  /\ {PgUpsert(s, p, ns, ids), PgSetAlias(s, p, ns), PgReset(s, p)} \subseteq PgVectors
         /\ PgView(PgUpsert(s, p, ns, ids), p) = Upserted(PgView(s, p), ns, ids)
         /\ PgView(PgSetAlias(s, p, ns), p) = Pointed(PgView(s, p), ns)
         /\ PgView(PgReset(s, p), p) = NoVectors
         /\ \A q \in Projects \ {p} :
              \A r \in {PgUpsert(s, p, ns, ids), PgSetAlias(s, p, ns), PgReset(s, p)} :
                PgView(r, q) = PgView(s, q)
<1>1. /\ s.version \in [Projects -> [Namespaces -> [Ids -> Nat]]]
      /\ s.alias \in [Projects -> SUBSET Namespaces]
  BY DEF PgVectors
<1>2. PICK after : after = [s.version[p] EXCEPT ![ns] = Bumped(s.version[p][ns], ids)]
  OBVIOUS
<1>3. /\ after \in [Namespaces -> [Ids -> Nat]]
      /\ Members(after) = Extended(Members(s.version[p]), ns, ids)
  BY <1>1, <1>2, MembersAfter, Zenon
<1>4. PgUpsert(s, p, ns, ids) = [alias |-> s.alias, version |-> [s.version EXCEPT ![p] = after]]
  BY <1>2 DEF PgUpsert
<1>5. {PgUpsert(s, p, ns, ids), PgSetAlias(s, p, ns), PgReset(s, p)} \subseteq PgVectors
  BY <1>1, <1>3, <1>4, NothingPresent DEF PgVectors, PgSetAlias, PgReset
<1>6. PgView(PgUpsert(s, p, ns, ids), p) = Upserted(PgView(s, p), ns, ids)
  <2>1. PgView(PgUpsert(s, p, ns, ids), p) = [alias |-> s.alias[p], members |-> Members(after)]
    BY <1>1, <1>4 DEF PgView
  <2>2. Upserted(PgView(s, p), ns, ids)
          = [alias |-> s.alias[p], members |-> Extended(Members(s.version[p]), ns, ids)]
    BY DEF PgView, Upserted
  <2> QED BY <1>3, <2>1, <2>2
<1>7. PgView(PgSetAlias(s, p, ns), p) = Pointed(PgView(s, p), ns)
  BY <1>1 DEF PgSetAlias, PgView, Pointed
<1>8. PgView(PgReset(s, p), p) = NoVectors
  BY <1>1, NothingPresent DEF PgReset, PgView, NoVectors
<1>9. ASSUME NEW q \in Projects \ {p},
             NEW r \in {PgUpsert(s, p, ns, ids), PgSetAlias(s, p, ns), PgReset(s, p)}
      PROVE  PgView(r, q) = PgView(s, q)
  <2>1. r.alias[q] = s.alias[q] /\ r.version[q] = s.version[q]
    BY <1>1, <1>4 DEF PgSetAlias, PgReset
  <2> QED BY <2>1 DEF PgView
<1> QED BY <1>5, <1>6, <1>7, <1>8, <1>9
LEMMA PairsAre == \A q \in Projects, n \in Namespaces : <<q, n>> \in Spaces
  BY DEF Spaces

\* What the servers that name a space by project and namespace do to the members of each.
LEMMA MembersInAfter ==
  ASSUME NEW points \in [Spaces -> SUBSET Ids], NEW p \in Projects, NEW ns \in Namespaces,
         NEW ids \in SUBSET Ids
  PROVE  /\ Extended(points, <<p, ns>>, ids) \in [Spaces -> SUBSET Ids]
         /\ MembersIn(Extended(points, <<p, ns>>, ids), p) = Extended(MembersIn(points, p), ns, ids)
         /\ Emptied(points, p) \in [Spaces -> SUBSET Ids]
         /\ MembersIn(Emptied(points, p), p) = [n \in Namespaces |-> {}]
         /\ \A q \in Projects \ {p} :
              /\ MembersIn(Extended(points, <<p, ns>>, ids), q) = MembersIn(points, q)
              /\ MembersIn(Emptied(points, p), q) = MembersIn(points, q)
<1>1. <<p, ns>> \in Spaces
  BY PairsAre
<1>2. Extended(points, <<p, ns>>, ids) \in [Spaces -> SUBSET Ids]
  BY <1>1 DEF Extended
<1>3. Emptied(points, p) \in [Spaces -> SUBSET Ids]
  BY DEF Emptied
<1>4. \A q \in Projects, n \in Namespaces :
        /\ Extended(points, <<p, ns>>, ids)[<<q, n>>]
             = IF q = p /\ n = ns THEN points[<<q, n>>] \cup ids ELSE points[<<q, n>>]
        /\ Emptied(points, p)[<<q, n>>] = IF q = p THEN {} ELSE points[<<q, n>>]
  BY <1>1, PairsAre DEF Extended, Emptied
<1>5. MembersIn(Extended(points, <<p, ns>>, ids), p) = Extended(MembersIn(points, p), ns, ids)
  <2> DEFINE f == MembersIn(Extended(points, <<p, ns>>, ids), p)
             g == Extended(MembersIn(points, p), ns, ids)
  <2>1. f = [n \in Namespaces |-> f[n]] /\ g = [n \in Namespaces |-> g[n]]
    <3>1. f = [n \in Namespaces |-> f[n]]
      BY DEF MembersIn
    <3>2. MembersIn(points, p) \in [Namespaces -> SUBSET Ids]
      BY PairsAre DEF MembersIn
    <3>3. g \in [Namespaces -> SUBSET Ids]
      BY <3>2 DEF Extended
    <3> QED BY <3>1, <3>3
  <2>2. ASSUME NEW n \in Namespaces PROVE f[n] = g[n]
    <3>1. f[n] = Extended(points, <<p, ns>>, ids)[<<p, n>>]
      BY DEF MembersIn
    <3>2. g[n] = IF n = ns THEN points[<<p, n>>] \cup ids ELSE points[<<p, n>>]
      BY DEF MembersIn, Extended
    <3> QED BY <1>4, <3>1, <3>2
  <2> HIDE DEF f, g
  <2>3. f = g
    BY <2>1, <2>2
  <2> QED BY <2>3 DEF f, g
<1>6. MembersIn(Emptied(points, p), p) = [n \in Namespaces |-> {}]
  BY <1>4 DEF MembersIn
<1>7. ASSUME NEW q \in Projects \ {p}
      PROVE  /\ MembersIn(Extended(points, <<p, ns>>, ids), q) = MembersIn(points, q)
             /\ MembersIn(Emptied(points, p), q) = MembersIn(points, q)
  BY <1>4 DEF MembersIn
<1> QED BY <1>2, <1>3, <1>5, <1>6, <1>7

\* Qdrant: the same; an alias is moved only to a collection that exists, and one that is
\* deleted takes its alias along, so that a live collection always exists.
THEOREM QdrantKeepsContract ==
  ASSUME NEW s \in QdrantVectors, NEW p \in Projects, NEW ns \in Namespaces, NEW ids \in SUBSET Ids
  PROVE  /\ {QdrantUpsert(s, p, ns, ids), QdrantSetAlias(s, p, ns), QdrantReset(s, p)}
              \subseteq QdrantVectors
         /\ QdrantView(QdrantUpsert(s, p, ns, ids), p) = Upserted(QdrantView(s, p), ns, ids)
         /\ QdrantView(QdrantSetAlias(s, p, ns), p) =
              IF <<p, ns>> \in s.exists THEN Pointed(QdrantView(s, p), ns) ELSE QdrantView(s, p)
         /\ QdrantView(QdrantReset(s, p), p) = NoVectors
         /\ \A q \in Projects \ {p} :
              \A r \in {QdrantUpsert(s, p, ns, ids), QdrantSetAlias(s, p, ns), QdrantReset(s, p)} :
                QdrantView(r, q) = QdrantView(s, q)
<1>1. /\ s.exists \in SUBSET Spaces /\ s.points \in [Spaces -> SUBSET Ids]
      /\ s.alias \in [Projects -> SUBSET Spaces]
      /\ \A q \in Projects : \A c \in s.alias[q] : c[1] = q /\ c \in s.exists
  BY DEF QdrantVectors
<1>2. /\ QdrantUpsert(s, p, ns, ids).exists = s.exists \cup {<<p, ns>>}
      /\ QdrantUpsert(s, p, ns, ids).alias = s.alias
      /\ QdrantUpsert(s, p, ns, ids).points = Extended(s.points, <<p, ns>>, ids)
      /\ QdrantReset(s, p).points = Emptied(s.points, p)
      /\ QdrantReset(s, p).exists = s.exists \ {c \in Spaces : c[1] = p}
      /\ \A q \in Projects : QdrantReset(s, p).alias[q] = s.alias[q] \ {c \in Spaces : c[1] = p}
  BY DEF QdrantUpsert, QdrantReset
<1>3. QdrantUpsert(s, p, ns, ids) \in QdrantVectors
  BY <1>1, PairsAre, MembersInAfter DEF QdrantUpsert, QdrantVectors
<1> DEFINE points == s.points
<1>a. points \in [Spaces -> SUBSET Ids]
  BY <1>1
<1> HIDE DEF points
<1> DEFINE more == Extended(points, <<p, ns>>, ids)
           none == Emptied(points, p)
<1>b. /\ MembersIn(none, p) = [n \in Namespaces |-> {}]
      /\ \A q \in Projects \ {p} : /\ MembersIn(more, q) = MembersIn(points, q)
                                   /\ MembersIn(none, q) = MembersIn(points, q)
  BY <1>a, MembersInAfter
<1> HIDE DEF more, none
<1>4. /\ MembersIn(none, p) = [n \in Namespaces |-> {}]
      /\ \A q \in Projects \ {p} : /\ MembersIn(more, q) = MembersIn(s.points, q)
                                   /\ MembersIn(none, q) = MembersIn(s.points, q)
  BY <1>b DEF points
<1>5. QdrantUpsert(s, p, ns, ids).points = more /\ QdrantReset(s, p).points = none
  BY <1>2 DEF more, none, points
<1>6. QdrantSetAlias(s, p, ns) \in QdrantVectors
  BY <1>1 DEF QdrantSetAlias, QdrantVectors
<1>7. QdrantReset(s, p) \in QdrantVectors
  <2>1. QdrantReset(s, p).alias \in [Projects -> SUBSET Spaces]
    BY <1>1 DEF QdrantReset
  <2>2. QdrantReset(s, p) \in [exists : SUBSET Spaces, points : [Spaces -> SUBSET Ids],
                               alias : [Projects -> SUBSET Spaces]]
    BY <1>1, MembersInAfter DEF QdrantReset
  <2>3. \A q \in Projects : \A c \in QdrantReset(s, p).alias[q] :
          c[1] = q /\ c \in QdrantReset(s, p).exists
    BY <1>1, <1>2
  <2> QED BY <2>2, <2>3 DEF QdrantVectors
<1>8. QdrantView(QdrantUpsert(s, p, ns, ids), p) = Upserted(QdrantView(s, p), ns, ids)
  <2>1. MembersIn(QdrantUpsert(s, p, ns, ids).points, p) = Extended(MembersIn(s.points, p), ns, ids)
    BY <1>1, <1>2, MembersInAfter
  <2> QED BY <1>2, <2>1 DEF QdrantView, Upserted
<1>9. ASSUME <<p, ns>> \in s.exists
      PROVE  QdrantView(QdrantSetAlias(s, p, ns), p) = Pointed(QdrantView(s, p), ns)
  <2>1. /\ QdrantSetAlias(s, p, ns).points = s.points
        /\ QdrantSetAlias(s, p, ns).alias[p] = {<<p, ns>>}
    BY <1>1, <1>9 DEF QdrantSetAlias
  <2>2. {n \in Namespaces : <<p, n>> \in QdrantSetAlias(s, p, ns).alias[p]} = {ns}
    BY <2>1
  <2> QED BY <2>1, <2>2 DEF QdrantView, Pointed
<1>10. <<p, ns>> \notin s.exists => QdrantSetAlias(s, p, ns) = s
  BY DEF QdrantSetAlias
<1>11. QdrantView(QdrantReset(s, p), p) = NoVectors
  <2>1. {n \in Namespaces : <<p, n>> \in QdrantReset(s, p).alias[p]} = {}
    BY <1>1, <1>2
  <2>2. MembersIn(QdrantReset(s, p).points, p) = [n \in Namespaces |-> {}]
    BY <1>4, <1>5
  <2> QED BY <2>1, <2>2 DEF QdrantView, NoVectors
<1>12. ASSUME NEW q \in Projects \ {p},
              NEW r \in {QdrantUpsert(s, p, ns, ids), QdrantSetAlias(s, p, ns), QdrantReset(s, p)}
       PROVE  QdrantView(r, q) = QdrantView(s, q)
  <2>1. QdrantReset(s, p).alias[q] = s.alias[q]
    <3>1. \A c \in s.alias[q] : c[1] # p
      BY <1>1
    <3>2. s.alias[q] \ {c \in Spaces : c[1] = p} = s.alias[q]
      BY <3>1
    <3> QED BY <1>2, <3>2
  <2>2. /\ QdrantSetAlias(s, p, ns).alias[q] = s.alias[q]
        /\ QdrantSetAlias(s, p, ns).points = s.points
    BY <1>1 DEF QdrantSetAlias
  <2>3. /\ MembersIn(QdrantUpsert(s, p, ns, ids).points, q) = MembersIn(s.points, q)
        /\ MembersIn(QdrantReset(s, p).points, q) = MembersIn(s.points, q)
    BY <1>4, <1>5
  <2>4. r.alias[q] = s.alias[q] /\ MembersIn(r.points, q) = MembersIn(s.points, q)
    BY <1>2, <2>1, <2>2, <2>3
  <2> QED BY <2>4 DEF QdrantView
<1> QED BY <1>3, <1>6, <1>7, <1>8, <1>9, <1>10, <1>11, <1>12

\* Pinecone: a pointer record in place of an alias keeps the contract as well, but for its
\* reset, whose errors are swallowed: what is left is any part of what the project had, other
\* projects lose nothing, and only where nothing is left has it done what it promises.
THEOREM PineconeKeepsContract ==
  ASSUME NEW s \in PineconeVectors, NEW p \in Projects, NEW ns \in Namespaces,
         NEW ids \in SUBSET Ids
  PROVE  /\ {PineconeUpsert(s, p, ns, ids), PineconeSetAlias(s, p, ns)} \cup PineconeResets(s, p)
              \subseteq PineconeVectors
         /\ PineconeView(PineconeUpsert(s, p, ns, ids), p) = Upserted(PineconeView(s, p), ns, ids)
         /\ PineconeView(PineconeSetAlias(s, p, ns), p) = Pointed(PineconeView(s, p), ns)
         /\ PineconeReset(s, p) \in PineconeResets(s, p)
         /\ PineconeView(PineconeReset(s, p), p) = NoVectors
         /\ \A r \in PineconeResets(s, p) :
              /\ PineconeView(r, p).alias \subseteq PineconeView(s, p).alias
              /\ \A n \in Namespaces :
                   PineconeView(r, p).members[n] \in {{}, PineconeView(s, p).members[n]}
         /\ \A q \in Projects \ {p} :
              \A r \in {PineconeUpsert(s, p, ns, ids), PineconeSetAlias(s, p, ns)} \cup PineconeResets(s, p) :
                PineconeView(r, q) = PineconeView(s, q)
<1>1. s.pointer \in [Projects -> SUBSET Namespaces] /\ s.vectors \in [Spaces -> SUBSET Ids]
  BY DEF PineconeVectors
<1>2. ASSUME NEW r \in PineconeResets(s, p)
      PROVE  /\ r \in PineconeVectors
             /\ PineconeView(r, p).alias \subseteq PineconeView(s, p).alias
             /\ \A n \in Namespaces :
                  PineconeView(r, p).members[n] \in {{}, PineconeView(s, p).members[n]}
             /\ \A q \in Projects \ {p} : PineconeView(r, q) = PineconeView(s, q)
  <2>1. PICK left \in {{}, s.pointer[p]}, gone \in SUBSET Namespaces :
          r = Left(s, p, left, gone)
    BY DEF PineconeResets
  <2>2. r \in PineconeVectors
    BY <1>1, <2>1 DEF Left, PineconeVectors
  <2>3. /\ r.pointer[p] = left /\ left \subseteq s.pointer[p]
        /\ \A q \in Projects \ {p} : r.pointer[q] = s.pointer[q]
    BY <1>1, <2>1 DEF Left
  <2>4. \A q \in Projects, n \in Namespaces :
          r.vectors[<<q, n>>] = IF q = p /\ n \in gone THEN {} ELSE s.vectors[<<q, n>>]
    BY <2>1 DEF Left, Spaces
  <2>5. \A q \in Projects \ {p} : MembersIn(r.vectors, q) = MembersIn(s.vectors, q)
    BY <2>4 DEF MembersIn
  <2>6. \A n \in Namespaces : MembersIn(r.vectors, p)[n] \in {{}, MembersIn(s.vectors, p)[n]}
    BY <2>4 DEF MembersIn
  <2> QED BY <2>2, <2>3, <2>5, <2>6 DEF PineconeView
<1>3. {PineconeUpsert(s, p, ns, ids), PineconeSetAlias(s, p, ns)} \subseteq PineconeVectors
  BY <1>1, MembersInAfter DEF PineconeUpsert, PineconeSetAlias, PineconeVectors
<1>4. PineconeView(PineconeUpsert(s, p, ns, ids), p) = Upserted(PineconeView(s, p), ns, ids)
  BY <1>1, MembersInAfter DEF PineconeUpsert, PineconeView, Upserted
<1>5. PineconeView(PineconeSetAlias(s, p, ns), p) = Pointed(PineconeView(s, p), ns)
  BY <1>1 DEF PineconeSetAlias, PineconeView, Pointed
<1>6. PineconeView(PineconeReset(s, p), p) = NoVectors
  BY <1>1, MembersInAfter DEF PineconeReset, PineconeView, NoVectors
<1>7. PineconeReset(s, p) \in PineconeResets(s, p)
  <2>1. Emptied(s.vectors, p)
          = [c \in Spaces |-> IF c[1] = p /\ c[2] \in Namespaces THEN {} ELSE s.vectors[c]]
    BY DEF Emptied, Spaces
  <2>2. PineconeReset(s, p) = Left(s, p, {}, Namespaces)
    BY <2>1 DEF PineconeReset, Left
  <2> QED BY <2>2 DEF PineconeResets
<1>8. ASSUME NEW q \in Projects \ {p},
             NEW r \in {PineconeUpsert(s, p, ns, ids), PineconeSetAlias(s, p, ns)}
      PROVE  PineconeView(r, q) = PineconeView(s, q)
  <2>1. MembersIn(Extended(s.vectors, <<p, ns>>, ids), q) = MembersIn(s.vectors, q)
    BY <1>1, MembersInAfter
  <2>2. r.pointer[q] = s.pointer[q] /\ MembersIn(r.vectors, q) = MembersIn(s.vectors, q)
    BY <1>1, <2>1 DEF PineconeUpsert, PineconeSetAlias
  <2> QED BY <2>2 DEF PineconeView
<1> QED BY <1>2, <1>3, <1>4, <1>5, <1>6, <1>7, <1>8
-----------------------------------------------------------------------------
(* The memory graph. *)

\* A HEAD at k: the first k events are in effect, the others tombstoned.
LEMMA HeadAt ==
  ASSUME NEW E, NEW log \in Seq(E), NEW k \in 0..Len(log)
  PROVE  LET m == [log |-> log, head |-> {<<k, k>>}]
         IN  InEffect(m) = SubSeq(log, 1, k) /\ Tombstoned(m) = Len(log) - k
<1> DEFINE m == [log |-> log, head |-> {<<k, k>>}]
<1>1. Offset(m) = k
  <2>1. m.head # {} /\ \A h \in m.head : h = <<k, k>>
    OBVIOUS
  <2>2. (CHOOSE h \in m.head : TRUE) = <<k, k>>
    BY <2>1
  <2> QED BY <2>1, <2>2 DEF Offset
<1>2. m.log = log /\ Len(log) \in Nat /\ k \in Nat /\ k <= Len(log)
  BY LenProperties
<1> HIDE DEF m
<1>3. Tombstoned(m) = Len(log) - k
  BY <1>1, <1>2 DEF Tombstoned
<1>4. InEffect(m) = SubSeq(log, 1, k)
  <2>1. CASE Len(log) > k
    BY <1>1, <1>2, <2>1 DEF InEffect
  <2>2. CASE Len(log) = k
    BY <1>1, <1>2, <2>2 DEF InEffect
  <2> QED BY <1>2, <2>1, <2>2
<1> QED BY <1>3, <1>4 DEF m

\* A HEAD that is moved back and forth leaves the log alone: rewinding tombstones what is
\* past the HEAD, and rolling forward again puts the same events back into effect.
THEOREM RewindIsUndone ==
  ASSUME NEW E, NEW m, m.log \in Seq(E), NEW to \in 0..Len(m.log), NEW from \in 0..Len(m.log)
  PROVE  LET back == SetHead(m, to, to)
             forth == SetHead(back, from, from)
         IN  /\ back.log = m.log /\ forth.log = m.log
             /\ InEffect(back) = SubSeq(m.log, 1, to)
             /\ Tombstoned(back) = Len(m.log) - to
             /\ InEffect(forth) = SubSeq(m.log, 1, from)
             /\ Tombstoned(forth) = Len(m.log) - from
<1> DEFINE back == [log |-> m.log, head |-> {<<to, to>>}]
           forth == [log |-> m.log, head |-> {<<from, from>>}]
<1>1. SetHead(m, to, to) = back /\ SetHead(back, from, from) = forth
  BY DEF SetHead
<1>2. InEffect(back) = SubSeq(m.log, 1, to) /\ Tombstoned(back) = Len(m.log) - to
  BY HeadAt
<1>3. InEffect(forth) = SubSeq(m.log, 1, from) /\ Tombstoned(forth) = Len(m.log) - from
  BY HeadAt
<1>4. back.log = m.log /\ forth.log = m.log
  OBVIOUS
<1> HIDE DEF back, forth
<1> QED BY <1>1, <1>2, <1>3, <1>4

\* The two graphs differ in what an append does to the HEAD.  After a rewind the JSON stub's
\* next append puts every tombstoned event back into effect; Postgres' leaves the new events
\* tombstoned, as the old ones are.
THEOREM AppendAfterRewind ==
  ASSUME NEW E, NEW log \in Seq(E), NEW events \in Seq(E), NEW to \in 0..Len(log)
  PROVE  LET m == [log |-> log, head |-> {<<to, to>>}]
         IN  /\ InEffect(StubAppend(m, events)) = log \o events
             /\ Tombstoned(StubAppend(m, events)) = 0
             /\ InEffect(PgAppend(m, events)) = InEffect(m)
             /\ Tombstoned(PgAppend(m, events)) = Tombstoned(m) + Len(events)
<1> DEFINE m == [log |-> log, head |-> {<<to, to>>}]
           all == log \o events
<1>1. /\ Len(log) \in Nat /\ Len(events) \in Nat
      /\ all \in Seq(E) /\ Len(all) = Len(log) + Len(events)
      /\ \A i \in 1..Len(log) : all[i] = log[i]
  BY LenProperties, ConcatProperties
<1>2. StubAppend(m, events) = [log |-> all, head |-> {<<Len(log) + Len(events), Len(log) + Len(events)>>}]
  BY DEF StubAppend
<1>3. PgAppend(m, events) = [log |-> all, head |-> {<<to, to>>}]
  BY DEF PgAppend
<1> HIDE DEF all
<1>4. SubSeq(all, 1, Len(all)) = all
  BY <1>1, SubSeqProperties
<1>5. /\ InEffect(StubAppend(m, events)) = all
      /\ Tombstoned(StubAppend(m, events)) = 0
  <2> DEFINE n == Len(log) + Len(events)
  <2>1. n \in 0..Len(all) /\ n = Len(all)
    BY <1>1
  <2> HIDE DEF n
  <2>2. /\ InEffect([log |-> all, head |-> {<<n, n>>}]) = SubSeq(all, 1, n)
        /\ Tombstoned([log |-> all, head |-> {<<n, n>>}]) = Len(all) - n
    BY <1>1, <2>1, HeadAt
  <2>3. StubAppend(m, events) = [log |-> all, head |-> {<<n, n>>}]
    BY <1>2 DEF n
  <2>4. Len(all) - n = 0
    BY <1>1, <2>1
  <2>5. SubSeq(all, 1, n) = all
    BY <1>4, <2>1
  <2> HIDE DEF m
  <2> QED BY <2>2, <2>3, <2>4, <2>5
<1>6. SubSeq(all, 1, to) = SubSeq(log, 1, to)
  <2>1. to \in Nat /\ to <= Len(log) /\ to <= Len(all)
    BY <1>1
  <2> QED BY <1>1, <2>1, SubSeqProperties
<1>7. InEffect(m) = SubSeq(log, 1, to) /\ Tombstoned(m) = Len(log) - to
  BY HeadAt
<1>8. InEffect(PgAppend(m, events)) = SubSeq(all, 1, to) /\ Tombstoned(PgAppend(m, events)) = Len(all) - to
  <2>1. to \in 0..Len(all)
    BY <1>1
  <2>2. /\ InEffect([log |-> all, head |-> {<<to, to>>}]) = SubSeq(all, 1, to)
        /\ Tombstoned([log |-> all, head |-> {<<to, to>>}]) = Len(all) - to
    BY <1>1, <2>1, HeadAt
  <2> HIDE DEF m
  <2> QED BY <1>3, <2>2
<1> HIDE DEF m
<1>9. Tombstoned(PgAppend(m, events)) = Tombstoned(m) + Len(events)
  BY <1>1, <1>7, <1>8
<1>10. InEffect(PgAppend(m, events)) = InEffect(m)
  BY <1>6, <1>7, <1>8
<1> QED BY <1>5, <1>9, <1>10 DEF m, all

-----------------------------------------------------------------------------
(* The schema store. *)

\* A restore never takes the schema down: it reaches its target, or refuses and changes
\* nothing, and it refuses exactly the down-migrations.
THEOREM SchemaOnlyGoesUp ==
  ASSUME NEW s \in Schemas, NEW v \in Nat
  PROVE  LET after == SchemaRestore(s, v)
         IN  /\ after \in Schemas
             /\ \A live \in s.version : \A w \in after.version : w >= live
             /\ IF \E live \in s.version : v < live THEN after = s ELSE after.version = {v}
<1>1. /\ s.version \in {{}} \cup {{w} : w \in Nat} /\ s.history \in Seq(Nat)
      /\ s = [version |-> s.version, history |-> s.history]
  BY DEF Schemas
<1>2. Append(s.history, v) \in Seq(Nat)
  BY <1>1, AppendProperties
<1>3. s.version \subseteq Nat /\ \A live, w \in s.version : w = live
  BY <1>1
<1>4. Migrate(s, v) \in Schemas /\ Migrate(s, v).version = {v}
  BY <1>2 DEF Migrate, Schemas
<1>5. CASE RefusesDown(s, v)
  <2>1. SchemaRestore(s, v) = s
    BY <1>5 DEF SchemaRestore
  <2>2. \A live \in s.version : \A w \in s.version : w >= live
    BY <1>3
  <2>3. \E live \in s.version : v < live
    BY <1>5 DEF RefusesDown
  <2> QED BY <2>1, <2>2, <2>3
<1>6. CASE ~RefusesDown(s, v)
  <2>1. SchemaRestore(s, v) = Migrate(s, v)
    BY <1>6 DEF SchemaRestore
  <2>2. \A live \in s.version : v >= live
    BY <1>3, <1>6 DEF RefusesDown
  <2>3. ~ \E live \in s.version : v < live
    BY <1>6 DEF RefusesDown
  <2> QED BY <1>4, <2>1, <2>2, <2>3
<1> QED BY <1>5, <1>6
=============================================================================
