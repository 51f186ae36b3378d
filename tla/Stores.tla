-------------------------------- MODULE Stores --------------------------------
(***************************************************************************)
(* The state stores behind a rollback's pointers (rollback/stores): four   *)
(* vector stores, two memory graphs and the schema store.  Every operation *)
(* is a function from a store's content to the next one.  A name, a vector *)
(* id or an event is a value; a digest is what is digested; "none" is the  *)
(* empty set of a field that holds at most one value.                      *)
(***************************************************************************)
EXTENDS Integers, Sequences, FiniteSets

CONSTANTS Projects, Namespaces, Ids

-----------------------------------------------------------------------------
(* What a rollback relies on: which namespace is live, and what is in each.      *)

NoVectors == [alias |-> {}, members |-> [n \in Namespaces |-> {}]]
Extended(members, x, ids) == [members EXCEPT ![x] = @ \cup ids]
Upserted(v, ns, ids) == [alias |-> v.alias, members |-> Extended(v.members, ns, ids)]
Pointed(v, ns) == [alias |-> {ns}, members |-> v.members]

\* live_vector_count
Count(v) == Cardinality({m \in Namespaces \X Ids : m[1] \in v.alias /\ m[2] \in v.members[m[1]]})

\* A write of the vectors of one namespace adds one to the version of each; 0 is absent.
Bumped(versions, ids) == [i \in Ids |-> versions[i] + (IF i \in ids THEN 1 ELSE 0)]
NoVersions == [n \in Namespaces |-> [i \in Ids |-> 0]]
Present(versions) == {i \in Ids : versions[i] > 0}
Members(version) == [n \in Namespaces |-> Present(version[n])]

-----------------------------------------------------------------------------
(* VectorStoreStub: the "vector" part of one JSON document, which knows no project. *)

StubVectors == [alias : SUBSET Namespaces, version : [Namespaces -> [Ids -> Nat]]]

\* A snapshot that is frozen again is replaced.
StubUpsert(v, ns, ids) == [alias   |-> v.alias,
                           version |-> [v.version EXCEPT ![ns] = Bumped(v.version[ns], ids)]]
StubFreeze(frozen, v, ns, snap) ==
  {f \in frozen : f.ns # ns \/ f.snap # snap}
    \cup {[ns |-> ns, snap |-> snap, members |-> Present(v.version[ns])]}
StubSetAlias(v, ns) == [alias |-> {ns}, version |-> v.version]
StubView(v) == [alias |-> v.alias, members |-> Members(v.version)]

\* JsonBackend: an operation loads the document, changes its own part and saves it all.
JsonSave(loaded, part, content) == [loaded EXCEPT ![part] = content]

-----------------------------------------------------------------------------
(* PgVectorStore: rows of every project in the same tables.                      *)

PgVectors == [alias   : [Projects -> SUBSET Namespaces],
              version : [Projects -> [Namespaces -> [Ids -> Nat]]]]

PgUpsert(s, p, ns, ids) ==
  [alias |-> s.alias, version |-> [s.version EXCEPT ![p][ns] = Bumped(s.version[p][ns], ids)]]

\* ON CONFLICT DO NOTHING: a snapshot that is frozen again stays as it is.
PgFreeze(frozen, s, p, ns, snap) ==
  IF \E f \in frozen : f.project = p /\ f.ns = ns /\ f.snap = snap THEN frozen
  ELSE frozen \cup {[project |-> p, ns |-> ns, snap |-> snap,
                     members |-> Present(s.version[p][ns])]}
PgSetAlias(s, p, ns) ==
  [alias |-> [s.alias EXCEPT ![p] = {ns}], version |-> s.version]
PgReset(s, p) ==
  [alias |-> [s.alias EXCEPT ![p] = {}], version |-> [s.version EXCEPT ![p] = NoVersions]]
PgThaw(frozen, p) == {f \in frozen : f.project # p}   \* reset, too
PgView(s, p) == [alias |-> s.alias[p], members |-> Members(s.version[p])]

-----------------------------------------------------------------------------
(* QdrantStore: a collection per project and namespace, an alias per project that    *)
(* names a collection.                                                               *)

Spaces == Projects \X Namespaces
MembersIn(points, p) == [n \in Namespaces |-> points[<<p, n>>]]
Emptied(points, p) == [c \in Spaces |-> IF c[1] = p THEN {} ELSE points[c]]
QdrantVectors ==
  {s \in [exists : SUBSET Spaces, points : [Spaces -> SUBSET Ids], alias : [Projects -> SUBSET Spaces]] :
     \A q \in Projects : \A c \in s.alias[q] : c[1] = q /\ c \in s.exists}

QdrantUpsert(s, p, ns, ids) ==
  [exists |-> s.exists \cup {<<p, ns>>}, alias |-> s.alias,
   points |-> Extended(s.points, <<p, ns>>, ids)]

\* Delete and create in one request, which Qdrant refuses for a collection it does not have.
QdrantSetAlias(s, p, ns) ==
  IF <<p, ns>> \notin s.exists THEN s
  ELSE [exists |-> s.exists, points |-> s.points, alias |-> [s.alias EXCEPT ![p] = {<<p, ns>>}]]

\* A collection that is deleted takes the aliases that name it along.
QdrantReset(s, p) ==
  LET own == {c \in Spaces : c[1] = p}
  IN  [exists |-> s.exists \ own, points |-> Emptied(s.points, p),
       alias  |-> [q \in Projects |-> s.alias[q] \ own]]
QdrantView(s, p) == [alias   |-> {n \in Namespaces : <<p, n>> \in s.alias[p]},
                     members |-> MembersIn(s.points, p)]

-----------------------------------------------------------------------------
(* PineconeStore: no aliases; a pointer record per project names the live namespace. *)

PineconeVectors == [pointer : [Projects -> SUBSET Namespaces], vectors : [Spaces -> SUBSET Ids]]

PineconeUpsert(s, p, ns, ids) ==
  [pointer |-> s.pointer, vectors |-> Extended(s.vectors, <<p, ns>>, ids)]
PineconeSetAlias(s, p, ns) ==
  [pointer |-> [s.pointer EXCEPT ![p] = {ns}], vectors |-> s.vectors]

\* A reset that nothing goes wrong with.
PineconeReset(s, p) ==
  [pointer |-> [s.pointer EXCEPT ![p] = {}], vectors |-> Emptied(s.vectors, p)]

\* It deletes one namespace after the other and swallows every error: it returns as if all
\* were gone, whatever is left of the vectors and of the pointer.
Left(s, p, pointer, gone) ==
  [pointer |-> [s.pointer EXCEPT ![p] = pointer],
   vectors |-> [c \in Spaces |-> IF c[1] = p /\ c[2] \in gone THEN {} ELSE s.vectors[c]]]
PineconeResets(s, p) ==
  {Left(s, p, pointer, gone) : pointer \in {{}, s.pointer[p]}, gone \in SUBSET Namespaces}

PineconeView(s, p) == [alias |-> s.pointer[p], members |-> MembersIn(s.vectors, p)]

-----------------------------------------------------------------------------
(* The memory graph: a log that only grows, and a HEAD <<snapshot_seq, log_offset>>. *)

NoMemory == [log |-> <<>>, head |-> {}]

\* MemoryGraphStub's append and append_many move the HEAD to the end of the log.
StubAppend(m, events) ==
  [log  |-> m.log \o events,
   head |-> {<<Len(m.log) + Len(events), Len(m.log) + Len(events)>>}]

\* PgMemoryStore's append_many leaves the HEAD where it is.
PgAppend(m, events) == [log |-> m.log \o events, head |-> m.head]

SetHead(m, snapshotSeq, logOffset) == [log |-> m.log, head |-> {<<snapshotSeq, logOffset>>}]

Offset(m) == IF m.head = {} THEN 0 ELSE (CHOOSE h \in m.head : TRUE)[2]
Tombstoned(m) == IF Len(m.log) > Offset(m) THEN Len(m.log) - Offset(m) ELSE 0
InEffect(m) == SubSeq(m.log, 1, IF Len(m.log) > Offset(m) THEN Offset(m) ELSE Len(m.log))

-----------------------------------------------------------------------------
(* The schema store: a version, if there is one, and the history of migrations.      *)

Schemas == [version : {{}} \cup {{v} : v \in Nat}, history : Seq(Nat)]
Migrate(s, v) == [version |-> {v}, history |-> Append(s.history, v)]

\* A down-migration would drop data: restore raises and nothing is changed.
RefusesDown(s, v) == \E live \in s.version : v < live
SchemaRestore(s, v) == IF RefusesDown(s, v) THEN s ELSE Migrate(s, v)

-----------------------------------------------------------------------------
(* Which stores a process uses.                                                      *)

Backends == {"json", "pgvector", "qdrant", "pinecone"}

\* _stores: of a rollback, with or without a connection.
VectorStoreOf(backend, connected) ==
  IF backend = "json" \/ (backend = "pgvector" /\ ~connected) THEN "stub" ELSE backend
MemoryStoreOf(backend, connected) ==
  IF backend = "pgvector" /\ connected THEN "pgvector" ELSE "stub"

\* seed: where the demo project's vectors and alias are written.
SeedsVectorsIn(backend) == IF backend \in {"pgvector", "qdrant"} THEN backend ELSE "stub"
SeedsMemoryIn(backend) == IF backend = "pgvector" THEN backend ELSE "stub"
=============================================================================
