------------------------------ MODULE StoreChecks ------------------------------
(***************************************************************************)
(* What the state stores compute over bounded sequences of calls, against  *)
(* a definition that does not say how: TLC evaluates these with every run  *)
(* of a module that extends this one.                                      *)
(***************************************************************************)
EXTENDS Integers, Sequences

LOCAL INSTANCE SequencesExt

LOCAL Names == {"n1", "n2"}
LOCAL Vecs == {1, 2}
LOCAL S == INSTANCE Stores WITH Projects <- {"p", "q"}, Namespaces <- Names, Ids <- Vecs

\* Calls on a vector store of project p; a namespace is made live once it has been written.
LOCAL Writes == [op : {"upsert"}, ns : Names, ids : {{1}, {1, 2}}]
LOCAL Calls == Writes \cup [op : {"alias"}, ns : Names] \cup {[op |-> "reset"]}
LOCAL Legal(calls) ==
  \A k \in DOMAIN calls : calls[k].op = "alias" =>
    \E j \in 1..(k - 1) : /\ calls[j].op = "upsert" /\ calls[j].ns = calls[k].ns
                          /\ \A i \in j..k : calls[i].op # "reset"
LOCAL Sequences4 == {calls \in BoundedSeq(Calls, 4) : Legal(calls)}

\* The last namespace made live since the last reset, and what was written to it since then.
LOCAL Since(calls) == {k \in DOMAIN calls : \A j \in k..Len(calls) : calls[j].op # "reset"}
LOCAL LiveOf(calls) ==
  {calls[k].ns : k \in {j \in Since(calls) : /\ calls[j].op = "alias"
                                             /\ \A i \in (j + 1)..Len(calls) : calls[i].op # "alias"}}
LOCAL Written(calls, ns) ==
  UNION {calls[k].ids : k \in {j \in Since(calls) : calls[j].op = "upsert" /\ calls[j].ns = ns}}

LOCAL NoRows == [alias   |-> [p \in {"p", "q"} |-> {}],
                 version |-> [p \in {"p", "q"} |-> [n \in Names |-> [i \in Vecs |-> 0]]]]
LOCAL NoCollections == [exists |-> {}, points |-> [c \in S!Spaces |-> {}],
                        alias |-> [p \in {"p", "q"} |-> {}]]
LOCAL NoRecords == [pointer |-> [p \in {"p", "q"} |-> {}], vectors |-> [c \in S!Spaces |-> {}]]

LOCAL PgDoes(s, c) == CASE c.op = "upsert" -> S!PgUpsert(s, "p", c.ns, c.ids)
                        [] c.op = "alias"  -> S!PgSetAlias(s, "p", c.ns)
                        [] c.op = "reset"  -> S!PgReset(s, "p")
LOCAL QdrantDoes(s, c) == CASE c.op = "upsert" -> S!QdrantUpsert(s, "p", c.ns, c.ids)
                            [] c.op = "alias"  -> S!QdrantSetAlias(s, "p", c.ns)
                            [] c.op = "reset"  -> S!QdrantReset(s, "p")
LOCAL PineconeDoes(s, c) == CASE c.op = "upsert" -> S!PineconeUpsert(s, "p", c.ns, c.ids)
                              [] c.op = "alias"  -> S!PineconeSetAlias(s, "p", c.ns)
                              [] c.op = "reset"  -> S!PineconeReset(s, "p")

\* After any calls, none of them failing, the three servers agree on the live namespace and on the number of its
\* vectors, and both are what was last made live and what was written there.
ASSUME BackendsAgree ==
  \A calls \in Sequences4 :
    LET pg == S!PgView(FoldLeft(PgDoes, NoRows, calls), "p")
        qdrant == S!QdrantView(FoldLeft(QdrantDoes, NoCollections, calls), "p")
        pinecone == S!PineconeView(FoldLeft(PineconeDoes, NoRecords, calls), "p")
    IN  /\ pg = qdrant /\ pg = pinecone
        /\ pg.alias = LiveOf(calls)
        /\ \A n \in Names : pg.members[n] = Written(calls, n)

\* Moves of the HEAD and appends in any order: the part of the log in effect is a beginning
\* of it, the rest is tombstoned, and no event is ever lost or changed.
LOCAL Moves == [op : {"append"}, events : {<<"x">>, <<"y", "z">>}] \cup [op : {"head"}, to : 0..3]
LOCAL StubMoves(m, c) == IF c.op = "append" THEN S!StubAppend(m, c.events) ELSE S!SetHead(m, c.to, c.to)
LOCAL PgMoves(m, c) == IF c.op = "append" THEN S!PgAppend(m, c.events) ELSE S!SetHead(m, c.to, c.to)
LOCAL AllEvents(calls) ==
  FoldLeft(LAMBDA log, c : IF c.op = "append" THEN log \o c.events ELSE log, <<>>, calls)

ASSUME LogIsKept ==
  \A calls \in BoundedSeq(Moves, 3) :
    \A m \in {FoldLeft(StubMoves, S!NoMemory, calls), FoldLeft(PgMoves, S!NoMemory, calls)} :
      /\ m.log = AllEvents(calls)
      /\ IsPrefix(S!InEffect(m), m.log)
      /\ Len(S!InEffect(m)) + S!Tombstoned(m) = Len(m.log)

\* Restores of any versions: the version never goes down, and the history is of those that
\* were not refused.
ASSUME SchemaNeverGoesDown ==
  \A targets \in BoundedSeq(1..3, 4) :
    LET after(k) == FoldLeft(S!SchemaRestore, [version |-> {}, history |-> <<>>], SubSeq(targets, 1, k))
    IN  /\ \A k \in DOMAIN targets : \A v \in after(k - 1).version :
             /\ \A w \in after(k).version : w >= v
             /\ targets[k] < v <=> after(k) = after(k - 1)
        /\ IsSorted(after(Len(targets)).history, LAMBDA v, w : v < w \/ v = w)

\* A rollback uses the stores that seed has filled, whatever the backend, except Pinecone,
\* whose vectors seed writes to the JSON stub.
ASSUME SeededStoresAreUsed ==
  \A b \in S!Backends :
    /\ S!MemoryStoreOf(b, TRUE) = S!SeedsMemoryIn(b)
    /\ S!VectorStoreOf(b, TRUE) = S!SeedsVectorsIn(b) <=> b # "pinecone"
=============================================================================
