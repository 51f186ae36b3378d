------------------------------- MODULE Sandbox -------------------------------
(***************************************************************************)
(* The tool calls of an agent in preview (runtime/sandbox_interceptor.py,  *)
(* mocking): one dispatch seam answers a call from the real tool, from an  *)
(* in-memory store or from the mock registry.  A tool is a record of its   *)
(* name, its class and whether it has side effects; arguments, schemas and *)
(* results are values.                                                     *)
(***************************************************************************)
EXTENDS Integers, Sequences

CONSTANT None   \* Python's None: no schema, no value, a result of null

\* Two argument lists or schemas with one fingerprint: none at all is an empty one.
Norm(x) == IF x = None THEN <<>> ELSE x
Key(tool, schema, args) == <<tool, Norm(schema), Norm(args)>>

-----------------------------------------------------------------------------
(* The mock registry: cassettes (a set of key and result), and the stubs by tool.   *)

Recorded(cassettes, key, result) ==
  {c \in cassettes : c.key # key} \cup {[key |-> key, result |-> result]}

\* A cassette that holds null cannot be told from no cassette.
Replayable(cassettes, key) == {c \in cassettes : c.key = key /\ c.result # None}

\* A stub that is registered again replaces the earlier one.
Registered(stubs, tool, answer) ==
  {s \in stubs : s.tool # tool} \cup {[tool |-> tool, answer |-> answer]}

Resolve(registry, call) ==
  LET replayed == Replayable(registry.cassettes, Key(call.tool.name, call.tool.schema, call.args))
      stubs == {s \in registry.stubs : s.tool = call.tool.name}
  IN  IF replayed # {} THEN [result |-> (CHOOSE c \in replayed : TRUE).result, source |-> "cassette"]
      ELSE IF stubs # {} THEN [result |-> (CHOOSE s \in stubs : TRUE).answer, source |-> "stub"]
      ELSE [result |-> call.tool.generated, source |-> "autogen"]

-----------------------------------------------------------------------------
(* The interceptor: what the real tools were made to do, the store that stands in   *)
(* for theirs, how many calls were let through and caught, and the last answer.     *)

Box == [effects |-> <<>>, store |-> {}, passed |-> 0, intercepted |-> 0, answer |-> <<>>]

\* ToolInvoker.invoke: the tool itself runs; what it raises is a result that says so.
Real(box, call) ==
  [box EXCEPT !.effects = Append(@, call.tool), !.passed = @ + 1,
              !.answer = <<"real", IF call.tool.raises THEN "error" ELSE "result">>]

MustMock(mode, tool) ==
  mode = "preview" /\ (tool.sideEffecting \/ tool.class \in {"write", "external"})

\* The sandbox's store keeps the last value written to a key.
Written(box, call) ==
  [box EXCEPT !.intercepted = @ + 1, !.answer = <<"sandbox", call.args>>,
              !.store = {e \in @ : e.key # call.args.key} \cup {call.args}]

Mocked(box, registry, call) ==
  LET found == Resolve(registry, call)
  IN  [box EXCEPT !.intercepted = @ + 1, !.answer = <<found.source, found.result>>]

Invoke(box, registry, mode, call) ==
  IF ~MustMock(mode, call.tool) THEN Real(box, call)
  ELSE IF call.tool.class = "write" THEN Written(box, call)
  ELSE Mocked(box, registry, call)
=============================================================================
