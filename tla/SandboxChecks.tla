---------------------------- MODULE SandboxChecks ----------------------------
(***************************************************************************)
(* What the sandbox does over bounded sequences of calls: TLC evaluates    *)
(* these with every run of a module that extends this one.                 *)
(***************************************************************************)
EXTENDS Integers, Sequences

LOCAL INSTANCE SequencesExt
LOCAL INSTANCE FiniteSetsExt

LOCAL Null == <<"null">>
LOCAL B == INSTANCE Sandbox WITH None <- Null

\* A tool of every class, with and without side effects, and one that raises.
LOCAL Tools == [name : {"t"}, class : {"read", "write", "external"}, sideEffecting : BOOLEAN,
                raises : {FALSE}, schema : {Null}, generated : {"mock"}]
               \cup {[name |-> "t", class |-> "read", sideEffecting |-> FALSE,
                      raises |-> TRUE, schema |-> Null, generated |-> "mock"]}
LOCAL Args == [key : {"k", "l"}, value : {1, 2}]
LOCAL Calls == [tool : Tools, args : Args]
LOCAL Empty == [cassettes |-> {}, stubs |-> {}]
LOCAL After(calls) == FoldLeft(LAMBDA box, c : B!Invoke(box, Empty, "preview", c), B!Box, calls)

\* Whatever an agent in preview calls, only tools that read, and have no side effects, run;
\* every call is let through or caught; and the stand-in store holds, of every key, what the
\* last write of it wrote.
ASSUME PreviewRunsNothing ==
  \A calls \in BoundedSeq(Calls, 2) :
    LET box == After(calls)
        writes(k) == {i \in DOMAIN calls : calls[i].tool.class = "write" /\ calls[i].args.key = k}
    IN  /\ \A i \in DOMAIN box.effects :
             box.effects[i].class = "read" /\ ~box.effects[i].sideEffecting
        /\ box.passed = Len(box.effects) /\ box.passed + box.intercepted = Len(calls)
        /\ box.store = {calls[Max(writes(k))].args : k \in {j \in {"k", "l"} : writes(j) # {}}}

\* A response that was recorded answers the same call, before any stub, until the tool's
\* schema changes; only a recorded null is never played, and no schema is an empty schema.
ASSUME RecordedIsReplayed ==
  \A recorded, live \in {Null, <<>>, <<"v2">>}, result \in {Null, <<"r">>}, stubbed \in BOOLEAN :
    LET tool == [name |-> "t", class |-> "external", sideEffecting |-> TRUE, raises |-> FALSE,
                 schema |-> live, generated |-> "mock"]
        registry == [cassettes |-> B!Recorded(B!Recorded({}, B!Key("t", recorded, Null), <<"old">>),
                                              B!Key("t", recorded, <<>>), result),
                     stubs     |-> IF stubbed THEN B!Registered({}, "t", <<"s">>) ELSE {}]
        answer == B!Invoke(B!Box, registry, "preview", [tool |-> tool, args |-> <<>>]).answer
        same == recorded = live \/ {recorded, live} = {Null, <<>>}
    IN  answer = IF same /\ result # Null THEN <<"cassette", <<"r">>>>
                 ELSE IF stubbed THEN <<"stub", <<"s">>>> ELSE <<"autogen", "mock">>
=============================================================================
