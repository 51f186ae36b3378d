-------------------------------- MODULE Relay --------------------------------
(***************************************************************************)
(* What a gateway session promises its client and its primary backend,     *)
(* without saying how: frames arrive once and in order, the end of the     *)
(* input comes after the last of them, answers come back in order, and a   *)
(* session is only reported complete when every answer has been shown.     *)
(* Shadow backends do not appear: nothing here may depend on them.         *)
(***************************************************************************)
EXTENDS Integers, Sequences

VARIABLES client,   \* "open", "ended" (half-closed) or "gone" (cancelled)
          sent,     \* frames the client has sent: 1..sent
          got,      \* frames the backend has received, in order
          eof,      \* the backend has seen the end of its input
          over,     \* the backend has ended its stream of answers
          answers,  \* answers the backend has given
          seen,     \* answers the client has been given
          outcome   \* "running", "completed" or "failed"

vars == <<client, sent, got, eof, over, answers, seen, outcome>>

Init ==
  /\ client = "open"
  /\ sent = 0
  /\ got = <<>>
  /\ eof = FALSE
  /\ over = FALSE
  /\ answers = 0
  /\ seen = 0
  /\ outcome = "running"

Running == outcome = "running"

Send == /\ Running /\ client = "open"
        /\ sent' = sent + 1
        /\ UNCHANGED <<client, got, eof, over, answers, seen, outcome>>

Stop == /\ client # "gone"
        /\ client' \in {"ended", "gone"}
        /\ UNCHANGED <<sent, got, eof, over, answers, seen, outcome>>

Deliver == /\ Running /\ ~eof /\ Len(got) < sent
           /\ got' = Append(got, Len(got) + 1)
           /\ UNCHANGED <<client, sent, eof, over, answers, seen, outcome>>

\* A client that goes away may look like one that ends its input early.
EndInput == /\ Running
            /\ client = "gone" \/ (client = "ended" /\ Len(got) = sent)
            /\ eof' = TRUE
            /\ UNCHANGED <<client, sent, got, over, answers, seen, outcome>>

Answer == /\ Running /\ ~over /\ got # <<>>
          /\ answers' = answers + 1
          /\ UNCHANGED <<client, sent, got, eof, over, seen, outcome>>

Show == /\ Running /\ seen < answers
        /\ seen' = seen + 1
        /\ UNCHANGED <<client, sent, got, eof, over, answers, outcome>>

BackendOver == /\ Running
               /\ over' = TRUE
               /\ UNCHANGED <<client, sent, got, eof, answers, seen, outcome>>

\* Complete: the backend has ended and everything it said was shown (or the
\* client ended without a word); otherwise the session fails.
Finish == /\ Running
          /\ \/ outcome' = "completed" /\ seen = answers /\ (over \/ sent = 0)
             \/ outcome' = "failed"
          /\ over' \in {over, TRUE}
          /\ UNCHANGED <<client, sent, got, eof, answers, seen>>

Next == Send \/ Stop \/ Deliver \/ EndInput \/ Answer \/ Show \/ BackendOver \/ Finish

Spec == Init /\ [][Next]_vars
=============================================================================
