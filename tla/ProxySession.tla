----------------------------- MODULE ProxySession -----------------------------
(***************************************************************************)
(* One Converse session through the gateway: GatewayServicer.Converse and  *)
(* its zero-copy twin (Python, asyncio tasks) or Server.Converse and       *)
(* ConverseRaw (Go, goroutines), entered directly over gRPC or through the *)
(* WebSocket bridge.  A pump copies the client's frames to the primary and *)
(* offers them to the shadow lanes; the handler opens the calls, passes    *)
(* the answers back and tears everything down.                             *)
(*                                                                         *)
(* Sessions share only counters and pooled channels, so one session is     *)
(* modelled.  A frame is its number; what it says is never looked at.      *)
(***************************************************************************)
EXTENDS Integers, Sequences

CONSTANTS Shadows,     \* shadow backends of the route
          MaxFrames,   \* bound on the client's frames
          MaxAnswers,  \* bound on the primary's answers
          Window,      \* messages in flight on a stream (HTTP/2 flow control)
          QueueCap     \* bound of a shadow lane's queue

ASSUME SessionBounds == {MaxFrames, MaxAnswers, Window, QueueCap} \subseteq Nat \ {0}

VARIABLES kind,      \* which gateway serves: "python" or "go"
          via,       \* "grpc", or "ws": the client is the bridge of a browser
          client,    \* "open", "ended" (half-closed), "gone" (cancelled)
          outbox,    \* frames in the bridge's outbound queue
          sent,      \* frames handed to the gateway's stream
          pc,        \* the handler
          pump,      \* the pump task
          read,      \* frames the pump has read
          got,       \* frames the primary has received
          eof,       \* done_writing / CloseSend has reached the primary
          primary,   \* the primary's call
          answers,   \* answers the primary has given
          seen,      \* answers passed on to the client
          heard,     \* answers the client has read
          lane       \* per shadow: queue, writer, drainer and call

path == <<kind, via>>
inflow == <<client, outbox, sent>>
pumped == <<read, got, eof>>
outflow == <<primary, answers, seen, heard>>
vars == <<path, inflow, pc, pump, pumped, outflow, lane>>

Ended == {"completed", "aborted", "cut"}   \* cut: cancelled while settling
Settled == {"done", "failed", "cancelled"} \* the pump task is over

Lane == [queue : 0..QueueCap, marker : BOOLEAN,
         writer : {"get", "write", "done", "cancelled"},
         drainer : {"read", "done", "cancelled"},
         call : {"none", "pending", "open", "half", "finished", "cancelled"},
         mirrored : 0..MaxFrames, dropped : 0..MaxFrames]

\* A lane that is not opened yet, or never will be, has nothing to release.
EmptyLane(writer, drainer, call) ==
  [queue |-> 0, marker |-> FALSE, writer |-> writer, drainer |-> drainer, call |-> call,
   mirrored |-> 0, dropped |-> 0]
NoLane == EmptyLane("done", "done", "none")
PendingLane == EmptyLane("done", "done", "pending")
NewLane == EmptyLane("get", "read", "open")

TypeOK ==
  /\ kind \in {"python", "go"} /\ via \in {"grpc", "ws"}
  /\ client \in {"open", "ended", "gone"}
  /\ outbox \in 0..MaxFrames /\ sent \in 0..MaxFrames
  /\ pc \in {"wait", "dial", "mirror", "relay", "yield", "settle"} \cup Ended
  /\ pump \in {"off", "read", "write", "closing"} \cup Settled
  /\ read \in 0..MaxFrames
  /\ got \in Seq(1..MaxFrames) /\ eof \in BOOLEAN
  /\ primary \in {"none", "open", "ended", "failed", "cancelled"}
  /\ answers \in 0..MaxAnswers /\ seen \in 0..MaxAnswers /\ heard \in 0..MaxAnswers
  /\ lane \in [Shadows -> Lane]

Init ==
  /\ kind \in {"python", "go"} /\ via \in {"grpc", "ws"}
  /\ client = "open" /\ outbox = 0 /\ sent = 0
  /\ pc = "wait" /\ pump = "off"
  /\ read = 0 /\ got = <<>> /\ eof = FALSE
  /\ primary = "none" /\ answers = 0 /\ seen = 0 /\ heard = 0
  /\ lane = [s \in Shadows |-> NoLane]

-----------------------------------------------------------------------------
(* The client, or the bridge in front of it. *)

\* A browser message waits in the bridge's outbound queue.
Type ==
  /\ via = "ws" /\ client = "open" /\ pc \notin Ended
  /\ outbox + sent < MaxFrames
  /\ outbox' = outbox + 1
  /\ UNCHANGED <<path, client, sent, pc, pump, pumped, outflow, lane>>

Send ==
  /\ client = "open" /\ pc \notin Ended
  /\ sent < MaxFrames /\ sent - read < Window
  /\ IF via = "ws" THEN outbox > 0 /\ outbox' = outbox - 1 ELSE UNCHANGED outbox
  /\ sent' = sent + 1
  /\ UNCHANGED <<path, client, pc, pump, pumped, outflow, lane>>

\* The bridge's generator returns at the None that follows the last message.
HalfClose ==
  /\ client = "open" /\ pc \notin Ended /\ outbox = 0
  /\ client' = "ended"
  /\ UNCHANGED <<path, outbox, sent, pc, pump, pumped, outflow, lane>>

\* The bridge's ws_to_grpc or grpc_to_ws has returned.
DirectionOver == client = "ended" \/ pc \in Ended

\* A cancelled call, or a bridge one of whose two directions has ended: what is
\* still in its outbound queue is dropped.
Leave ==
  /\ client # "gone"
  /\ via = "ws" \/ pc \notin Ended
  /\ client' = "gone"
  /\ outbox' = 0
  /\ UNCHANGED <<path, sent, pc, pump, pumped, outflow, lane>>

\* The client reads an answer; what it reads after the session is not followed.
Hear ==
  /\ client # "gone" /\ pc \notin Ended
  /\ heard < seen
  /\ heard' = heard + 1
  /\ UNCHANGED <<path, inflow, pc, pump, pumped, primary, answers, seen, lane>>

-----------------------------------------------------------------------------
(* The shadow lanes. *)

\* Mutant of Offer: the bound is not looked at.
OfferUnbounded(l) == IF l.writer = "done" /\ l.call = "none" THEN l
                     ELSE [l EXCEPT !.queue = @ + 1]

\* offer: never waits; a full queue drops the frame.
Offer(l) == IF l.writer = "done" /\ l.call = "none" THEN l
            ELSE IF l.queue < QueueCap THEN [l EXCEPT !.queue = @ + 1]
            ELSE [l EXCEPT !.dropped = @ + 1]

Live(l) == l.call \in {"open", "half"}

\* Cancelling a write or a read that is under way cancels the call, and with it
\* the other task.
CancelWriter(l) ==
  IF l.writer = "get" THEN [l EXCEPT !.writer = "cancelled"]
  ELSE IF l.writer # "write" THEN l
  ELSE [l EXCEPT !.writer = "cancelled",
                 !.drainer = IF @ = "read" THEN "cancelled" ELSE @,
                 !.call = IF Live(l) THEN "cancelled" ELSE @]

\* Mutant of CancelLane: the task that reads the shadow's answers is forgotten.
CancelOnlyWriter(l) == CancelWriter(l)

CancelLane(l) ==
  [l EXCEPT !.writer = IF @ \in {"get", "write"} THEN "cancelled" ELSE @,
            !.drainer = IF @ = "read" THEN "cancelled" ELSE @,
            !.call = IF Live(l) THEN "cancelled" ELSE @]

\* close() up to its wait: the sentinel, or no room for it and the writer is cancelled.
CloseLane(l) == IF l.call = "none" THEN l
                ELSE IF kind = "go" \/ l.queue < QueueCap THEN [l EXCEPT !.marker = TRUE]
                ELSE CancelWriter(l)

Over(l) == /\ l.writer \in {"done", "cancelled"}
           /\ l.drainer \in {"done", "cancelled"}
           /\ ~Live(l)

LaneStep(s, l) == /\ lane' = [lane EXCEPT ![s] = l]
                  /\ UNCHANGED <<path, inflow, pc, pump, pumped, outflow>>

LaneGet(s) ==
  /\ lane[s].writer = "get" /\ lane[s].queue > 0
  /\ LaneStep(s, [lane[s] EXCEPT !.queue = @ - 1, !.writer = "write"])

\* Mutant of LaneEnd: the lane ends at the sentinel without the frames before it.
LaneEndAtOnce(s) ==
  /\ lane[s].writer = "get" /\ lane[s].marker
  /\ LaneStep(s, [lane[s] EXCEPT !.writer = "done",
                                 !.call = IF kind = "python" /\ @ = "open" THEN "half" ELSE @])

\* The sentinel, or the closed channel, ends the writer once the queue is empty;
\* only the Python lane half-closes its call.
LaneEnd(s) ==
  /\ lane[s].writer = "get" /\ lane[s].queue = 0 /\ lane[s].marker
  /\ LaneStep(s, [lane[s] EXCEPT !.writer = "done",
                                 !.call = IF kind = "python" /\ @ = "open" THEN "half" ELSE @])

LaneWrite(s) ==
  /\ lane[s].writer = "write" /\ lane[s].call = "open"
  /\ LaneStep(s, [lane[s] EXCEPT !.writer = "get", !.mirrored = @ + 1])

\* The Python writer ends at the first failed write; the Go one goes on with the next.
LaneWriteFails(s) ==
  /\ lane[s].writer = "write" /\ lane[s].call = "finished"
  /\ LaneStep(s, [lane[s] EXCEPT !.writer = IF kind = "python" THEN "done" ELSE "get"])

\* The shadow backend ends or fails its call, whenever it likes.
ShadowEnds(s) ==
  /\ Live(lane[s])
  /\ LaneStep(s, [lane[s] EXCEPT !.call = "finished", !.drainer = "done"])

-----------------------------------------------------------------------------
(* The pump. *)

PumpRead ==
  /\ pump = "read" /\ read < sent
  /\ kind = "python" \/ pc \notin Ended
  /\ read' = read + 1
  /\ pump' = "write"
  /\ UNCHANGED <<path, inflow, pc, got, eof, outflow, lane>>

\* Mutant of PumpWrite: the pump waits for room in every shadow's queue.
PumpWaitsForShadows ==
  /\ pump = "write" /\ primary = "open"
  /\ \A s \in Shadows : lane[s].call # "open" \/ lane[s].queue < QueueCap
  /\ got' = Append(got, read)
  /\ lane' = [s \in Shadows |-> Offer(lane[s])]
  /\ pump' = "read"
  /\ UNCHANGED <<path, inflow, pc, read, eof, outflow>>

\* The primary takes the frame, then every shadow is offered it.
PumpWrite ==
  /\ pump = "write" /\ primary = "open"
  /\ got' = Append(got, read)
  /\ lane' = [s \in Shadows |-> Offer(lane[s])]
  /\ pump' = "read"
  /\ UNCHANGED <<path, inflow, pc, read, eof, outflow>>

\* A write to a call that is over raises in Python and ends the pump as it is; in
\* Go the error is dropped and the pump goes on.
PumpWriteFails ==
  /\ pump = "write" /\ primary # "open"
  /\ IF kind = "python"
     THEN pump' = "failed" /\ UNCHANGED lane
     ELSE pump' = "read" /\ lane' = [s \in Shadows |-> Offer(lane[s])]
  /\ UNCHANGED <<path, inflow, pc, pumped, outflow>>

\* No more input: the client has ended and everything is read, it has gone, or
\* (Go) the handler has returned and its stream with it.
InputOver == \/ client = "ended" /\ read = sent
             \/ client = "gone"
             \/ kind = "go" /\ pc \in Ended

\* done_writing, then close() of every lane; Go closes the channels and is done.
PumpEnd ==
  /\ pump = "read" /\ InputOver
  /\ IF primary # "open" THEN UNCHANGED eof
     ELSE IF client = "gone" THEN eof' \in BOOLEAN
     ELSE eof' = TRUE
  /\ lane' = [s \in Shadows |-> CloseLane(lane[s])]
  /\ pump' = IF kind = "python" THEN "closing" ELSE "done"
  /\ UNCHANGED <<path, inflow, pc, read, got, outflow>>

\* Mutant of LaneTimeout: only the writer is waited for with a timeout.
LaneTimeoutWriter(s) ==
  /\ pump = "closing" /\ lane[s].writer = "write"
  /\ LaneStep(s, CancelLane(lane[s]))

\* close() waits two seconds for the lane's tasks and cancels them.
LaneTimeout(s) ==
  /\ pump = "closing" /\ ~Over(lane[s])
  /\ LaneStep(s, CancelLane(lane[s]))

PumpDone ==
  /\ pump = "closing" /\ \A s \in Shadows : Over(lane[s])
  /\ pump' = "done"
  /\ UNCHANGED <<path, inflow, pc, pumped, outflow, lane>>

-----------------------------------------------------------------------------
(* The handler. *)

\* A client that ends without a frame: Python returns, Go returns Recv's error.
NoFrame ==
  /\ pc = "wait"
  /\ (client = "ended" /\ sent = 0) \/ client = "gone"
  /\ pc' = IF kind = "python" /\ client = "ended" THEN "completed" ELSE "aborted"
  /\ UNCHANGED <<path, inflow, pump, pumped, outflow, lane>>

\* The first frame picks the arm.  Python creates every call at once and the pump is
\* the first to wait for one; Go has to open them.  An empty table of rules raises in
\* Python and takes the whole process down in Go.
Begin ==
  /\ pc = "wait" /\ sent > 0
  /\ read' = 1
  /\ \/ /\ kind = "python" /\ pc' = "relay" /\ pump' = "write" /\ primary' = "open"
        /\ lane' = [s \in Shadows |-> NewLane]
     \/ kind = "go" /\ pc' = "dial" /\ UNCHANGED <<pump, primary, lane>>
     \/ pc' = "aborted" /\ UNCHANGED <<pump, primary, lane>>
  /\ UNCHANGED <<path, inflow, got, eof, answers, seen, heard>>

\* Go opens the primary's stream under the client's context, or returns why it cannot.
Dial ==
  /\ pc = "dial"
  /\ \/ /\ pc' = "mirror" /\ primary' = "open"
        /\ lane' = [s \in Shadows |-> PendingLane]
     \/ pc' = "aborted" /\ UNCHANGED <<primary, lane>>
  /\ UNCHANGED <<path, inflow, pump, pumped, answers, seen, heard>>

\* A shadow's stream opens or is skipped.  The call waits as long as the backend's
\* connection is coming up or has no stream left, on a context nobody cancels.
ShadowDials(s) ==
  /\ pc = "mirror" /\ lane[s].call = "pending"
  /\ LaneStep(s, NewLane) \/ LaneStep(s, NoLane)

\* Only then does the primary get its first frame.
StartPump ==
  /\ pc = "mirror" /\ \A s \in Shadows : lane[s].call # "pending"
  /\ pc' = "relay" /\ pump' = "write"
  /\ UNCHANGED <<path, inflow, pumped, outflow, lane>>

\* One answer is received and tagged with the arm ...
Take ==
  /\ pc = "relay" /\ seen < answers
  /\ pc' = "yield"
  /\ UNCHANGED <<path, inflow, pump, pumped, outflow, lane>>

\* ... and passed on once the client's stream has room for it.
Deliver ==
  /\ pc = "yield" /\ client # "gone"
  /\ seen - heard < Window
  /\ seen' = seen + 1
  /\ pc' = "relay"
  /\ UNCHANGED <<path, inflow, pump, pumped, primary, answers, heard, lane>>

\* Mutant of Complete: the end of the primary's call is taken before its last answers.
CompleteEarly ==
  /\ pc = "relay" /\ primary = "ended"
  /\ pc' = IF kind = "python" THEN "settle" ELSE "completed"
  /\ UNCHANGED <<path, inflow, pump, pumped, outflow, lane>>

\* The primary has ended and all it said is passed on.  Go returns; Python waits
\* for its pump.
Complete ==
  /\ pc = "relay" /\ primary = "ended" /\ seen = answers
  /\ pc' = IF kind = "python" THEN "settle" ELSE "completed"
  /\ UNCHANGED <<path, inflow, pump, pumped, outflow, lane>>

Settle ==
  /\ pc = "settle" /\ pump \in Settled
  /\ pc' = "completed"
  /\ UNCHANGED <<path, inflow, pump, pumped, outflow, lane>>

\* The client cancels while the handler waits for the pump: the cancellation goes
\* through to the pump, whose lanes are released only by a close() already waiting.
CutOff ==
  /\ pc = "settle" /\ client = "gone" /\ pump \notin Settled
  /\ pc' = "cut"
  /\ pump' = "cancelled"
  /\ lane' = IF pump = "closing" THEN [s \in Shadows |-> CancelLane(lane[s])] ELSE lane
  /\ UNCHANGED <<path, inflow, pumped, outflow>>

\* The client has gone, or the primary has failed and an answer is waited for.  Python
\* cancels the pump, the lanes and the primary; in Go the stream's context takes the
\* primary along.
Abort ==
  /\ \/ pc \in {"relay", "yield"} /\ client = "gone"
     \/ pc = "relay" /\ primary = "failed"
  /\ pc' = "aborted"
  /\ primary' = IF primary = "open" THEN "cancelled" ELSE primary
  /\ IF kind = "python"
     THEN /\ pump' = IF pump \in Settled THEN pump ELSE "cancelled"
          /\ lane' = [s \in Shadows |-> CancelLane(lane[s])]
     ELSE UNCHANGED <<pump, lane>>
  /\ UNCHANGED <<path, inflow, pumped, answers, seen, heard>>

-----------------------------------------------------------------------------
(* The primary backend: an agent that answers while it reads and ends its       *)
(* stream once its input has ended; it may also end or fail at any time.        *)

Taken == IF pc = "yield" THEN seen + 1 ELSE seen

PrimaryAnswers ==
  /\ primary = "open" /\ got # <<>>
  /\ answers < MaxAnswers /\ answers - Taken < Window
  /\ answers' = answers + 1
  /\ UNCHANGED <<path, inflow, pc, pump, pumped, primary, seen, heard, lane>>

PrimaryEnds ==
  /\ primary = "open"
  /\ primary' = "ended"
  /\ UNCHANGED <<path, inflow, pc, pump, pumped, answers, seen, heard, lane>>

PrimaryFails ==
  /\ primary = "open"
  /\ primary' = "failed"
  /\ UNCHANGED <<path, inflow, pc, pump, pumped, answers, seen, heard, lane>>

-----------------------------------------------------------------------------
ClientNext == Type \/ Send \/ HalfClose \/ Leave \/ Hear
PumpNext == PumpRead \/ PumpWrite \/ PumpWriteFails \/ PumpEnd \/ PumpDone
HandlerNext == \/ NoFrame \/ Begin \/ Dial \/ StartPump \/ Take \/ Deliver
               \/ Complete \/ Settle \/ CutOff \/ Abort
PrimaryNext == PrimaryAnswers \/ PrimaryEnds \/ PrimaryFails
LaneNext == \E s \in Shadows : \/ LaneGet(s) \/ LaneEnd(s) \/ LaneWrite(s)
                               \/ LaneWriteFails(s) \/ LaneTimeout(s) \/ ShadowEnds(s)
                               \/ ShadowDials(s)

Next == ClientNext \/ PumpNext \/ HandlerNext \/ PrimaryNext \/ LaneNext

\* The session is over and what it has left behind runs no more.
Idle == pc \in Ended /\ UNCHANGED vars

Spec == Init /\ [][Next \/ Idle]_vars

\* The gateway's tasks run, its timeouts fire, the primary lets itself be dialled (or
\* refuses), takes what is written to it and ends after its input has ended, and the
\* bridge cancels when one of its directions has ended.  Nothing is assumed of a shadow,
\* not even that its stream opens, nor of the client, not even that it reads.
Fairness ==
  /\ WF_vars(PumpNext)
  /\ WF_vars(HandlerNext)
  /\ WF_vars(eof /\ PrimaryEnds)
  /\ \A s \in Shadows : WF_vars(LaneTimeout(s))
  /\ WF_vars(via = "ws" /\ DirectionOver /\ Leave)

FairSpec == Spec /\ Fairness

-----------------------------------------------------------------------------
(* Properties. *)

PrimaryOver == primary \in {"ended", "failed", "cancelled"}
Outcome == IF pc \notin Ended THEN "running"
           ELSE IF pc = "completed" THEN "completed" ELSE "failed"

\* The session implements Relay: in order, nothing lost while the call is up, the
\* end of the input last, "completed" only with every answer passed on, whatever
\* the shadows, the bridge and the teardown do.
Promise == INSTANCE Relay WITH over <- PrimaryOver, outcome <- Outcome
ImplementsRelay == Promise!Spec

\* The two waits that nothing in the gateway ends: Go's for a shadow's stream to open,
\* and that for a client which stays but has stopped reading.
WaitsForShadow == pc = "mirror" /\ \E s \in Shadows : lane[s].call = "pending"
WaitsForReader == pc = "yield" /\ client # "gone" /\ seen - heard = Window

\* shadow.py's invariant, "the shadow path never throttles the primary", of open shadows:
\* every frame sent reaches the primary while it and the client are there, with no
\* assumption that any shadow takes anything.  It does not hold of Go's shadows that
\* are still being opened: the one exception is a session that waits for such a one
\* for ever.
ShadowNeverThrottles ==
  \/ \A n \in 1..MaxFrames :
       sent >= n ~> \/ Len(got) >= n
                    \/ PrimaryOver
                    \/ client = "gone" \/ pc \in Ended
  \/ <>[]WaitsForShadow

\* A client that has ended its input or gone gets its session ended: the teardown's waits
\* (handler for pump, pump for lanes, close for tasks) never hang.  Two sessions may stay:
\* one that waits for ever for a shadow's stream, and that of a client which half-closed
\* and reads no more.
SessionEnds ==
  \/ client # "open" ~> pc \in Ended
  \/ <>[]WaitsForShadow
  \/ <>[]WaitsForReader

\* A Python session whose pump ran to its end, or that was aborted, leaves no task
\* and no open call of a shadow behind.  (A pump that failed or was cut off while
\* settling does: close() and cancel() of its lanes are then never called.)
LanesReleased ==
  kind = "python" /\ (pc = "aborted" \/ (pc = "completed" /\ pump \in {"off", "done"}))
    => \A s \in Shadows : Over(lane[s])

\* A lane whose writer ended by itself on a call that is still up has flushed: every
\* frame the pump read was mirrored or counted as dropped, none forgotten.
LanesFlush ==
  \A s \in Shadows :
    lane[s].writer = "done" /\ Live(lane[s])
      => lane[s].mirrored + lane[s].dropped = read
-----------------------------------------------------------------------------
(* The inductive invariant of ProxySessionProofs. *)

\* The primary's call is up only while the session is relayed; then it has received, in
\* order, what the pump has read and written, and no end of input before the pump is done.
SessionInv ==
  /\ read <= sent /\ seen <= answers /\ heard <= seen
  /\ pump = "write" => read >= 1
  /\ primary = "open" =>
       /\ pc \in {"mirror", "relay", "yield"}
       /\ pump \in {"read", "write"} => ~eof
       /\ pump = "read" => Len(got) = read
       /\ pump = "write" => Len(got) = read - 1
  /\ pc \in {"wait", "dial"} => primary = "none"
  /\ pc \in {"wait", "dial", "mirror"} =>
       /\ pump = "off" /\ answers = 0 /\ got = <<>> /\ ~eof
       /\ read = IF pc = "wait" THEN 0 ELSE 1
  /\ pc \in {"dial", "mirror"} => kind = "go"
  /\ pc = "yield" => seen < answers
  /\ pc = "settle" => primary = "ended" /\ seen = answers

\* The frames a lane was offered and has not lost to a call that is over.
Handled(l) == l.mirrored + l.dropped + l.queue + (IF l.writer = "write" THEN 1 ELSE 0)
Written == IF pump = "off" THEN 0 ELSE IF pump = "write" THEN read - 1 ELSE read

\* A lane whose call is up has every frame the pump has written, and is not told to end, and
\* does not end, before the pump is done.
LaneInv(s) ==
  /\ Handled(lane[s]) <= Written
  /\ Live(lane[s]) =>
       /\ pump \in {"off", "read", "write", "closing", "done"} => Handled(lane[s]) = Written
       /\ lane[s].marker \/ lane[s].writer = "done" => pump \in {"closing", "done"}
       /\ lane[s].writer = "done" => lane[s].queue = 0
  /\ kind = "python" /\ pump = "off" => lane[s] = NoLane
  /\ kind = "python" /\ (pc = "aborted" \/ pump = "done") => Over(lane[s])

IInv == TypeOK /\ SessionInv /\ \A s \in Shadows : LaneInv(s)
=============================================================================
